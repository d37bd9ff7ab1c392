--------------------------- MODULE Accounts_proofs ---------------------------
(***************************************************************************)
(* The accounts of a run agree, for every price, quantity and commission   *)
(* and any number of fills and bars: the ledger's books (PositionLedger),  *)
(* what is read off its log (Trades) and what the run reports of its log   *)
(* and its curve (Performance).  And what is checked beside them: worse    *)
(* live metrics are not judged healthier (LiveValidation), simulated       *)
(* executions gain nothing (Execution), what the factory built is what the *)
(* registry lists (AlphaRegistry), the measures of one alpha do not        *)
(* contradict each other (AlphaEvaluation), and neither do the reports of  *)
(* a walk-forward study (FoldReports) or what is made of a finished run    *)
(* (Diagnosis).                                                            *)
(***************************************************************************)
EXTENDS Performance, LiveValidation, Execution, AlphaRegistry, AlphaEvaluation, FoldReports,
        Diagnosis, Position_proofs, SumTheorems, SequenceTheorems

(* BooksAgree without the market value, which is on both sides of it.      *)
CashAgrees == kept => cash = pos.realised - pos.cost - commission

IInv == TypeOK /\ FlatIsFree(pos) /\ CashAgrees

LEMMA LedgerInit == Init => IInv
  BY LedgerAssumption
     DEF Init, IInv, TypeOK, Flat, Position, FlatIsFree, IsFlat, CashAgrees

LEMMA LedgerStep == ASSUME IInv, [Next]_vars PROVE IInv'
  <1> USE LedgerAssumption
  <1>1. CASE OnMarket
    <2>1. PICK price \in Prices : pos' = MarkToMarket(pos, price)
      BY <1>1 DEF OnMarket
    <2>2. /\ pos' \in Position /\ pos'.quantity = pos.quantity
          /\ pos'.cost = pos.cost /\ pos'.realised = pos.realised
      BY <2>1 DEF IInv, TypeOK, MarkToMarket, Position
    <2> QED BY <1>1, <2>2
            DEF OnMarket, IInv, TypeOK, FlatIsFree, IsFlat, CashAgrees
  <1>2. CASE OnFill
    <2>1. PICK side \in Sides, qty \in Quantities, price \in Prices,
               fee \in Commissions :
            /\ fills < MaxFills
            /\ fills' = fills + 1
            /\ pos' = ApplyFill(pos, side, qty, price)
            /\ cash' = cash - Signed(side, qty) * price - fee
            /\ commission' = commission + fee
            /\ kept' = (kept /\ KeepsBooks(pos, side, qty, price))
      BY <1>2 DEF OnFill, Fill
    <2>2. qty \in Nat \ {0} /\ price \in Int /\ fee \in Int OBVIOUS
    <2>3. /\ pos' \in Position /\ FlatIsFree(pos')
          /\ KeepsBooks(pos, side, qty, price) =>
               pos'.realised - pos'.cost
                 = pos.realised - pos.cost - Signed(side, qty) * price
      BY <2>1, <2>2, FillKeepsBooks DEF IInv, TypeOK
    <2>4. Signed(side, qty) * price \in Int BY <2>2 DEF Signed
    <2>5. TypeOK'
      BY <2>1, <2>2, <2>3, <2>4 DEF IInv, TypeOK
    <2>6. CashAgrees'
      <3>1. /\ pos.realised \in Int /\ pos.cost \in Int
            /\ pos'.realised \in Int /\ pos'.cost \in Int
        BY <2>3 DEF IInv, TypeOK, Position
      <3>2. kept' => cash = pos.realised - pos.cost - commission
        BY <2>1, Zenon DEF IInv, CashAgrees
      <3>3. kept' => pos'.realised - pos'.cost
                       = pos.realised - pos.cost - Signed(side, qty) * price
        BY <2>1, <2>3, Zenon
      <3>4. cash \in Int /\ commission \in Int BY <1>2 DEF IInv, TypeOK
      <3>5. ASSUME cash = pos.realised - pos.cost - commission,
                   pos'.realised - pos'.cost
                     = pos.realised - pos.cost - Signed(side, qty) * price
            PROVE  cash' = pos'.realised - pos'.cost - commission'
        BY <2>1, <2>2, <2>4, <3>1, <3>4, <3>5
      <3> QED BY <3>2, <3>3, <3>5, Zenon DEF CashAgrees
    <2> QED BY <2>3, <2>5, <2>6 DEF IInv
  <1>3. CASE UNCHANGED vars
    BY <1>3 DEF vars, IInv, TypeOK, FlatIsFree, IsFlat, CashAgrees
  <1> QED BY <1>1, <1>2, <1>3 DEF Next

(* Equity is the initial capital plus the PnL reported less commissions,   *)
(* for any prices and quantities, until a fill reduces a position away     *)
(* from its average cost.                                                  *)
THEOREM BooksCorrect == Spec => []BooksAgree
  <1>1. IInv => BooksAgree
    <2> SUFFICES ASSUME IInv, kept
                 PROVE  cash + MarketValue(pos) = TotalPnl(pos) - commission
      BY DEF BooksAgree
    <2>1. /\ pos.quantity \in Int /\ pos.last \in Int /\ pos.cost \in Int
          /\ pos.realised \in Int /\ cash \in Int /\ commission \in Int
      BY DEF IInv, TypeOK, Position
    <2>2. MarketValue(pos) \in Int BY <2>1 DEF MarketValue
    <2> QED BY <2>1, <2>2 DEF IInv, CashAgrees, TotalPnl, Unrealised
  <1> QED BY <1>1, LedgerInit, LedgerStep, PTL DEF Spec

----------------------------------------------------------------------------
(* Reading the log, as FoldLeft defines it: what has been read of the rows *)
(* with some numbers is what the row of the greatest makes of the others.  *)
Reading(log, D, g) ==
  g = [s \in D |-> IF s = {} THEN Unread ELSE Pair(g[s \ {Max(s)}], log[Max(s)])]

Readings(log) == CHOOSE g : Reading(log, SUBSET DOMAIN log, g)

ReadOf(log) == FoldLeft(Pair, Unread, log)

LEMMA ReadIsReading == ASSUME NEW log PROVE ReadOf(log) = Readings(log)[DOMAIN log]
  BY Zenon DEF ReadOf, FoldLeft, MapThenFoldSet, Readings, Reading

LEMMA ReadingExists ==
  ASSUME NEW n \in Nat, NEW log, DOMAIN log = 1..n
  PROVE  Reading(log, SUBSET (1..n), Readings(log))
  <1> DEFINE Upto(m) == {s \in SUBSET (1..n) : Cardinality(s) <= m}
             N == {m \in Nat : \E g : Reading(log, Upto(m), g)}
  <1>1. 0 \in N
    <2> DEFINE g == [s \in Upto(0) |-> Unread]
    <2>1. \A s \in Upto(0) : s = {}
      <3> SUFFICES ASSUME NEW s \in SUBSET (1..n), Cardinality(s) <= 0 PROVE s = {}
        OBVIOUS
      <3>1. Cardinality(s) \in Nat /\ (Cardinality(s) = 0 <=> s = {}) BY SmallerSets
      <3> QED BY <3>1
    <2>2. Reading(log, Upto(0), g) BY <2>1 DEF Reading
    <2> QED BY <2>2
  <1>2. ASSUME NEW m \in Nat, m \in N PROVE m + 1 \in N
    <2>1. PICK g : Reading(log, Upto(m), g) BY <1>2
    <2> DEFINE U == Upto(m)
               V == Upto(m + 1)
               h == [s \in V |->
                       IF s = {} THEN Unread ELSE Pair(g[s \ {Max(s)}], log[Max(s)])]
    <2>2. U \subseteq V
      <3> SUFFICES ASSUME NEW s \in SUBSET (1..n), Cardinality(s) <= m
                   PROVE  Cardinality(s) <= m + 1
        OBVIOUS
      <3>1. Cardinality(s) \in Nat BY SmallerSets
      <3> QED BY <3>1
    <2>3. \A s \in V : s # {} => s \ {Max(s)} \in U
      <3> SUFFICES ASSUME NEW s \in SUBSET (1..n), Cardinality(s) <= m + 1, s # {}
                   PROVE  s \ {Max(s)} \in SUBSET (1..n) /\ Cardinality(s \ {Max(s)}) <= m
        OBVIOUS
      <3>1. /\ s \ {Max(s)} \in SUBSET (1..n) /\ Cardinality(s) \in Nat
            /\ Cardinality(s \ {Max(s)}) = Cardinality(s) - 1
        BY SmallerSets
      <3> QED BY <3>1
    <2> HIDE DEF U, V
    <2>4. \A s \in U : h[s] = g[s]
      <3>1. g = [s \in U |-> IF s = {} THEN Unread ELSE Pair(g[s \ {Max(s)}], log[Max(s)])]
        BY <2>1, Zenon DEF Reading, U
      <3>2. \A s \in U : g[s] = IF s = {} THEN Unread ELSE Pair(g[s \ {Max(s)}], log[Max(s)])
        BY <3>1, Zenon
      <3> QED BY <2>2, <3>2
    <2>5. h = [s \in V |-> IF s = {} THEN Unread ELSE Pair(h[s \ {Max(s)}], log[Max(s)])]
      <3>1. \A s \in V : s # {} => h[s \ {Max(s)}] = g[s \ {Max(s)}] BY <2>3, <2>4
      <3> QED BY <3>1
    <2> HIDE DEF h
    <2>6. \E k : Reading(log, V, k) BY <2>5, Zenon DEF Reading
    <2>7. \E k : Reading(log, Upto(m + 1), k) BY <2>6 DEF V
    <2>8. m + 1 \in Nat OBVIOUS
    <2> HIDE DEF Upto
    <2> QED BY <2>7, <2>8, Zenon
  <1>3. n \in N
    <2> HIDE DEF N
    <2> QED BY <1>1, <1>2, NatSetInduction
  <1>4. Upto(n) = SUBSET (1..n)
    <2>1. \A s \in SUBSET (1..n) : Cardinality(s) <= n BY SmallerSets
    <2> QED BY <2>1
  <1>5. \E g : Reading(log, SUBSET (1..n), g)
    <2>1. \E g : Reading(log, Upto(n), g) BY <1>3
    <2> HIDE DEF Upto
    <2> QED BY <1>4, <2>1
  <1>6. Reading(log, SUBSET DOMAIN log, Readings(log)) BY <1>5, Zenon DEF Readings
  <1> QED BY <1>6

(* The first rows of a log, one after the other.                           *)
LEMMA ReadingSteps ==
  ASSUME NEW n \in Nat, NEW log, DOMAIN log = 1..n
  PROVE  /\ Readings(log)[{}] = Unread
         /\ \A m \in Nat : m + 1 <= n =>
              Readings(log)[1..(m + 1)] = Pair(Readings(log)[1..m], log[m + 1])
  <1> DEFINE g == Readings(log)
             D == SUBSET (1..n)
  <1>1. g = [s \in D |-> IF s = {} THEN Unread ELSE Pair(g[s \ {Max(s)}], log[Max(s)])]
    <2>1. Reading(log, D, g) BY ReadingExists
    <2> QED BY <2>1, Zenon DEF Reading
  <1> HIDE DEF g, D
  <1>2. \A s \in D : g[s] = IF s = {} THEN Unread ELSE Pair(g[s \ {Max(s)}], log[Max(s)])
    BY <1>1, Zenon
  <1>3. {} \in D BY DEF D
  <1>4. ASSUME NEW m \in Nat, m + 1 <= n
        PROVE  g[1..(m + 1)] = Pair(g[1..m], log[m + 1])
    <2> DEFINE s == 1..(m + 1)
    <2>1. s \in D /\ s # {}
      <3>1. s \subseteq 1..n /\ 1 \in s BY <1>4
      <3> QED BY <3>1 DEF D
    <2>2. m + 1 \in s /\ \A y \in s : m + 1 >= y OBVIOUS
    <2>3. Max(s) = m + 1
      <3>1. \A x \in s : (\A y \in s : x >= y) => x = m + 1 BY <2>2
      <3> HIDE DEF s
      <3> QED BY <2>2, <3>1 DEF Max
    <2>4. s \ {m + 1} = 1..m OBVIOUS
    <2> HIDE DEF s
    <2>5. g[s] = Pair(g[s \ {Max(s)}], log[Max(s)]) BY <1>2, <2>1, Zenon
    <2> QED BY <2>3, <2>4, <2>5 DEF s
  <1>5. g[{}] = Unread BY <1>2, <1>3, Zenon
  <1> QED BY <1>4, <1>5 DEF g

LEMMA ReadEmpty == ReadOf(<<>>) = Unread
  <1>1. DOMAIN <<>> = 1..0 /\ 1..0 = {} OBVIOUS
  <1>2. Readings(<<>>)[{}] = Unread BY <1>1, ReadingSteps
  <1> QED BY <1>1, <1>2, ReadIsReading

LEMMA ReadAppend ==
  ASSUME NEW R, NEW log \in Seq(R), NEW row \in R
  PROVE  ReadOf(Append(log, row)) = Pair(ReadOf(log), row)
  <1> DEFINE more == Append(log, row)
             n == Len(log)
             g == Readings(log)
             h == Readings(more)
             N == {m \in Nat : m <= n => h[1..m] = g[1..m]}
  <1>1. /\ n \in Nat /\ DOMAIN log = 1..n /\ DOMAIN more = 1..(n + 1)
        /\ more[n + 1] = row /\ \A i \in 1..n : more[i] = log[i]
    OBVIOUS
  <1> HIDE DEF more, n
  <1>2. /\ g[{}] = Unread
        /\ \A m \in Nat : m + 1 <= n => g[1..(m + 1)] = Pair(g[1..m], log[m + 1])
    BY <1>1, ReadingSteps
  <1>3. /\ h[{}] = Unread
        /\ \A m \in Nat : m + 1 <= n + 1 => h[1..(m + 1)] = Pair(h[1..m], more[m + 1])
    BY <1>1, ReadingSteps
  <1> HIDE DEF g, h
  <1>4. 0 \in N
    <2>1. 1..0 = {} OBVIOUS
    <2> QED BY <1>2, <1>3, <2>1
  <1>5. ASSUME NEW m \in Nat, m \in N PROVE m + 1 \in N
    <2> SUFFICES ASSUME m + 1 <= n PROVE h[1..(m + 1)] = g[1..(m + 1)]
      OBVIOUS
    <2>1. m <= n /\ m + 1 <= n + 1 /\ m + 1 \in 1..n BY <1>1
    <2>2. h[1..m] = g[1..m] BY <1>5, <2>1
    <2>3. more[m + 1] = log[m + 1] BY <1>1, <2>1
    <2>4. h[1..(m + 1)] = Pair(h[1..m], more[m + 1]) BY <1>3, <2>1
    <2>5. g[1..(m + 1)] = Pair(g[1..m], log[m + 1]) BY <1>2
    <2> QED BY <2>2, <2>3, <2>4, <2>5, Zenon
  <1>6. n \in N
    <2> HIDE DEF N
    <2> QED BY <1>1, <1>4, <1>5, NatSetInduction
  <1>7. h[1..n] = g[1..n] BY <1>1, <1>6
  <1>8. h[1..(n + 1)] = Pair(h[1..n], more[n + 1]) BY <1>1, <1>3
  <1>9. ReadOf(more) = h[1..(n + 1)] /\ ReadOf(log) = g[1..n]
    BY <1>1, ReadIsReading, Zenon DEF g, h
  <1> QED BY <1>1, <1>7, <1>8, <1>9, Zenon DEF more

----------------------------------------------------------------------------
(* Totals of a field.                                                      *)
LEMMA TotalType ==
  ASSUME NEW R, NEW table \in Seq(R), NEW field, \A r \in R : r[field] \in Int,
         NEW some \in SUBSET DOMAIN table
  PROVE  /\ IsFiniteSet(some) /\ IsFiniteSet(DOMAIN table)
         /\ [i \in some |-> table[i][field]] \in Amounts(some)
         /\ TotalOf(table, some, field) \in Int
  <1> DEFINE D == DOMAIN table
             f == [i \in some |-> table[i][field]]
  <1>1. IsFiniteSet(D)
    <2>1. D = 1..Len(table) /\ Len(table) \in Nat OBVIOUS
    <2> HIDE DEF D
    <2> QED BY <2>1, FS_Interval
  <1>2. \A i \in D : table[i] \in R OBVIOUS
  <1>3. \A i \in D : table[i][field] \in Int BY <1>2
  <1>4. IsFiniteSet(some)
    <2>1. some \in SUBSET D OBVIOUS
    <2> HIDE DEF D
    <2> QED BY <1>1, <2>1, FS_Subset
  <1>5. f \in Amounts(some) BY <1>3 DEF Amounts
  <1>6. SumFunction(f) \in Int
    <2> HIDE DEF f
    <2> QED BY <1>4, <1>5, SumType
  <1> QED BY <1>1, <1>4, <1>5, <1>6 DEF TotalOf

LEMMA TotalAppend ==
  ASSUME NEW R, NEW table \in Seq(R), NEW row \in R, NEW field,
         \A r \in R : r[field] \in Int
  PROVE  TotalOf(Append(table, row), DOMAIN Append(table, row), field)
           = TotalOf(table, DOMAIN table, field) + row[field]
  <1> DEFINE more == Append(table, row)
             n == Len(table)
             f == [i \in DOMAIN table |-> table[i][field]]
             h == [i \in DOMAIN more |-> more[i][field]]
  <1>1. /\ n \in Nat /\ DOMAIN table = 1..n /\ DOMAIN more = 1..(n + 1)
        /\ more[n + 1] = row /\ \A i \in 1..n : more[i] = table[i]
        /\ more \in Seq(R)
    OBVIOUS
  <1>2. f \in Amounts(DOMAIN table) BY TotalType
  <1>3. h \in Amounts(DOMAIN more)
    <2>1. more \in Seq(R) /\ DOMAIN more \in SUBSET DOMAIN more BY <1>1
    <2> HIDE DEF more
    <2> QED BY <2>1, TotalType, Zenon
  <1> HIDE DEF more, n
  <1>4. h[n + 1] = row[field] /\ \A i \in 1..n : h[i] = f[i] BY <1>1
  <1>5. f \in Amounts(1..n) /\ h \in Amounts(1..(n + 1)) BY <1>1, <1>2, <1>3
  <1>6. SumFunction(h) = SumFunction(f) + h[n + 1]
    <2> HIDE DEF f, h
    <2> QED BY <1>1, <1>4, <1>5, SumAppend
  <1> QED BY <1>4, <1>6 DEF TotalOf, more

LEMMA TotalEmpty ==
  ASSUME NEW field PROVE TotalOf(<<>>, DOMAIN <<>>, field) = 0
  <1> DEFINE f == [i \in DOMAIN <<>> |-> <<>>[i][field]]
  <1>1. f \in Amounts({}) BY DEF Amounts
  <1>2. SumFunction(f) = 0
    <2> HIDE DEF f
    <2> QED BY <1>1, SumEmpty
  <1> QED BY <1>2 DEF TotalOf

----------------------------------------------------------------------------
(* The rows of the log, and what is read of them.                          *)
Rows == [side : Sides, quantity : Nat \ {0}, fill_price : Int, commission : Int,
         realised_pnl : Int]
Entries == [side : Sides, quantity : Nat \ {0}, cost : Int, commission : Int]
RoundTrips == [direction : {"LONG", "SHORT"}, quantity : Nat \ {0}, notional : Int,
               commission : Int, realised_pnl : Int]
Reads == [entry : Entries \cup {NoEntry}, trades : Seq(RoundTrips)]

LEMMA EntryTypes ==
  ASSUME NEW row \in Rows
  PROVE  /\ EntryOf(row) \in Entries
         /\ \A e \in Entries : Averaged(e, row) \in Entries /\ TradeOf(e, row) \in RoundTrips
  <1>1. /\ row.side \in Sides /\ row.quantity \in Nat \ {0} /\ row.fill_price \in Int
        /\ row.commission \in Int
    BY DEF Rows
  <1>2. row.quantity * row.fill_price \in Int BY <1>1
  <1>3. EntryOf(row) \in Entries BY <1>1, <1>2 DEF EntryOf, Entries
  <1>4. ASSUME NEW e \in Entries PROVE Averaged(e, row) \in Entries
    <2>1. /\ e.side \in Sides /\ e.quantity \in Nat \ {0} /\ e.cost \in Int /\ e.commission \in Int
          /\ e = [side |-> e.side, quantity |-> e.quantity, cost |-> e.cost,
                  commission |-> e.commission]
      BY DEF Entries
    <2> DEFINE k == row.quantity * row.fill_price
    <2>2. Averaged(e, row) = [e EXCEPT !.quantity = e.quantity + row.quantity,
                                       !.cost = e.cost + k,
                                       !.commission = e.commission + row.commission]
      BY DEF Averaged
    <2> HIDE DEF k
    <2>3. Averaged(e, row) = [side |-> e.side, quantity |-> e.quantity + row.quantity,
                              cost |-> e.cost + k, commission |-> e.commission + row.commission]
      BY <2>1, <2>2
    <2> QED BY <1>1, <1>2, <2>1, <2>3 DEF Entries, k
  <1>5. ASSUME NEW e \in Entries PROVE TradeOf(e, row) \in RoundTrips
    <2>1. e.side \in Sides /\ e.quantity \in Nat \ {0} /\ e.cost \in Int /\ e.commission \in Int
      BY DEF Entries
    <2>2. e.quantity * row.fill_price \in Int BY <1>1, <2>1
    <2>3. Signed(e.side, e.quantity * row.fill_price - e.cost) \in Int
      BY <2>1, <2>2 DEF Signed
    <2> QED BY <1>1, <2>1, <2>3 DEF TradeOf, RoundTrips
  <1> QED BY <1>3, <1>4, <1>5

LEMMA PairType ==
  ASSUME NEW read \in Reads, NEW row \in Rows
  PROVE  Pair(read, row) \in Reads
  <1>1. /\ read.entry \in Entries \cup {NoEntry} /\ read.trades \in Seq(RoundTrips)
        /\ read = [entry |-> read.entry, trades |-> read.trades]
    BY DEF Reads
  <1>2. CASE read.entry = NoEntry
    <2>1. Pair(read, row) = [entry |-> EntryOf(row), trades |-> read.trades]
      BY <1>1, <1>2 DEF Pair
    <2> QED BY <1>1, <2>1, EntryTypes DEF Reads
  <1>3. CASE read.entry # NoEntry
    <2>1. Averaged(read.entry, row) \in Entries /\ TradeOf(read.entry, row) \in RoundTrips
      BY <1>1, <1>3, EntryTypes
    <2>2. CASE row.side = read.entry.side
      <3>1. Pair(read, row) = [entry |-> Averaged(read.entry, row), trades |-> read.trades]
        BY <1>1, <1>3, <2>2 DEF Pair
      <3> QED BY <1>1, <2>1, <3>1 DEF Reads
    <2>3. CASE row.side # read.entry.side
      <3>1. Pair(read, row)
              = [entry |-> NoEntry, trades |-> Append(read.trades, TradeOf(read.entry, row))]
        BY <1>1, <1>3, <2>3 DEF Pair
      <3>2. Append(read.trades, TradeOf(read.entry, row)) \in Seq(RoundTrips)
        BY <1>1, <2>1
      <3> QED BY <3>1, <3>2 DEF Reads
    <2> QED BY <2>2, <2>3
  <1> QED BY <1>2, <1>3

(* The inductive invariant: the log's PnL is the ledger's; and as long as  *)
(* every exit closes all, the round trips read off it and the entry still  *)
(* pending account for the position and the commissions.                   *)
Earned(trades) == TotalOf(trades, DOMAIN trades, "realised_pnl")
Fees(trades) == TotalOf(trades, DOMAIN trades, "commission")

Accounted(read) ==
  /\ Earned(read.trades) + Fees(read.trades) = pos.realised
  /\ Fees(read.trades) + read.entry.commission = commission
  /\ Signed(read.entry.side, read.entry.quantity) = pos.quantity
  /\ Signed(read.entry.side, read.entry.cost) = pos.cost

TradesInv ==
  /\ IInv
  /\ trade_log \in Seq(Rows) /\ whole \in BOOLEAN
  /\ Earned(trade_log) = pos.realised
  /\ ReadOf(trade_log) \in Reads
  /\ whole => Accounted(ReadOf(trade_log))

(* One more trade.                                                         *)
LEMMA TotalsGrow ==
  ASSUME NEW trades \in Seq(RoundTrips), NEW t \in RoundTrips
  PROVE  /\ Earned(trades) \in Int /\ Fees(trades) \in Int
         /\ Earned(Append(trades, t)) = Earned(trades) + t.realised_pnl
         /\ Fees(Append(trades, t)) = Fees(trades) + t.commission
  <1>1. \A r \in RoundTrips : r["realised_pnl"] \in Int /\ r["commission"] \in Int
    BY DEF RoundTrips
  <1>2. Earned(trades) \in Int /\ Fees(trades) \in Int BY <1>1, TotalType DEF Earned, Fees
  <1>3. Earned(Append(trades, t)) = Earned(trades) + t["realised_pnl"]
    BY <1>1, TotalAppend DEF Earned
  <1>4. Fees(Append(trades, t)) = Fees(trades) + t["commission"]
    BY <1>1, TotalAppend DEF Fees
  <1> QED BY <1>2, <1>3, <1>4

----------------------------------------------------------------------------
(* A fill that adds to the position, or closes all of it.                  *)
LEMMA ApplyWhole ==
  ASSUME NEW p \in Position, NEW side \in Sides, NEW qty \in Nat \ {0}, NEW price \in Int
  PROVE  LET n == ApplyFill(p, side, qty, price)
             s == Signed(side, qty)
         IN  /\ IsFlat(p) =>
                  n.quantity = s /\ n.cost = s * price /\ n.realised = p.realised
             /\ ~IsFlat(p) /\ SameDirection(p.quantity, s) =>
                  /\ n.quantity = p.quantity + s /\ n.cost = p.cost + s * price
                  /\ n.realised = p.realised
             /\ ~IsFlat(p) /\ ~SameDirection(p.quantity, s) /\ qty = MagnitudeOf(p.quantity) =>
                  /\ n.quantity = 0 /\ n.cost = 0
                  /\ n.realised = p.realised + (p.quantity * price - p.cost)
  <1> DEFINE n == ApplyFill(p, side, qty, price)
             s == Signed(side, qty)
             q == p.quantity
  <1>0. /\ s \in Int /\ s # 0 /\ MagnitudeOf(s) = qty
        /\ q \in Int /\ p.cost \in Int /\ p.realised \in Int
        /\ p = [quantity |-> q, cost |-> p.cost, realised |-> p.realised, last |-> p.last]
    BY DEF Signed, Sides, Position, MagnitudeOf
  <1> HIDE DEF s
  <1>1. CASE IsFlat(p)
    BY <1>0, <1>1 DEF ApplyFill, s
  <1>2. CASE ~IsFlat(p) /\ SameDirection(q, s)
    BY <1>0, <1>2 DEF ApplyFill, s
  <1>3. CASE ~IsFlat(p) /\ ~SameDirection(q, s) /\ qty = MagnitudeOf(q)
    <2>1. Closed(q, s) = q /\ q + s = 0
      BY <1>0, <1>3 DEF Closed, MagnitudeOf, SameDirection, IsFlat
    <2>2. n = [quantity |-> q + s, cost |-> (q + s) * price,
               realised |-> p.realised + q * price - p.cost, last |-> price]
      BY <1>0, <1>3, <2>1 DEF ApplyFill, CostOf, s
    <2>3. (q + s) * price = 0 /\ q * price \in Int BY <1>0, <2>1
    <2> QED BY <1>0, <2>1, <2>2, <2>3, <1>3 DEF s
  <1> QED BY <1>1, <1>2, <1>3 DEF s

LEMMA NothingSigned ==
  ASSUME NEW side, NEW n \in Int, n = 0 PROVE Signed(side, n) = 0
  <1>1. ASSUME NEW m \in Int, m >= 0, -m >= 0 PROVE -m = 0 BY <1>1
  <1>2. ASSUME NEW m \in Int, m >= 0, m <= 0 PROVE -m >= 0 BY <1>2
  <1>3. n >= 0 /\ n <= 0 OBVIOUS
  <1>4. -n = 0 BY <1>1, <1>2, <1>3, Zenon
  <1> QED BY <1>4, Zenon DEF Signed

(* The pending entry is the position: there is none when it is flat, and   *)
(* else it is on the position's side.                                      *)
LEMMA EntryIsPosition ==
  ASSUME NEW e \in Entries \cup {NoEntry}, NEW q \in Int, Signed(e.side, e.quantity) = q
  PROVE  /\ e = NoEntry <=> q = 0
         /\ e # NoEntry => /\ e \in Entries /\ MagnitudeOf(q) = e.quantity
                           /\ e.side = "BUY" <=> q > 0
  <1>1. CASE e = NoEntry BY <1>1 DEF NoEntry, Signed
  <1>2. CASE e \in Entries
    <2>1. e.side \in Sides /\ e.quantity \in Nat \ {0} BY <1>2 DEF Entries
    <2>2. e.side # NoEntry.side BY <2>1 DEF NoEntry, Sides
    <2>3. e # NoEntry BY <2>2
    <2> QED BY <1>2, <2>1, <2>3 DEF Signed, MagnitudeOf, Sides
  <1> QED BY <1>1, <1>2

(* A row read is the fill booked.                                          *)
LEMMA PairBooks ==
  ASSUME NEW read \in Reads, NEW row \in Rows, pos \in Position, commission \in Int,
         Accounted(read),
         pos' = ApplyFill(pos, row.side, row.quantity, row.fill_price),
         commission' = commission + row.commission,
         \/ IsFlat(pos) \/ SameDirection(pos.quantity, Signed(row.side, row.quantity))
         \/ row.quantity = MagnitudeOf(pos.quantity)
  PROVE  Accounted(Pair(read, row))'
  <1> DEFINE e == read.entry
             trades == read.trades
             s == Signed(row.side, row.quantity)
             price == row.fill_price
             next == Pair(read, row)
  <1>1. /\ row.side \in Sides /\ row.quantity \in Nat \ {0} /\ price \in Int
        /\ row.commission \in Int
        /\ pos.quantity \in Int /\ pos.cost \in Int /\ pos.realised \in Int
        /\ e \in Entries \cup {NoEntry} /\ trades \in Seq(RoundTrips)
        /\ read = [entry |-> e, trades |-> trades]
    BY DEF Rows, Position, Reads
  <1>2. /\ Earned(trades) + Fees(trades) = pos.realised
        /\ Fees(trades) + e.commission = commission
        /\ Signed(e.side, e.quantity) = pos.quantity
        /\ Signed(e.side, e.cost) = pos.cost
    BY DEF Accounted
  <1>3. /\ e = NoEntry <=> pos.quantity = 0
        /\ e # NoEntry => /\ e \in Entries /\ MagnitudeOf(pos.quantity) = e.quantity
                          /\ e.side = "BUY" <=> pos.quantity > 0
    BY <1>1, <1>2, EntryIsPosition
  <1>4. Earned(trades) \in Int /\ Fees(trades) \in Int
    <2>1. \A r \in RoundTrips : r["realised_pnl"] \in Int /\ r["commission"] \in Int
      BY DEF RoundTrips
    <2> QED BY <1>1, <2>1, TotalType DEF Earned, Fees
  <1>5. /\ IsFlat(pos) =>
             pos'.quantity = s /\ pos'.cost = s * price /\ pos'.realised = pos.realised
        /\ ~IsFlat(pos) /\ SameDirection(pos.quantity, s) =>
             /\ pos'.quantity = pos.quantity + s /\ pos'.cost = pos.cost + s * price
             /\ pos'.realised = pos.realised
        /\ ~IsFlat(pos) /\ ~SameDirection(pos.quantity, s)
             /\ row.quantity = MagnitudeOf(pos.quantity) =>
             /\ pos'.quantity = 0 /\ pos'.cost = 0
             /\ pos'.realised = pos.realised + (pos.quantity * price - pos.cost)
    <2> DEFINE side == row.side
               qty == row.quantity
               n == ApplyFill(pos, side, qty, price)
    <2>1. side \in Sides /\ qty \in Nat \ {0} /\ price \in Int /\ n = pos' BY <1>1
    <2> HIDE DEF side, qty, price
    <2>2. /\ IsFlat(pos) =>
               /\ n.quantity = Signed(side, qty) /\ n.cost = Signed(side, qty) * price
               /\ n.realised = pos.realised
          /\ ~IsFlat(pos) /\ SameDirection(pos.quantity, Signed(side, qty)) =>
               /\ n.quantity = pos.quantity + Signed(side, qty)
               /\ n.cost = pos.cost + Signed(side, qty) * price
               /\ n.realised = pos.realised
          /\ ~IsFlat(pos) /\ ~SameDirection(pos.quantity, Signed(side, qty))
               /\ qty = MagnitudeOf(pos.quantity) =>
               /\ n.quantity = 0 /\ n.cost = 0
               /\ n.realised = pos.realised + (pos.quantity * price - pos.cost)
      BY <2>1, ApplyWhole
    <2> HIDE DEF n
    <2> QED BY <2>1, <2>2 DEF side, qty
  <1>6. row.quantity * price \in Int /\ s * price = Signed(row.side, row.quantity * price)
    BY <1>1 DEF Signed
  <1>7. SUFFICES
          /\ Earned(next.trades) + Fees(next.trades) = pos'.realised
          /\ Fees(next.trades) + next.entry.commission = commission'
          /\ Signed(next.entry.side, next.entry.quantity) = pos'.quantity
          /\ Signed(next.entry.side, next.entry.cost) = pos'.cost
    BY DEF Accounted, Earned, Fees, TotalOf
  <1>8. CASE IsFlat(pos)
    <2>1. e = NoEntry BY <1>3, <1>8 DEF IsFlat
    <2>2. next = [entry |-> EntryOf(row), trades |-> trades] BY <1>1, <2>1 DEF Pair
    <2>3. EntryOf(row) = [side |-> row.side, quantity |-> row.quantity,
                          cost |-> row.quantity * price, commission |-> row.commission]
      BY DEF EntryOf
    <2>4. e.commission = 0 BY <2>1 DEF NoEntry
    <2>5. next.trades = trades /\ next.entry = EntryOf(row) BY <2>2
    <2> HIDE DEF next
    <2>6. Earned(next.trades) + Fees(next.trades) = pos'.realised
      BY <1>2, <1>5, <1>8, <2>5
    <2>7. Fees(next.trades) + next.entry.commission = commission'
      BY <1>1, <1>2, <1>4, <2>3, <2>4, <2>5
    <2>8. Signed(next.entry.side, next.entry.quantity) = pos'.quantity
      BY <1>5, <1>8, <2>3, <2>5
    <2>9. Signed(next.entry.side, next.entry.cost) = pos'.cost
      BY <1>5, <1>6, <1>8, <2>3, <2>5
    <2> QED BY <2>6, <2>7, <2>8, <2>9
  <1>9. CASE ~IsFlat(pos) /\ SameDirection(pos.quantity, s)
    <2>1. e # NoEntry /\ e \in Entries /\ row.side = e.side
      BY <1>1, <1>3, <1>9 DEF IsFlat, SameDirection, Signed, Sides, Entries
    <2>2. next = [entry |-> Averaged(e, row), trades |-> trades] BY <1>1, <2>1 DEF Pair
    <2>3. e.quantity \in Int /\ e.cost \in Int /\ e.commission \in Int /\ e.side \in Sides
          /\ e = [side |-> e.side, quantity |-> e.quantity, cost |-> e.cost,
                  commission |-> e.commission]
      BY <2>1 DEF Entries
    <2> DEFINE k == row.quantity * price
    <2>4. Averaged(e, row) = [e EXCEPT !.quantity = e.quantity + row.quantity,
                                       !.cost = e.cost + k,
                                       !.commission = e.commission + row.commission]
      BY DEF Averaged
    <2>5. k \in Int /\ s * price = Signed(row.side, k) BY <1>6
    <2> HIDE DEF k
    <2>6. Averaged(e, row) = [side |-> e.side, quantity |-> e.quantity + row.quantity,
                              cost |-> e.cost + k, commission |-> e.commission + row.commission]
      BY <2>3, <2>4
    <2>7. next.trades = trades /\ next.entry = Averaged(e, row) BY <2>2
    <2> HIDE DEF next
    <2>8. Earned(next.trades) + Fees(next.trades) = pos'.realised
      BY <1>2, <1>5, <1>9, <2>7
    <2>9. Fees(next.trades) + next.entry.commission = commission'
      BY <1>1, <1>2, <1>4, <2>3, <2>6, <2>7
    <2>10. Signed(e.side, e.quantity + row.quantity) = pos.quantity + s
           /\ Signed(e.side, e.cost + k) = pos.cost + Signed(row.side, k)
      BY <1>1, <1>2, <2>1, <2>3, <2>5 DEF Signed
    <2>11. Signed(next.entry.side, next.entry.quantity) = pos'.quantity
      BY <1>5, <1>9, <2>6, <2>7, <2>10
    <2>12. Signed(next.entry.side, next.entry.cost) = pos'.cost
      BY <1>5, <1>9, <2>5, <2>6, <2>7, <2>10
    <2> QED BY <2>8, <2>9, <2>11, <2>12
  <1>10. CASE /\ ~IsFlat(pos) /\ ~SameDirection(pos.quantity, s)
              /\ row.quantity = MagnitudeOf(pos.quantity)
    <2>1. e # NoEntry /\ e \in Entries /\ row.side # e.side
      BY <1>1, <1>3, <1>10 DEF IsFlat, SameDirection, Signed, Sides, Entries
    <2> DEFINE t == TradeOf(e, row)
               gain == Signed(e.side, e.quantity * price - e.cost)
               fee == e.commission + row.commission
    <2>2. next = [entry |-> NoEntry, trades |-> Append(trades, t)] BY <1>1, <2>1 DEF Pair
    <2>3. t \in RoundTrips BY <2>1, EntryTypes
    <2>4. t.realised_pnl = gain - fee /\ t.commission = fee BY DEF TradeOf
    <2>5. e.quantity \in Int /\ e.cost \in Int /\ e.commission \in Int /\ e.side \in Sides
      BY <2>1 DEF Entries
    <2>6. gain = pos.quantity * price - pos.cost /\ gain \in Int
      <3>1. e.quantity * price \in Int BY <1>1, <2>5
      <3>2. Signed(e.side, e.quantity) * price = Signed(e.side, e.quantity * price)
        BY <1>1, <2>5 DEF Signed
      <3>3. gain = Signed(e.side, e.quantity * price) - Signed(e.side, e.cost) /\ gain \in Int
        <4> DEFINE x == e.quantity * price
        <4>1. x \in Int BY <3>1
        <4> HIDE DEF x
        <4>2. Signed(e.side, x - e.cost) = Signed(e.side, x) - Signed(e.side, e.cost)
              /\ Signed(e.side, x - e.cost) \in Int
          BY <2>5, <4>1 DEF Signed
        <4> QED BY <4>2 DEF x
      <3> HIDE DEF gain
      <3> QED BY <1>2, <3>2, <3>3
    <2>7. fee \in Int BY <1>1, <2>5
    <2> HIDE DEF t, gain
    <2>8. /\ Earned(Append(trades, t)) = Earned(trades) + t.realised_pnl
          /\ Fees(Append(trades, t)) = Fees(trades) + t.commission
      BY <1>1, <2>3, TotalsGrow
    <2>9. next.trades = Append(trades, t) /\ next.entry = NoEntry BY <2>2
    <2> HIDE DEF next
    <2>10. Fees(next.trades) + next.entry.commission = commission'
      <3>1. NoEntry.commission = 0 BY DEF NoEntry
      <3>2. Fees(next.trades) = Fees(trades) + (e.commission + row.commission)
        BY <2>4, <2>8, <2>9
      <3> QED BY <1>1, <1>2, <1>4, <2>5, <2>9, <3>1, <3>2
    <2>11. Earned(next.trades) + Fees(next.trades) = pos'.realised
      <3> HIDE DEF fee
      <3>1. Earned(next.trades) = Earned(trades) + (gain - fee)
            /\ Fees(next.trades) = Fees(trades) + fee
        BY <2>4, <2>8, <2>9
      <3>2. Earned(next.trades) + Fees(next.trades) = (Earned(trades) + Fees(trades)) + gain
        BY <1>4, <2>6, <2>7, <3>1
      <3> QED BY <1>2, <1>5, <1>10, <2>6, <3>2
    <2>12. Signed(NoEntry.side, NoEntry.quantity) = 0 /\ Signed(NoEntry.side, NoEntry.cost) = 0
      <3>1. NoEntry.quantity = 0 /\ NoEntry.cost = 0 BY DEF NoEntry
      <3> QED BY <3>1, NothingSigned
    <2> QED BY <1>5, <1>10, <2>9, <2>10, <2>11, <2>12
  <1> QED BY <1>8, <1>9, <1>10

LEMMA TradesInitially == ASSUME TradesInit PROVE TradesInv
  <1>1. IInv BY LedgerInit DEF TradesInit
  <1>2. /\ pos.quantity = 0 /\ pos.cost = 0 /\ pos.realised = 0 /\ commission = 0
        /\ trade_log = <<>> /\ whole = TRUE
    BY DEF TradesInit, Init, Flat
  <1>3. Earned(<<>>) = 0 /\ Fees(<<>>) = 0 BY TotalEmpty, Zenon DEF Earned, Fees
  <1>4. ReadOf(trade_log) = Unread BY <1>2, ReadEmpty
  <1>5. Unread \in Reads BY DEF Unread, Reads
  <1>6. Unread.trades = <<>> /\ Unread.entry = NoEntry BY DEF Unread
  <1>7. NoEntry.commission = 0 /\ Signed(NoEntry.side, NoEntry.quantity) = 0
        /\ Signed(NoEntry.side, NoEntry.cost) = 0
    <2>1. NoEntry.quantity = 0 /\ NoEntry.cost = 0 /\ NoEntry.commission = 0 BY DEF NoEntry
    <2> QED BY <2>1, NothingSigned
  <1>8. Accounted(Unread) BY <1>2, <1>3, <1>6, <1>7 DEF Accounted
  <1> QED BY <1>1, <1>2, <1>3, <1>4, <1>5, <1>8 DEF TradesInv

(* What a fill appends to the log, and that it is booked.                  *)
LEMMA LoggedFillKeeps ==
  ASSUME TradesInv, IInv', LoggedFill
  PROVE  TradesInv'
  <1>1. PICK side \in Sides, qty \in Quantities, price \in Prices, fee \in Commissions :
          /\ Fill(side, qty, price, fee)
          /\ LogFill(side, qty, price, fee)
          /\ whole' = (whole /\ (\/ IsFlat(pos) \/ SameDirection(pos.quantity, Signed(side, qty))
                                 \/ qty = MagnitudeOf(pos.quantity)))
    BY DEF LoggedFill
  <1>a. PICK row : row = [side |-> side, quantity |-> qty, fill_price |-> price,
                          commission |-> fee, realised_pnl |-> pos'.realised - pos.realised]
    OBVIOUS
  <1>b. PICK read : read = ReadOf(trade_log) OBVIOUS
  <1>2. /\ pos' = ApplyFill(pos, side, qty, price) /\ commission' = commission + fee
        /\ trade_log' = Append(trade_log, row)
    BY <1>1, <1>a DEF Fill, LogFill
  <1>3. /\ pos \in Position /\ pos' \in Position /\ commission \in Int
        /\ pos.realised \in Int /\ pos'.realised \in Int
    BY DEF TradesInv, IInv, TypeOK, Position
  <1>4. /\ row \in Rows /\ row.side = side /\ row.quantity = qty /\ row.fill_price = price
        /\ row.commission = fee /\ row.realised_pnl = pos'.realised - pos.realised
    BY <1>3, <1>a, LedgerAssumption DEF Rows
  <1>5. /\ trade_log \in Seq(Rows) /\ read \in Reads /\ Earned(trade_log) = pos.realised
        /\ whole => Accounted(read)
    BY <1>b DEF TradesInv
  <1>6. trade_log' \in Seq(Rows) BY <1>2, <1>4, <1>5
  <1>7. ReadOf(trade_log)' = Pair(read, row)
    <2>1. ReadOf(Append(trade_log, row)) = Pair(ReadOf(trade_log), row)
      BY <1>4, <1>5, ReadAppend
    <2>2. ReadOf(trade_log') = Pair(read, row) BY <1>2, <1>b, <2>1, Zenon
    <2> QED BY <2>2, Zenon DEF ReadOf
  <1>8. Pair(read, row) \in Reads BY <1>4, <1>5, PairType
  <1>9. Earned(trade_log)' = pos'.realised
    <2>1. \A r \in Rows : r["realised_pnl"] \in Int BY DEF Rows
    <2>2. Earned(Append(trade_log, row)) = Earned(trade_log) + row["realised_pnl"]
      BY <1>4, <1>5, <2>1, TotalAppend DEF Earned
    <2>3. Earned(trade_log') = pos.realised + (pos'.realised - pos.realised)
      BY <1>2, <1>4, <1>5, <2>2
    <2>4. Earned(trade_log') = pos'.realised BY <1>3, <2>3
    <2> QED BY <2>4 DEF Earned, TotalOf
  <1>10. ASSUME whole' PROVE Accounted(ReadOf(trade_log))'
    <2>1. /\ Accounted(read)
          /\ \/ IsFlat(pos) \/ SameDirection(pos.quantity, Signed(row.side, row.quantity))
             \/ row.quantity = MagnitudeOf(pos.quantity)
      BY <1>1, <1>4, <1>5, <1>10
    <2>2. /\ pos' = ApplyFill(pos, row.side, row.quantity, row.fill_price)
          /\ commission' = commission + row.commission
      BY <1>2, <1>4
    <2>3. Accounted(Pair(read, row))' BY <1>3, <1>4, <1>5, <2>1, <2>2, PairBooks
    <2> QED BY <1>7, <2>3 DEF Accounted, Earned, Fees, TotalOf
  <1>11. whole' \in BOOLEAN BY <1>1
  <1> QED BY <1>6, <1>7, <1>8, <1>9, <1>10, <1>11 DEF TradesInv

LEMMA TradesStep == ASSUME TradesInv, [TradesNext]_tradeVars PROVE TradesInv'
  <1>1. IInv'
    <2>1. [Next]_vars
      BY DEF TradesNext, LoggedFill, Next, OnFill, tradeVars, vars
    <2> QED BY <2>1, LedgerStep DEF TradesInv
  <1>2. ASSUME UNCHANGED <<trade_log, whole, commission>>,
               pos'.quantity = pos.quantity, pos'.cost = pos.cost, pos'.realised = pos.realised
        PROVE  TradesInv'
    <2>1. /\ ReadOf(trade_log)' = ReadOf(trade_log) /\ Earned(trade_log)' = Earned(trade_log)
          /\ Accounted(ReadOf(trade_log)) => Accounted(ReadOf(trade_log))'
      BY <1>2 DEF ReadOf, Earned, Fees, TotalOf, Accounted
    <2> QED BY <1>1, <1>2, <2>1 DEF TradesInv
  <1>3. CASE OnMarket /\ UNCHANGED <<trade_log, whole>>
    <2>1. PICK price \in Prices : pos' = MarkToMarket(pos, price) /\ UNCHANGED commission
      BY <1>3 DEF OnMarket
    <2>2. /\ pos'.quantity = pos.quantity /\ pos'.cost = pos.cost
          /\ pos'.realised = pos.realised
      BY <2>1 DEF TradesInv, IInv, TypeOK, MarkToMarket, Position
    <2> QED BY <1>2, <1>3, <2>1, <2>2
  <1>4. CASE LoggedFill BY <1>1, <1>4, LoggedFillKeeps
  <1>5. CASE UNCHANGED tradeVars BY <1>2, <1>5 DEF tradeVars
  <1> QED BY <1>3, <1>4, <1>5 DEF TradesNext

----------------------------------------------------------------------------
(* What the statistics and the attribution make of any round trips.        *)
PnlOf(trades, some) == TotalOf(trades, some, "realised_pnl")

LEMMA TotalSplit ==
  ASSUME NEW R, NEW table \in Seq(R), NEW field, \A r \in R : r[field] \in Int,
         NEW C \in SUBSET DOMAIN table, NEW A \in SUBSET C, NEW B \in SUBSET C,
         A \cup B = C, A \cap B = {}
  PROVE  /\ TotalOf(table, A, field) \in Int /\ TotalOf(table, B, field) \in Int
         /\ TotalOf(table, C, field) = TotalOf(table, A, field) + TotalOf(table, B, field)
  <1> DEFINE f == [i \in C |-> table[i][field]]
  <1>1. IsFiniteSet(C) /\ f \in Amounts(C)
    <2>1. IsFiniteSet(C) BY TotalType
    <2>2. \A i \in C : table[i] \in R /\ table[i][field] \in Int OBVIOUS
    <2>3. [i \in C |-> table[i][field]] \in Amounts(C) BY <2>2 DEF Amounts
    <2> QED BY <2>1, <2>3
  <1>2. /\ A \in SUBSET DOMAIN table /\ B \in SUBSET DOMAIN table OBVIOUS
  <1>3. TotalOf(table, A, field) \in Int /\ TotalOf(table, B, field) \in Int
    BY <1>2, TotalType
  <1>4. B = C \ A OBVIOUS
  <1>5. Restrict(f, A) = [i \in A |-> table[i][field]]
        /\ Restrict(f, B) = [i \in B |-> table[i][field]]
    BY DEF Restrict
  <1>6. SumFunction(f) = SumFunction(Restrict(f, A)) + SumFunction(Restrict(f, C \ A))
    <2> HIDE DEF f
    <2> QED BY <1>1, SumSplit
  <1> QED BY <1>3, <1>4, <1>5, <1>6 DEF TotalOf

LEMMA PnlSplit ==
  ASSUME NEW trades \in Seq(RoundTrips),
         NEW A \in SUBSET DOMAIN trades, NEW B \in SUBSET DOMAIN trades,
         A \cup B = DOMAIN trades, A \cap B = {}
  PROVE  /\ PnlOf(trades, A) \in Int /\ PnlOf(trades, B) \in Int
         /\ Earned(trades) = PnlOf(trades, A) + PnlOf(trades, B)
  <1> DEFINE D == DOMAIN trades
  <1>1. \A r \in RoundTrips : r["realised_pnl"] \in Int BY DEF RoundTrips
  <1>2. D \in SUBSET DOMAIN trades /\ A \in SUBSET D /\ B \in SUBSET D
        /\ A \cup B = D /\ A \cap B = {}
    OBVIOUS
  <1> HIDE DEF D
  <1>3. /\ TotalOf(trades, A, "realised_pnl") \in Int /\ TotalOf(trades, B, "realised_pnl") \in Int
        /\ TotalOf(trades, D, "realised_pnl")
             = TotalOf(trades, A, "realised_pnl") + TotalOf(trades, B, "realised_pnl")
    BY <1>1, <1>2, TotalSplit
  <1> QED BY <1>3 DEF PnlOf, Earned, D

(* No trade is left out of the attribution by direction, or in it twice.   *)
LEMMA AttributionAddsUp ==
  ASSUME NEW trades \in Seq(RoundTrips)
  PROVE  LET split == Decompose(trades)
         IN  SumFunction([d \in DOMAIN split |-> split[d].total_pnl]) = Earned(trades)
  <1> DEFINE split == Decompose(trades)
             Dirs == {trades[i].direction : i \in DOMAIN trades}
             Both == {"LONG", "SHORT"}
             b == [d \in Both |-> PnlOf(trades, Bucket(trades, d))]
             f == [d \in DOMAIN split |-> split[d].total_pnl]
  <1>1. \A i \in DOMAIN trades : trades[i].direction \in Both
    <2>1. \A i \in DOMAIN trades : trades[i] \in RoundTrips OBVIOUS
    <2> QED BY <2>1 DEF RoundTrips
  <1>2. Dirs \in SUBSET Both BY <1>1
  <1>3. /\ \A d \in Both : Bucket(trades, d) \in SUBSET DOMAIN trades
        /\ Bucket(trades, "LONG") \cup Bucket(trades, "SHORT") = DOMAIN trades
        /\ Bucket(trades, "LONG") \cap Bucket(trades, "SHORT") = {}
    BY <1>1 DEF Bucket
  <1>4. /\ PnlOf(trades, Bucket(trades, "LONG")) \in Int
        /\ PnlOf(trades, Bucket(trades, "SHORT")) \in Int
        /\ Earned(trades) = PnlOf(trades, Bucket(trades, "LONG"))
                            + PnlOf(trades, Bucket(trades, "SHORT"))
    BY <1>3, PnlSplit
  <1>5. b \in Amounts(Both)
    <2>1. \A d \in Both : PnlOf(trades, Bucket(trades, d)) \in Int BY <1>4
    <2> HIDE DEF Both
    <2> QED BY <2>1 DEF Amounts
  <1>6. SumFunction(b) = b["LONG"] + b["SHORT"]
    <2>1. "LONG" # "SHORT" OBVIOUS
    <2> HIDE DEF b
    <2> QED BY <1>5, <2>1, SumOfTwo
  <1>7. \A d \in Both \ Dirs : b[d] = 0
    <2> SUFFICES ASSUME NEW d \in Both, d \notin Dirs PROVE PnlOf(trades, Bucket(trades, d)) = 0
      OBVIOUS
    <2>1. Bucket(trades, d) = {} BY DEF Bucket
    <2> DEFINE g == [i \in {} |-> trades[i]["realised_pnl"]]
    <2>2. g \in Amounts({}) BY DEF Amounts
    <2>3. SumFunction(g) = 0
      <3> HIDE DEF g
      <3> QED BY <2>2, SumEmpty
    <2> QED BY <2>1, <2>3 DEF PnlOf, TotalOf
  <1>8. f = Restrict(b, Dirs)
    <2>1. DOMAIN split = Dirs BY DEF Decompose
    <2>2. \A d \in Dirs : split[d].total_pnl = PnlOf(trades, Bucket(trades, d))
      BY DEF Decompose, PnlOf
    <2> HIDE DEF split, Dirs
    <2> QED BY <1>2, <2>1, <2>2 DEF Restrict
  <1>9. b["LONG"] + b["SHORT"] = Earned(trades) BY <1>4
  <1>11. IsFiniteSet(Both)
    <2>1. IsFiniteSet({"LONG"}) BY FS_Singleton
    <2>2. IsFiniteSet({"LONG"} \cup {"SHORT"}) BY <2>1, FS_AddElement
    <2>3. Both = {"LONG"} \cup {"SHORT"} OBVIOUS
    <2> QED BY <2>2, <2>3
  <1> HIDE DEF b, Dirs, Both, f
  <1>10. SumFunction(b) = SumFunction(Restrict(b, Dirs)) BY <1>2, <1>5, <1>7, <1>11, SumSupport
  <1> QED BY <1>6, <1>8, <1>9, <1>10 DEF f

(* In percent, a ratio is at least 100 if the one is at least the other.   *)
LEMMA RatioInPercent ==
  ASSUME NEW a \in Int, NEW b \in Nat \ {0}
  PROVE  /\ a >= b => (100 * a) \div b >= 100
         /\ a < b => (100 * a) \div b < 100
  <1> DEFINE x == 100 * a
             q == x \div b
  <1>1. x \in Int OBVIOUS
  <1> HIDE DEF x
  <1>2. q \in Int /\ b * q <= x /\ x < b * q + b BY <1>1, DivFloor
  <1> HIDE DEF q
  <1>3. ASSUME a >= b, ~(q >= 100) PROVE FALSE
    <2>1. b * q <= b * 99 BY <1>2, <1>3, TimesOrdered
    <2> QED BY <1>2, <1>3, <2>1 DEF x
  <1>4. ASSUME a < b, ~(q < 100) PROVE FALSE
    <2>1. b * 100 <= b * q BY <1>2, <1>4, TimesOrdered
    <2> QED BY <1>2, <1>4, <2>1 DEF x
  <1> QED BY <1>3, <1>4 DEF q, x

LEMMA PnlSigns ==
  ASSUME NEW trades \in Seq(RoundTrips)
  PROVE  /\ PnlOf(trades, Winning(trades)) >= 0
         /\ PnlOf(trades, Losing(trades)) <= 0
  <1> DEFINE W == Winning(trades)
             L == Losing(trades)
             f == [i \in W |-> trades[i]["realised_pnl"]]
             g == [i \in L |-> trades[i]["realised_pnl"]]
             h == [i \in L |-> -trades[i]["realised_pnl"]]
  <1>1. \A r \in RoundTrips : r["realised_pnl"] \in Int BY DEF RoundTrips
  <1>2. W \in SUBSET DOMAIN trades /\ L \in SUBSET DOMAIN trades BY DEF Winning, Losing
  <1>3. IsFiniteSet(W) /\ f \in Amounts(W)
    <2> HIDE DEF W
    <2> QED BY <1>1, <1>2, TotalType
  <1>4. IsFiniteSet(L) /\ g \in Amounts(L)
    <2> HIDE DEF L
    <2> QED BY <1>1, <1>2, TotalType
  <1>5. \A i \in W : f[i] >= 0
    <2> SUFFICES ASSUME NEW i \in W PROVE trades[i]["realised_pnl"] >= 0 OBVIOUS
    <2>1. i \in DOMAIN trades /\ trades[i].realised_pnl > 0 BY DEF Winning
    <2>2. trades[i] \in RoundTrips BY <2>1
    <2>3. trades[i].realised_pnl \in Int BY <2>2 DEF RoundTrips
    <2> QED BY <2>1, <2>3
  <1>6. \A i \in L : g[i] <= 0 /\ g[i] \in Int /\ h[i] = -g[i]
    <2> SUFFICES ASSUME NEW i \in L
                 PROVE trades[i]["realised_pnl"] <= 0 /\ trades[i]["realised_pnl"] \in Int
      OBVIOUS
    <2>1. i \in DOMAIN trades /\ trades[i].realised_pnl <= 0 BY DEF Losing
    <2>2. trades[i] \in RoundTrips BY <2>1
    <2>3. trades[i].realised_pnl \in Int BY <2>2 DEF RoundTrips
    <2> QED BY <2>1, <2>3
  <1>7. \A i \in L : h[i] >= 0 /\ h[i] \in Int
    <2> HIDE DEF g
    <2> QED BY <1>6
  <1>8. h \in Amounts(L)
    <2>1. \A i \in L : -trades[i]["realised_pnl"] \in Int BY <1>7
    <2> QED BY <2>1 DEF Amounts
  <1>9. SumFunction(f) >= 0
    <2> HIDE DEF f, W
    <2> QED BY <1>3, <1>5, SumOfNaturals
  <1>10. SumFunction(g) <= 0
    <2> HIDE DEF g, h, L
    <2>1. SumFunction(h) >= 0 BY <1>4, <1>7, <1>8, SumOfNaturals
    <2>2. SumFunction(h) = -SumFunction(g) BY <1>4, <1>6, <1>8, SumNegated
    <2>3. SumFunction(g) \in Int BY <1>4, SumType
    <2> QED BY <2>1, <2>2, <2>3
  <1> QED BY <1>9, <1>10 DEF PnlOf, TotalOf

LEMMA StatsAgree ==
  ASSUME NEW trades \in Seq(RoundTrips), trades # <<>>
  PROVE  LET stats == TradeStats(trades)
         IN  /\ stats.total_pnl > 0 => stats.profit_factor >= 100
             /\ stats.total_pnl < 0 => stats.profit_factor < 100
             /\ stats.winning_trades = 0 <=> stats.best_trade <= 0
             /\ stats.total_pnl
                  >= stats.worst_trade * (stats.winning_trades + stats.losing_trades)
  <1> DEFINE W == Winning(trades)
             L == Losing(trades)
             D == DOMAIN trades
             n == Len(trades)
             V == {trades[i].realised_pnl : i \in D}
             stats == TradeStats(trades)
             profit == PnlOf(trades, W)
             loss == PnlOf(trades, L)
             total == Earned(trades)
  <1>1. \A i \in D : trades[i] \in RoundTrips /\ trades[i].realised_pnl \in Int
    <2>1. \A i \in D : trades[i] \in RoundTrips OBVIOUS
    <2> QED BY <2>1 DEF RoundTrips
  <1>2. n \in Nat /\ n # 0 /\ D = 1..n OBVIOUS
  <1>3. W \in SUBSET D /\ L \in SUBSET D /\ W \cup L = D /\ W \cap L = {}
    <2>1. W \in SUBSET D /\ L \in SUBSET D BY DEF Winning, Losing
    <2>2. \A i \in D : trades[i].realised_pnl > 0 <=> ~(trades[i].realised_pnl <= 0) BY <1>1
    <2>3. \A i \in D : (i \in W <=> trades[i].realised_pnl > 0)
                       /\ (i \in L <=> trades[i].realised_pnl <= 0)
      BY DEF Winning, Losing
    <2> HIDE DEF W, L, D
    <2> QED BY <2>1, <2>2, <2>3
  <1>4. profit \in Int /\ loss \in Int /\ total = profit + loss BY <1>3, PnlSplit
  <1>5. profit >= 0 /\ loss <= 0 BY PnlSigns
  <1>6. /\ stats.total_pnl = total
        /\ stats.profit_factor = IF loss = 0 THEN Infinite ELSE (100 * profit) \div (-loss)
        /\ stats.winning_trades = Cardinality(W) /\ stats.losing_trades = Cardinality(L)
        /\ stats.best_trade = Max(V) /\ stats.worst_trade = Min(V)
    BY DEF TradeStats, PnlOf, Earned
  <1>7. IsFiniteSet(D) /\ Cardinality(D) = n
    <2> HIDE DEF D
    <2> QED BY <1>2, FS_Interval
  <1>8. /\ IsFiniteSet(W) /\ IsFiniteSet(L)
        /\ Cardinality(W) \in Nat /\ Cardinality(L) \in Nat
        /\ Cardinality(W) + Cardinality(L) = n /\ (Cardinality(W) = 0 <=> W = {})
    <2> HIDE DEF W, L, D
    <2>1. IsFiniteSet(W) /\ IsFiniteSet(L) BY <1>3, <1>7, FS_Subset
    <2>2. Cardinality(W \cup L) = Cardinality(W) + Cardinality(L) - Cardinality(W \cap L)
      BY <2>1, FS_Union
    <2>3. Cardinality(W \cap L) = 0 BY <1>3, FS_EmptySet
    <2>4. Cardinality(W) \in Nat /\ Cardinality(L) \in Nat BY <2>1, FS_CardinalityType
    <2>5. Cardinality(W) = 0 <=> W = {} BY <2>1, FS_EmptySet
    <2>6. n = Cardinality(W) + Cardinality(L) - 0 BY <1>3, <1>7, <2>2, <2>3
    <2>7. Cardinality(W) + Cardinality(L) = n
      <3> HIDE DEF n
      <3> QED BY <2>4, <2>6
    <2> HIDE DEF n
    <2> QED BY <2>1, <2>4, <2>5, <2>7
  <1>9. /\ Max(V) \in V /\ (\A y \in V : Max(V) >= y)
        /\ Min(V) \in V /\ (\A y \in V : Min(V) <= y)
    <2> DEFINE f == [i \in D |-> trades[i].realised_pnl]
    <2>1. f \in Surjection(D, V) BY DEF Surjection
    <2>2. IsFiniteSet(V)
      <3> HIDE DEF f, D, V
      <3> QED BY <1>7, <2>1, FS_Surjection
    <2>3. V \subseteq Int /\ V # {} BY <1>1, <1>2
    <2> HIDE DEF V
    <2> QED BY <2>2, <2>3, GreatestIn, LeastIn
  <1>10. V \subseteq Int BY <1>1
  <1>11. W = {} <=> Max(V) <= 0
    <2>1. W = {} <=> \A i \in D : ~(trades[i].realised_pnl > 0) BY DEF Winning
    <2>2. (\A i \in D : ~(trades[i].realised_pnl > 0)) <=> \A y \in V : ~(y > 0) OBVIOUS
    <2> HIDE DEF V, W
    <2> DEFINE top == Max(V)
    <2>3. top \in V /\ top \in Int /\ \A y \in V : y \in Int /\ top >= y BY <1>9, <1>10
    <2> HIDE DEF top
    <2>4. ASSUME \A y \in V : ~(y > 0) PROVE top <= 0 BY <2>3, <2>4
    <2>5. ASSUME top <= 0, NEW y \in V PROVE ~(y > 0) BY <2>3, <2>5
    <2>6. (\A y \in V : ~(y > 0)) <=> top <= 0 BY <2>4, <2>5
    <2> QED BY <2>1, <2>2, <2>6 DEF top
  <1>12. total >= n * Min(V)
    <2> DEFINE f == [i \in 1..n |-> trades[i]["realised_pnl"]]
    <2>1. f \in Amounts(1..n) BY <1>1, <1>2 DEF Amounts
    <2>2. \A i \in 1..n : f[i] \in V BY <1>2
    <2>3. \A i \in 1..n : f[i] >= Min(V)
      <3> HIDE DEF f, V
      <3> QED BY <1>9, <1>10, <2>2
    <2>4. Min(V) \in Int BY <1>9, <1>10
    <2>5. total = SumFunction(f) BY <1>2 DEF Earned, TotalOf
    <2> HIDE DEF f, V, n
    <2>6. SumFunction(f) >= n * Min(V) BY <1>2, <2>1, <2>3, <2>4, SumAtLeast
    <2> QED BY <2>5, <2>6
  <1> HIDE DEF W, L, D, n, V, stats, profit, loss, total
  <1>13. loss # 0 =>
           /\ total > 0 => (100 * profit) \div (-loss) >= 100
           /\ total < 0 => (100 * profit) \div (-loss) < 100
    <2> SUFFICES ASSUME loss # 0
                 PROVE  /\ total > 0 => (100 * profit) \div (-loss) >= 100
                        /\ total < 0 => (100 * profit) \div (-loss) < 100
      OBVIOUS
    <2> DEFINE b == -loss
    <2>1. b \in Nat \ {0} /\ (total > 0 => profit >= b) /\ (total < 0 => profit < b)
      BY <1>4, <1>5
    <2> HIDE DEF b
    <2>2. /\ profit >= b => (100 * profit) \div b >= 100
          /\ profit < b => (100 * profit) \div b < 100
      BY <1>4, <2>1, RatioInPercent
    <2>3. /\ total > 0 => (100 * profit) \div b >= 100
          /\ total < 0 => (100 * profit) \div b < 100
      BY <2>1, <2>2
    <2> QED BY <2>3 DEF b
  <1>14. loss = 0 => ~(total < 0) BY <1>4, <1>5
  <1>15. /\ stats.total_pnl > 0 => stats.profit_factor >= 100
         /\ stats.total_pnl < 0 => stats.profit_factor < 100
    <2>1. CASE loss = 0
      <3>1. stats.profit_factor >= 100 BY <1>6, <2>1 DEF Infinite
      <3> QED BY <1>6, <1>14, <2>1, <3>1
    <2>2. CASE loss # 0
      <3>1. stats.profit_factor = (100 * profit) \div (-loss) BY <1>6, <2>2
      <3> QED BY <1>6, <1>13, <2>2, <3>1
    <2> QED BY <2>1, <2>2
  <1>16. stats.winning_trades = 0 <=> stats.best_trade <= 0 BY <1>6, <1>8, <1>11
  <1>17. stats.total_pnl >= stats.worst_trade * (stats.winning_trades + stats.losing_trades)
    <2>1. Min(V) \in Int BY <1>9, <1>10
    <2>2. n * Min(V) = Min(V) * n BY <1>2, <2>1
    <2>3. stats.winning_trades + stats.losing_trades = n BY <1>6, <1>8
    <2> QED BY <1>6, <1>12, <2>2, <2>3
  <1> QED BY <1>15, <1>16, <1>17 DEF stats

LEMMA FrameIsAll ==
  ASSUME trade_log \in Seq(Rows)
  PROVE  TotalOf(trade_log, TradeFrame, "realised_pnl") = Earned(trade_log)
  <1> DEFINE D == DOMAIN trade_log
             f == [i \in D |-> trade_log[i]["realised_pnl"]]
             T == TradeFrame
  <1>1. \A r \in Rows : r["realised_pnl"] \in Int BY DEF Rows
  <1>2. IsFiniteSet(D) /\ f \in Amounts(D) BY <1>1, TotalType
  <1>3. T \in SUBSET D /\ \A i \in D \ T : f[i] = 0 BY DEF TradeFrame
  <1>4. Restrict(f, T) = [i \in T |-> trade_log[i]["realised_pnl"]] BY <1>3 DEF Restrict
  <1> HIDE DEF f, D, T
  <1>5. SumFunction(f) = SumFunction(Restrict(f, T)) BY <1>2, <1>3, SumSupport
  <1> QED BY <1>4, <1>5 DEF Earned, TotalOf, f, D, T

LEMMA TradesAgree == ASSUME TradesInv PROVE TradesAddUp
  <1> SUFFICES ASSUME whole PROVE TradesAddUp
    BY DEF TradesAddUp
  <1> DEFINE read == Reconstructed
             trades == read.trades
             split == Decompose(trades)
  <1>1. read = ReadOf(trade_log) BY DEF Reconstructed, ReadOf
  <1>2. trades \in Seq(RoundTrips) BY <1>1 DEF TradesInv, Reads
  <1>3. Accounted(read) BY <1>1 DEF TradesInv
  <1>4. TotalOf(trade_log, TradeFrame, "realised_pnl") = pos.realised
    BY FrameIsAll DEF TradesInv
  <1> HIDE DEF read, trades
  <1>5. SumFunction([d \in DOMAIN split |-> split[d].total_pnl]) = Earned(trades)
    BY <1>2, AttributionAddsUp
  <1>6. trades # <<>> =>
          LET stats == TradeStats(trades)
          IN  /\ stats.total_pnl > 0 => stats.profit_factor >= 100
              /\ stats.total_pnl < 0 => stats.profit_factor < 100
              /\ stats.winning_trades = 0 <=> stats.best_trade <= 0
              /\ stats.total_pnl
                   >= stats.worst_trade * (stats.winning_trades + stats.losing_trades)
    BY <1>2, StatsAgree
  <1> HIDE DEF split
  <1> QED BY <1>3, <1>4, <1>5, <1>6, Zenon
          DEF TradesAddUp, Accounted, Earned, Fees, read, trades, split

(* As long as every exit closes the whole position, the accounts made of a *)
(* run's log agree with the ledger and with each other -- the analyser's   *)
(* round trips, the metrics' trades, the pending entry, the attribution    *)
(* and the statistics -- after any fills at any prices and commissions.    *)
THEOREM TradesCorrect == TradesSpec => []TradesAddUp
<1>1. TradesInit => TradesInv
  BY TradesInitially
<1>2. TradesInv /\ [TradesNext]_tradeVars => TradesInv'
  BY TradesStep
<1>3. TradesInv => TradesAddUp
  BY TradesAgree
<1> QED BY <1>1, <1>2, <1>3, PTL DEF TradesSpec

----------------------------------------------------------------------------
(* The reports.  While the curve is empty nothing was traded; it starts    *)
(* with the initial capital, and ends with the equity as long as it is     *)
(* settled.                                                                *)
CurveSnapshots == [equity : Int, cash : Int, total_pnl : Int, num_positions : {0, 1}]

CurveInv ==
  /\ equity_curve \in Seq(CurveSnapshots)
  /\ equity_curve = <<>> => IsFlat(pos) /\ cash = 0
  /\ equity_curve # <<>> =>
       /\ equity_curve[1].equity = InitialCapital
       /\ settled => equity_curve[Len(equity_curve)].equity = Equity

PerfInv == TradesInv /\ CurveInv

CapitalIsPositive == InitialCapital \in Nat \ {0}

LEMMA ValueType ==
  ASSUME NEW p \in Position
  PROVE  MarketValue(p) \in Int /\ TotalPnl(p) \in Int /\ (IsFlat(p) => MarketValue(p) = 0)
  <1>1. p.quantity \in Int /\ p.last \in Int /\ p.cost \in Int /\ p.realised \in Int
    BY DEF Position
  <1> DEFINE v == p.quantity * p.last
  <1>2. v \in Int /\ (p.quantity = 0 => v = 0) BY <1>1
  <1>3. MarketValue(p) = v BY DEF MarketValue
  <1> HIDE DEF v
  <1> QED BY <1>1, <1>2, <1>3 DEF TotalPnl, Unrealised, IsFlat

LEMMA PerfInitially == ASSUME PerfInit PROVE PerfInv
  BY TradesInitially DEF PerfInit, PerfInv, CurveInv, TradesInit, Init, IsFlat, Flat

LEMMA PerfStep ==
  ASSUME CapitalIsPositive, PerfInv, [PerfNext]_perfVars
  PROVE  PerfInv'
  <1> USE DEF PerfInv
  <1>1. TradesInv'
    <2>1. [TradesNext]_tradeVars BY DEF PerfNext, Bar, Trade, TradesNext, perfVars
    <2> QED BY <2>1, TradesStep
  <1>2. TypeOK /\ TypeOK' BY <1>1 DEF TradesInv, IInv
  <1>3. CASE Bar
    <2>1. PICK price \in Prices : pos' = MarkToMarket(pos, price) /\ cash' = cash
      BY <1>3 DEF Bar, OnMarket
    <2>2. pos'.quantity = pos.quantity BY <1>2, <2>1 DEF MarkToMarket, TypeOK, Position
    <2>3. /\ MarketValue(pos') \in Int /\ TotalPnl(pos') \in Int
          /\ IsFlat(pos') => MarketValue(pos') = 0
      BY <1>2, ValueType DEF TypeOK
    <2>4. /\ Snapshot' \in CurveSnapshots /\ Snapshot'.equity = Equity'
          /\ Equity' = InitialCapital + cash' + MarketValue(pos')
      BY <1>2, <2>3
         DEF Snapshot, CurveSnapshots, Equity, NumOpenPositions, TypeOK, CapitalIsPositive
    <2> DEFINE curve == equity_curve
               after == Append(curve, Snapshot')
    <2>5. curve \in Seq(CurveSnapshots) /\ equity_curve' = after
      BY <1>3 DEF CurveInv, Bar, RecordSnapshot
    <2>6. /\ after \in Seq(CurveSnapshots) /\ after # <<>>
          /\ Len(after) = Len(curve) + 1 /\ Len(curve) \in Nat
          /\ after[Len(after)] = Snapshot'
          /\ curve # <<>> => after[1] = curve[1]
          /\ curve = <<>> => after[1] = Snapshot'
      BY <2>4, <2>5
    <2>7. curve = <<>> => Snapshot'.equity = InitialCapital
      BY <1>2, <2>1, <2>2, <2>3, <2>4 DEF CurveInv, IsFlat, CapitalIsPositive
    <2>8. curve # <<>> => curve[1].equity = InitialCapital BY DEF CurveInv
    <2>9. equity_curve'[1].equity = InitialCapital BY <2>5, <2>6, <2>7, <2>8
    <2>10. equity_curve'[Len(equity_curve')].equity = Equity' BY <2>4, <2>5, <2>6
    <2>11. equity_curve' \in Seq(CurveSnapshots) /\ equity_curve' # <<>> BY <2>5, <2>6
    <2> QED BY <1>1, <2>9, <2>10, <2>11 DEF CurveInv
  <1>4. CASE Trade
    <2>1. equity_curve' = equity_curve /\ equity_curve # <<>> /\ ~settled'
      BY <1>4 DEF Trade
    <2> QED BY <1>1, <2>1 DEF CurveInv
  <1>5. CASE UNCHANGED perfVars
    <2>1. /\ equity_curve' = equity_curve /\ settled' = settled /\ pos' = pos /\ cash' = cash
      BY <1>5 DEF perfVars, tradeVars
    <2> QED BY <1>1, <2>1 DEF CurveInv, Equity, IsFlat, MarketValue
  <1> QED BY <1>3, <1>4, <1>5 DEF PerfNext

(* Rounding down, of a shifted number, is shifted.                         *)
LEMMA DivShifted ==
  ASSUME NEW a \in Int, NEW b \in Nat \ {0}, NEW k \in Int
  PROVE  (a - k * b) \div b = a \div b - k
  <1> DEFINE p == a \div b
             c == a - k * b
             q == c \div b
  <1>0. c \in Int OBVIOUS
  <1>1. p \in Int /\ b * p <= a /\ a < b * p + b BY DivFloor
  <1> HIDE DEF c, p
  <1>2. q \in Int /\ b * q <= c /\ c < b * q + b BY <1>0, DivFloor
  <1> HIDE DEF q
  <1>3. b * (p - k) = b * p - k * b BY <1>1
  <1>4. b * (p - k) <= c /\ c < b * (p - k) + b BY <1>1, <1>3 DEF c
  <1>5. ASSUME NEW x \in Int, NEW y \in Int, x < y, b * y <= c, c < b * x + b PROVE FALSE
    <2>1. b * (x + 1) <= b * y BY <1>5, TimesOrdered
    <2>2. b * (x + 1) = b * x + b OBVIOUS
    <2> QED BY <1>0, <1>5, <2>1, <2>2
  <1>6. p - k \in Int BY <1>1
  <1>7. ~(q < p - k) BY <1>2, <1>4, <1>5, <1>6
  <1>8. ~(p - k < q) BY <1>2, <1>4, <1>5, <1>6
  <1> QED BY <1>2, <1>6, <1>7, <1>8 DEF p, q, c

(* The trades that the metrics count as won and lost.                      *)
LEMMA WinsAndLosses ==
  ASSUME trade_log \in Seq(Rows)
  PROVE  /\ Cardinality(TradeFrame) = Cardinality(Wins) + Cardinality(Losses)
         /\ Earned(trade_log) = GrossProfit - GrossLoss
         /\ GrossProfit \in Int /\ GrossLoss \in Int
  <1>1. \A r \in Rows : r["realised_pnl"] \in Int BY DEF Rows
  <1>2. \A i \in DOMAIN trade_log : trade_log[i].realised_pnl \in Int
    <2>1. \A i \in DOMAIN trade_log : trade_log[i] \in Rows OBVIOUS
    <2> QED BY <1>1, <2>1
  <1> DEFINE D == DOMAIN trade_log
             T == TradeFrame
             W == Wins
             L == Losses
  <1>3. T \in SUBSET D /\ W \in SUBSET T /\ L \in SUBSET T /\ W \cup L = T /\ W \cap L = {}
    <2>1. T \in SUBSET D BY DEF TradeFrame
    <2>2. \A i \in D : /\ i \in T <=> trade_log[i].realised_pnl # 0
                       /\ i \in W <=> i \in T /\ trade_log[i].realised_pnl > 0
                       /\ i \in L <=> i \in T /\ trade_log[i].realised_pnl < 0
      BY DEF TradeFrame, Wins, Losses
    <2>3. W \in SUBSET T /\ L \in SUBSET T BY DEF Wins, Losses
    <2> HIDE DEF T, W, L, D
    <2>4. \A i \in D : /\ trade_log[i].realised_pnl # 0 <=>
                            \/ trade_log[i].realised_pnl > 0
                            \/ trade_log[i].realised_pnl < 0
                       /\ ~(trade_log[i].realised_pnl > 0 /\ trade_log[i].realised_pnl < 0)
      BY <1>2 DEF D
    <2> QED BY <2>1, <2>2, <2>3, <2>4
  <1>4. /\ TotalOf(trade_log, W, "realised_pnl") \in Int
        /\ TotalOf(trade_log, L, "realised_pnl") \in Int
        /\ TotalOf(trade_log, T, "realised_pnl")
             = TotalOf(trade_log, W, "realised_pnl") + TotalOf(trade_log, L, "realised_pnl")
    <2>1. T \in SUBSET DOMAIN trade_log /\ W \in SUBSET T /\ L \in SUBSET T
          /\ W \cup L = T /\ W \cap L = {}
      BY <1>3
    <2>2. trade_log \in Seq(Rows) OBVIOUS
    <2> HIDE DEF T, W, L, D
    <2>3. /\ TotalOf(trade_log, W, "realised_pnl") \in Int
          /\ TotalOf(trade_log, L, "realised_pnl") \in Int
      BY <1>1, <2>1, <2>2, TotalSplit
    <2>4. TotalOf(trade_log, T, "realised_pnl")
            = TotalOf(trade_log, W, "realised_pnl") + TotalOf(trade_log, L, "realised_pnl")
      BY <1>1, <2>1, <2>2, TotalSplit
    <2> QED BY <2>3, <2>4
  <1>5. TotalOf(trade_log, T, "realised_pnl") = Earned(trade_log) BY FrameIsAll
  <1>6. Cardinality(T) = Cardinality(W) + Cardinality(L)
    <2>1. IsFiniteSet(D)
      <3> HIDE DEF D
      <3>1. D = 1..Len(trade_log) /\ Len(trade_log) \in Nat BY DEF D
      <3> QED BY <3>1, FS_Interval
    <2> HIDE DEF T, W, L, D
    <2>2. IsFiniteSet(W) /\ IsFiniteSet(L) BY <1>3, <2>1, FS_Subset
    <2>3. Cardinality(W \cup L) = Cardinality(W) + Cardinality(L) - Cardinality(W \cap L)
      BY <2>2, FS_Union
    <2>4. Cardinality(W \cap L) = 0 BY <1>3, FS_EmptySet
    <2>5. Cardinality(W) \in Nat /\ Cardinality(L) \in Nat BY <2>2, FS_CardinalityType
    <2>6. Cardinality(T) = Cardinality(W) + Cardinality(L) - 0 BY <1>3, <2>3, <2>4
    <2> QED BY <2>5, <2>6
  <1> QED BY <1>4, <1>5, <1>6 DEF GrossProfit, GrossLoss

LEMMA ReportsFollow ==
  ASSUME CapitalIsPositive, PerfInv
  PROVE  ReportsAgree
  <1> SUFFICES ASSUME Metrics # <<>> PROVE ReportsAgree BY DEF ReportsAgree
  <1> DEFINE n == Len(equity_curve)
             E == Equities
             falls == {E[i] - Peak(i) : i \in DOMAIN Frame}
             F == Final
             m == Metrics
  <1>1. equity_curve \in Seq(CurveSnapshots) /\ n \in Nat BY DEF PerfInv, CurveInv
  <1>2. DOMAIN Frame = 1..n /\ Len(Frame) = n BY <1>1 DEF Frame
  <1>3. n >= 3 BY <1>1, <1>2 DEF Metrics
  <1>4. /\ DOMAIN E = 1..n /\ Len(E) = n
        /\ \A i \in 1..n : E[i] = equity_curve[i].equity /\ E[i] \in Int
    <2>1. \A i \in 1..n : equity_curve[i] \in CurveSnapshots BY <1>1
    <2>2. \A i \in 1..n : equity_curve[i].equity \in Int BY <2>1 DEF CurveSnapshots
    <2> QED BY <1>1, <1>2, <2>2 DEF Equities, Frame
  <1>5. First = InitialCapital /\ F = E[n] /\ F \in Int
    <2>1. equity_curve # <<>> /\ 1 \in 1..n /\ n \in 1..n BY <1>1, <1>3
    <2>2. equity_curve[1].equity = InitialCapital BY <2>1 DEF PerfInv, CurveInv
    <2> QED BY <1>4, <2>1, <2>2 DEF First, Final, Last
  <1>6. \A i \in 1..n : Peak(i) \in Int /\ Peak(i) >= InitialCapital
    <2> SUFFICES ASSUME NEW i \in 1..n PROVE Peak(i) \in Int /\ Peak(i) >= InitialCapital
      OBVIOUS
    <2> DEFINE S == {E[j] : j \in 1..i}
               f == [j \in 1..i |-> E[j]]
    <2>1. f \in Surjection(1..i, S) BY DEF Surjection
    <2>2. IsFiniteSet(1..i) BY FS_Interval
    <2>3. IsFiniteSet(S)
      <3> HIDE DEF f, S
      <3> QED BY <2>1, <2>2, FS_Surjection
    <2>4. S \subseteq Int /\ E[1] \in S /\ E[1] = InitialCapital
      BY <1>1, <1>4, <1>5 DEF First
    <2>5. Peak(i) = Max(S) BY DEF Peak
    <2> HIDE DEF S
    <2>6. Max(S) \in S /\ Max(S) >= InitialCapital BY <2>3, <2>4, GreatestIn
    <2> QED BY <2>4, <2>5, <2>6
  <1>7. MaxDrawdownAbs \in Int /\ MaxDrawdownAbs <= F - InitialCapital
    <2>1. MaxDrawdownAbs = Min(falls) BY <1>2, <1>3 DEF MaxDrawdownAbs
    <2> DEFINE f == [i \in 1..n |-> E[i] - Peak(i)]
    <2>2. f \in Surjection(1..n, falls) BY <1>2 DEF Surjection
    <2>3. IsFiniteSet(1..n) BY <1>1, FS_Interval
    <2>4. IsFiniteSet(falls)
      <3> HIDE DEF f, falls, n
      <3> QED BY <2>2, <2>3, FS_Surjection
    <2>5. falls \subseteq Int /\ E[n] - Peak(n) \in falls BY <1>2, <1>3, <1>4, <1>6
    <2>6. E[n] - Peak(n) <= F - InitialCapital
      BY <1>1, <1>3, <1>4, <1>5, <1>6 DEF CapitalIsPositive
    <2> HIDE DEF falls
    <2>7. Min(falls) \in falls /\ Min(falls) <= E[n] - Peak(n) BY <2>4, <2>5, LeastIn
    <2>8. Min(falls) \in Int /\ E[n] - Peak(n) \in Int BY <2>5, <2>7
    <2>10. F \in Int /\ InitialCapital \in Int BY <1>5 DEF CapitalIsPositive
    <2> HIDE DEF F, E, n
    <2>9. Min(falls) <= F - InitialCapital BY <2>6, <2>7, <2>8, <2>10
    <2> QED BY <2>1, <2>8, <2>9
  <1>8. /\ m.num_trades = Cardinality(TradeFrame)
        /\ m.num_wins = Cardinality(Wins) /\ m.num_losses = Cardinality(Losses)
        /\ m.total_return_pct = TotalReturnPct /\ m.max_drawdown_abs = MaxDrawdownAbs
        /\ m.wins = GrossProfit /\ m.losses = GrossLoss
    BY <1>2, <1>3 DEF Metrics
  <1>9. TotalReturnPct = (10000 * F) \div InitialCapital - 10000
    BY <1>2, <1>3, <1>5 DEF TotalReturnPct
  <1>10. trade_log \in Seq(Rows) /\ Earned(trade_log) = pos.realised /\ IInv
    BY DEF PerfInv, TradesInv
  <1>11. m.num_trades = m.num_wins + m.num_losses BY <1>8, <1>10, WinsAndLosses
  <1>12. m.total_return_pct * InitialCapital
           >= 10000 * m.max_drawdown_abs - InitialCapital
    <2> DEFINE x == 10000 * F
               q == x \div InitialCapital
    <2>1. x \in Int BY <1>5
    <2>2. InitialCapital \in Nat \ {0} BY DEF CapitalIsPositive
    <2> HIDE DEF x
    <2>3. /\ q \in Int /\ InitialCapital * q <= x /\ x < InitialCapital * q + InitialCapital
      BY <2>1, <2>2, DivFloor
    <2>4. m.total_return_pct = q - 10000 BY <1>8, <1>9 DEF x
    <2> HIDE DEF q
    <2>5. (q - 10000) * InitialCapital = InitialCapital * q - 10000 * InitialCapital
      BY <2>2, <2>3
    <2> DEFINE k == InitialCapital * q
    <2>6. k \in Int /\ x < k + InitialCapital BY <2>2, <2>3
    <2>7. m.total_return_pct * InitialCapital = k - 10000 * InitialCapital BY <2>4, <2>5
    <2> HIDE DEF k, m
    <2>8. 10000 * MaxDrawdownAbs <= 10000 * F - 10000 * InitialCapital BY <1>5, <1>7, <2>2
    <2>9. k - 10000 * InitialCapital >= 10000 * MaxDrawdownAbs - InitialCapital
      BY <1>5, <1>7, <2>2, <2>6, <2>8 DEF x
    <2> QED BY <1>8, <2>7, <2>9
  <1>13. ASSUME settled PROVE F = Equity
    <2>1. equity_curve # <<>> BY <1>1, <1>3
    <2>2. n \in 1..n BY <1>1, <1>3
    <2> QED BY <1>4, <1>5, <1>13, <2>1, <2>2 DEF PerfInv, CurveInv
  <1>14. ASSUME settled PROVE m.total_return_pct = Summary.return_pct
    <2>1. Summary.return_pct = (10000 * (F - InitialCapital)) \div InitialCapital
      BY <1>13, <1>14 DEF Summary
    <2>2. 10000 * (F - InitialCapital) = 10000 * F - 10000 * InitialCapital
      BY <1>5 DEF CapitalIsPositive
    <2> DEFINE x == 10000 * F
    <2>3. x \in Int /\ InitialCapital \in Nat \ {0} BY <1>5 DEF CapitalIsPositive
    <2>4. Summary.return_pct = (x - 10000 * InitialCapital) \div InitialCapital BY <2>1, <2>2
    <2>5. m.total_return_pct = x \div InitialCapital - 10000 BY <1>8, <1>9
    <2> HIDE DEF x, m
    <2>6. (x - 10000 * InitialCapital) \div InitialCapital = x \div InitialCapital - 10000
      BY <2>3, DivShifted
    <2> QED BY <2>4, <2>5, <2>6
  <1>15. ASSUME settled, kept, IsFlat(pos)
         PROVE  F - First = m.wins - m.losses - Summary.total_commission
    <2>1. /\ cash \in Int /\ commission \in Int /\ pos \in Position
          /\ pos.realised \in Int /\ pos.cost = 0
      BY <1>10, <1>15 DEF IInv, TypeOK, FlatIsFree, Position
    <2>2. MarketValue(pos) = 0 BY <1>15, <2>1, ValueType
    <2>3. F = InitialCapital + cash + 0 BY <1>13, <1>15, <2>2 DEF Equity
    <2>4. cash = pos.realised - pos.cost - commission BY <1>10, <1>15 DEF IInv, CashAgrees
    <2>5. m.wins - m.losses = pos.realised BY <1>8, <1>10, WinsAndLosses
    <2>6. Summary.total_commission = commission BY DEF Summary
    <2> HIDE DEF F, m
    <2> QED BY <1>5, <2>1, <2>3, <2>4, <2>5, <2>6 DEF CapitalIsPositive
  <1> QED BY <1>11, <1>12, <1>14, <1>15 DEF ReportsAgree

(* Whatever was traded at whatever prices, the metrics and the summary of  *)
(* a run tell the same story: they count the same trades, name the same    *)
(* return once the curve is complete, the return is never below the        *)
(* deepest drawdown, and with all positions closed the curve's gain is     *)
(* what the won trades earned more than the lost ones and the commissions. *)
THEOREM ReportsCorrect ==
  ASSUME CapitalIsPositive
  PROVE  PerfSpec => []ReportsAgree
<1>1. PerfInit => PerfInv
  BY PerfInitially
<1>2. PerfInv /\ [PerfNext]_perfVars => PerfInv'
  BY PerfStep
<1>3. PerfInv => ReportsAgree
  BY ReportsFollow
<1> QED BY <1>1, <1>2, <1>3, PTL DEF PerfSpec

----------------------------------------------------------------------------
(* Live validation (LiveValidation): of two reports on a model the worse   *)
(* is not scored or advised upon better.  The work is in the scores: every *)
(* division, clamp and threshold of the five analysers keeps the order of  *)
(* the metrics.  The invariant only says that what is recorded is what was *)
(* made of some metrics at the time.                                       *)
(* Rounding towards zero keeps order.                                      *)
LEMMA QuotientOrdered ==
  ASSUME NEW d \in Nat \ {0}, NEW x \in Int, NEW y \in Int, x <= y
  PROVE  /\ Quotient(x, d) \in Int
         /\ Quotient(x, d) <= Quotient(y, d)
  <1>1. ASSUME NEW a \in Nat, NEW b \in Int, a <= b
        PROVE  a \div d \in Nat /\ a \div d <= b \div d
    <2>1. b \in Nat BY <1>1
    <2> QED BY <1>1, <2>1, NatDivOrdered
  <1>2. CASE x < 0 /\ y < 0
    <2>1. -y \in Nat /\ -x \in Nat /\ -y <= -x BY <1>2
    <2>2. (-y) \div d \in Nat /\ (-y) \div d <= (-x) \div d BY <2>1, <1>1
    <2>3. (-x) \div d \in Nat BY <2>1, <1>1
    <2> QED BY <1>2, <2>2, <2>3 DEF Quotient
  <1>3. CASE x < 0 /\ y >= 0
    <2>1. (-x) \div d \in Nat BY <1>1, <1>3
    <2>2. y \div d \in Nat BY <1>1, <1>3
    <2> QED BY <1>3, <2>1, <2>2 DEF Quotient
  <1>4. CASE x >= 0
    <2>1. x \in Nat /\ y >= 0 BY <1>4
    <2>2. x \div d \in Nat /\ x \div d <= y \div d BY <2>1, <1>1
    <2> QED BY <1>4, <2>1, <2>2 DEF Quotient
  <1> QED BY <1>2, <1>3, <1>4

LEMMA MagnitudeIs ==
  ASSUME NEW n \in Int PROVE Magnitude(n) = IF n >= 0 THEN n ELSE -n
  <1>1. -n \in Int OBVIOUS
  <1>2. Max({n, -n}) = IF n >= -n THEN n ELSE -n BY <1>1, GreaterOfTwo
  <1> QED BY <1>2 DEF Magnitude

LEMMA FloorIs ==
  ASSUME NEW n \in Int PROVE Max({0, n}) = IF n >= 0 THEN n ELSE 0
  <1>1. Max({0, n}) = IF 0 >= n THEN 0 ELSE n BY GreaterOfTwo
  <1> QED BY <1>1

LEMMA ClampedIs ==
  ASSUME NEW n \in Int
  PROVE  Clamped(n) = IF n >= 100 THEN 100 ELSE IF n >= 0 THEN n ELSE 0
  <1>1. Min({100, n}) = IF 100 <= n THEN 100 ELSE n BY LesserOfTwo
  <1> DEFINE m == Min({100, n})
  <1>2. m \in Int BY <1>1
  <1>3. ASSUME NEW k, k = m PROVE Max({0, k}) = IF k >= 0 THEN k ELSE 0
    BY <1>2, <1>3, FloorIs
  <1>4. Max({0, m}) = IF m >= 0 THEN m ELSE 0 BY <1>3
  <1> QED BY <1>1, <1>4 DEF Clamped

(* A change is an integer, monotone in what is observed; how large it is,  *)
(* in how far that is from what was expected.                              *)
LEMMA ChangeOrdered ==
  ASSUME NEW e \in Int, NEW x \in Int, NEW y \in Int
  PROVE  /\ Change(e, x) \in Int
         /\ x <= y => Change(e, x) <= Change(e, y)
         /\ Magnitude(x - e) <= Magnitude(y - e) =>
              Magnitude(Change(e, x))
                <= Magnitude(Change(e, y))
  <1>1. CASE ~(e > 0)
    <2>1. Change(e, x) = 0 /\ Change(e, y) = 0
      BY <1>1 DEF Change
    <2> QED BY <2>1, MagnitudeIs
  <1>2. CASE e > 0
    <2> DEFINE u == 100 * (x - e)
               v == 100 * (y - e)
               q(n) == Quotient(n, e)
    <2>1. Change(e, x) = q(u) /\ Change(e, y) = q(v)
      BY <1>2 DEF Change
    <2>2. u \in Int /\ v \in Int /\ e \in Nat \ {0} BY <1>2
    <2>3. \A m, n \in Int : m <= n => q(m) \in Int /\ q(m) <= q(n)
      BY <2>2, QuotientOrdered
    <2>4. \A m \in Int : q(-m) = -q(m)
      <3> TAKE m \in Int
      <3>1. CASE m = 0
        <4>1. 0 \div e = 0 BY <1>2, SMT
        <4> QED BY <3>1, <4>1 DEF Quotient
      <3>2. CASE m < 0
        <4>1. ~(-m < 0) BY <3>2
        <4>2. (-m) \div e \in Int BY <1>2, SMT
        <4> QED BY <3>2, <4>1, <4>2 DEF Quotient
      <3>3. CASE m > 0
        <4>1. -m < 0 /\ ~(m < 0) /\ -(-m) = m BY <3>3
        <4> QED BY <4>1 DEF Quotient
      <3> QED BY <3>1, <3>2, <3>3
    <2>5. q(0) = 0
      <3>1. 0 \div e = 0 BY <1>2, SMT
      <3> QED BY <3>1 DEF Quotient
    <2>6. x <= y => u <= v OBVIOUS
    <2>7. Magnitude(x - e) = (IF x - e >= 0 THEN x - e ELSE -(x - e)) BY MagnitudeIs
    <2>8. Magnitude(y - e) = (IF y - e >= 0 THEN y - e ELSE -(y - e)) BY MagnitudeIs
    <2> DEFINE w(n) == IF n >= 0 THEN n ELSE -n
    <2>9. Magnitude(x - e) <= Magnitude(y - e) => w(u) <= w(v)
      BY <2>7, <2>8
    <2>10. u \in Int /\ v \in Int BY <2>2
    <2> HIDE DEF q, u, v
    <2>11. q(u) \in Int /\ q(v) \in Int /\ (u <= v => q(u) <= q(v)) BY <2>3, <2>10
    <2>12. \A n \in Int : Magnitude(q(n)) = q(w(n))
      <3> TAKE n \in Int
      <3>1. q(n) \in Int BY <2>3
      <3>2. Magnitude(q(n)) = (IF q(n) >= 0 THEN q(n) ELSE -q(n)) BY <3>1, MagnitudeIs
      <3>3. CASE n >= 0
        <4>1. q(0) <= q(n) BY <3>3, <2>3
        <4> QED BY <3>1, <3>2, <3>3, <4>1, <2>5
      <3>4. CASE n < 0
        <4>1. q(n) <= q(0) BY <3>4, <2>3
        <4>2. w(n) = -n /\ q(-n) = -q(n) BY <3>4, <2>4
        <4>3. q(n) = 0 \/ q(n) < 0 BY <4>1, <2>5, <3>1
        <4> QED BY <3>1, <3>2, <4>2, <4>3
      <3> QED BY <3>3, <3>4
    <2>13. w(u) <= w(v) => q(w(u)) <= q(w(v))
      <3>1. w(u) \in Int /\ w(v) \in Int BY <2>10
      <3> QED BY <3>1, <2>3
    <2> QED BY <2>1, <2>6, <2>9, <2>10, <2>11, <2>12, <2>13
  <1> QED BY <1>1, <1>2

LEMMA CalcDecayOrdered ==
  ASSUME NEW e \in Int, NEW x \in Int, NEW y \in Int
  PROVE  /\ CalcDecay(e, x) \in Nat
         /\ x <= y => CalcDecay(e, y) <= CalcDecay(e, x)
  <1>1. CASE e <= 0
    BY <1>1 DEF CalcDecay
  <1>2. CASE e > 0
    <2> DEFINE c(n) == Change(e, n)
    <2>0. ASSUME NEW n \in Int PROVE Max({0, n}) = IF n >= 0 THEN n ELSE 0
      BY FloorIs
    <2>1. c(x) \in Int /\ c(y) \in Int /\ (x <= y => c(x) <= c(y)) BY ChangeOrdered
    <2>2. CalcDecay(e, x) = Max({0, -c(x)})
      BY <1>2 DEF CalcDecay
    <2>3. CalcDecay(e, y) = Max({0, -c(y)})
      BY <1>2 DEF CalcDecay
    <2> HIDE DEF c
    <2>4. -c(x) \in Int /\ -c(y) \in Int BY <2>1
    <2>5. Max({0, -c(x)}) = IF -c(x) >= 0 THEN -c(x) ELSE 0 BY <2>4, <2>0
    <2>6. Max({0, -c(y)}) = IF -c(y) >= 0 THEN -c(y) ELSE 0 BY <2>4, <2>0
    <2> QED BY <2>1, <2>2, <2>3, <2>5, <2>6
  <1> QED BY <1>1, <1>2

WarningLevels == {"WARNING", "CRITICAL"}

(* A list of warnings is empty if none of its conditions held.             *)
LEMMA WarnIs ==
  ASSUME NEW c \in BOOLEAN, NEW level \in WarningLevels
  PROVE  /\ Warn(c, level) \in Seq(WarningLevels)
         /\ Warn(c, level) = <<>> => ~c
  BY DEF Warn

LEMMA NothingJoined ==
  ASSUME NEW s \in Seq(WarningLevels), NEW t \in Seq(WarningLevels)
  PROVE  s \o t \in Seq(WarningLevels) /\ (s \o t = <<>> => s = <<>> /\ t = <<>>)
  <1>1. Len(s \o t) = Len(s) + Len(t) /\ Len(s) \in Nat /\ Len(t) \in Nat OBVIOUS
  <1>2. ASSUME s \o t = <<>> PROVE Len(s) = 0 /\ Len(t) = 0
    <2>1. Len(s \o t) = 0 BY <1>2
    <2> QED BY <2>1, <1>1
  <1>3. Len(s) = 0 => s = <<>> OBVIOUS
  <1>4. Len(t) = 0 => t = <<>> OBVIOUS
  <1> QED BY <1>2, <1>3, <1>4

LEMMA CriticalIs ==
  ASSUME NEW score \in Int, NEW warnings
  PROVE  LET result == Result(score, warnings)
         IN  /\ result.score = score /\ result.warnings = warnings
             /\ result.status = "CRITICAL" => score < 50
  BY DEF Result, Status

AlphaNames == {"sharpe", "cagr", "profit_factor", "win_rate"}

(* Alpha: no four decays within their thresholds make a CRITICAL score.    *)
LEMMA AlphaResult ==
  ASSUME NEW e, NEW a,
         \A name \in AlphaNames : e[name] \in Int,
         \A name \in DOMAIN a : a[name] \in Int
  PROVE  LET result == AlphaDecay(e, a)
         IN  /\ result.score \in Int
             /\ result.status = "CRITICAL" => result.warnings # <<>>
  <1> DEFINE d(i) == CalcDecay(e[AlphaFields[i]],
                       Get(a, AlphaFields[i], e[AlphaFields[i]]))
             n == d(1) + d(2) + d(3) + d(4)
             w(i) == Warn(d(i) > DecayThreshold[i], "WARNING")
             warnings == w(1) \o w(2) \o w(3) \o w(4)
             score == Max({0, 100 - n \div 4})
  <1>1. \A i \in 1..4 : AlphaFields[i] \in AlphaNames
    BY DEF AlphaFields, AlphaNames
  <1>2. \A i \in 1..4 : d(i) \in Nat
    <2> TAKE i \in 1..4
    <2> DEFINE f == AlphaFields[i]
               x == Get(a, f, e[f])
    <2>1. e[f] \in Int BY <1>1
    <2>2. x \in Int BY <2>1 DEF Get
    <2> HIDE DEF f, x
    <2>3. CalcDecay(e[f], x) \in Nat BY <2>1, <2>2, CalcDecayOrdered
    <2> QED BY <2>3 DEF f, x
  <1>3. /\ DecayThreshold[1] = 30 /\ DecayThreshold[2] = 30
        /\ DecayThreshold[3] = 20 /\ DecayThreshold[4] = 15
    BY DEF DecayThreshold
  <1>4. AlphaDecay(e, a) = Result(score, warnings)
    BY DEF AlphaDecay
  <1> HIDE DEF d
  <1>5. d(1) \in Nat /\ d(2) \in Nat /\ d(3) \in Nat /\ d(4) \in Nat BY <1>2
  <1>6. n \div 4 \in Int /\ 4 * (n \div 4) <= n
    <2>1. n \in Int BY <1>5
    <2> QED BY <2>1, SMT
  <1> DEFINE m == 100 - n \div 4
  <1>7. m \in Int BY <1>6
  <1>8. Max({0, m}) = IF m >= 0 THEN m ELSE 0
    <2> HIDE DEF m
    <2> QED BY <1>7, FloorIs
  <1>9. score \in Int /\ (score < 50 => n > 200) BY <1>5, <1>6, <1>8
  <1>10. \A i \in 1..4 : /\ w(i) \in Seq(WarningLevels)
                         /\ w(i) = <<>> => ~(d(i) > DecayThreshold[i])
    <2>1. "WARNING" \in WarningLevels BY DEF WarningLevels
    <2> TAKE i \in 1..4
    <2>2. (d(i) > DecayThreshold[i]) \in BOOLEAN BY <1>2, <1>3
    <2> DEFINE c == d(i) > DecayThreshold[i]
    <2>3. c \in BOOLEAN BY <2>2
    <2> HIDE DEF c
    <2>4. /\ Warn(c, "WARNING") \in Seq(WarningLevels)
          /\ Warn(c, "WARNING") = <<>> => ~c
      BY <2>1, <2>3, WarnIs
    <2> QED BY <2>4 DEF c
  <1> HIDE DEF w
  <1>11. /\ w(1) \in Seq(WarningLevels) /\ w(2) \in Seq(WarningLevels)
         /\ w(3) \in Seq(WarningLevels) /\ w(4) \in Seq(WarningLevels)
    BY <1>10
  <1>12. w(1) \o w(2) \in Seq(WarningLevels) /\ (w(1) \o w(2) = <<>> => w(1) = <<>> /\ w(2) = <<>>)
    BY <1>11, NothingJoined
  <1> DEFINE p == w(1) \o w(2)
             q == p \o w(3)
  <1>13. q \in Seq(WarningLevels) /\ (q = <<>> => p = <<>> /\ w(3) = <<>>)
    <2>1. p \in Seq(WarningLevels) BY <1>12
    <2> HIDE DEF p
    <2> QED BY <1>11, <2>1, NothingJoined
  <1>14. warnings = <<>> => q = <<>> /\ w(4) = <<>>
    <2>1. q \in Seq(WarningLevels) BY <1>13
    <2>2. warnings = q \o w(4) OBVIOUS
    <2> HIDE DEF q, warnings
    <2> QED BY <1>11, <2>1, <2>2, NothingJoined
  <1>15. warnings = <<>> => \A i \in 1..4 : w(i) = <<>>
    <2> HIDE DEF warnings
    <2>1. ASSUME warnings = <<>>, NEW i \in 1..4 PROVE w(i) = <<>>
      <3>1. w(1) = <<>> /\ w(2) = <<>> /\ w(3) = <<>> /\ w(4) = <<>>
        BY <2>1, <1>12, <1>13, <1>14
      <3>2. i = 1 \/ i = 2 \/ i = 3 \/ i = 4 OBVIOUS
      <3> QED BY <3>1, <3>2
    <2> QED BY <2>1
  <1>16. warnings = <<>> => n <= 95
    <2> HIDE DEF warnings
    <2>1. ASSUME warnings = <<>> PROVE \A i \in 1..4 : ~(d(i) > DecayThreshold[i])
      BY <2>1, <1>10, <1>15
    <2>2. ASSUME warnings = <<>> PROVE d(1) <= 30 /\ d(2) <= 30 /\ d(3) <= 20 /\ d(4) <= 15
      BY <2>1, <2>2, <1>3, <1>5
    <2> QED BY <2>2, <1>5
  <1> HIDE DEF score, warnings
  <1>17. /\ Result(score, warnings).score = score
         /\ Result(score, warnings).warnings = warnings
         /\ Result(score, warnings).status = "CRITICAL" => score < 50
    BY <1>9, CriticalIs
  <1> QED BY <1>4, <1>5, <1>9, <1>16, <1>17

LEMMA AlphaOrdered ==
  ASSUME NEW e, NEW a, NEW b,
         \A name \in AlphaNames : e[name] \in Int,
         DOMAIN a = AlphaNames, DOMAIN b = AlphaNames,
         \A name \in AlphaNames : a[name] \in Int /\ b[name] \in Int,
         \A name \in AlphaNames : a[name] <= b[name]
  PROVE  AlphaDecay(e, a).score <= AlphaDecay(e, b).score
  <1> DEFINE d(x, i) == CalcDecay(e[AlphaFields[i]],
                          Get(x, AlphaFields[i], e[AlphaFields[i]]))
             n(x) == d(x, 1) + d(x, 2) + d(x, 3) + d(x, 4)
             m(x) == 100 - n(x) \div 4
  <1>1. \A i \in 1..4 : AlphaFields[i] \in AlphaNames
    BY DEF AlphaFields, AlphaNames
  <1>2. \A i \in 1..4 : d(a, i) \in Nat /\ d(b, i) \in Nat /\ d(b, i) <= d(a, i)
    <2> TAKE i \in 1..4
    <2> DEFINE f == AlphaFields[i]
    <2>1. f \in AlphaNames BY <1>1
    <2>2. Get(a, f, e[f]) = a[f] /\ Get(b, f, e[f]) = b[f]
      BY <2>1 DEF Get
    <2>3. e[f] \in Int /\ a[f] \in Int /\ b[f] \in Int /\ a[f] <= b[f] BY <2>1
    <2> HIDE DEF f
    <2>4. /\ CalcDecay(e[f], a[f]) \in Nat
          /\ CalcDecay(e[f], b[f]) <= CalcDecay(e[f], a[f])
      BY <2>3, CalcDecayOrdered
    <2>5. CalcDecay(e[f], b[f]) \in Nat BY <2>3, CalcDecayOrdered
    <2> QED BY <2>2, <2>4, <2>5 DEF f
  <1>3. ASSUME NEW x PROVE AlphaDecay(e, x).score = Max({0, m(x)})
    BY DEF AlphaDecay, Result
  <1> HIDE DEF d
  <1>4. n(a) \in Nat /\ n(b) \in Nat /\ n(b) <= n(a) BY <1>2
  <1>5. m(a) \in Int /\ m(b) \in Int /\ m(a) <= m(b)
    <2> HIDE DEF n
    <2>1. n(a) \div 4 \in Int /\ n(b) \div 4 \in Int /\ n(b) \div 4 <= n(a) \div 4 BY <1>4, SMT
    <2> QED BY <2>1
  <1> HIDE DEF m
  <1>6. Max({0, m(a)}) = IF m(a) >= 0 THEN m(a) ELSE 0 BY <1>5, FloorIs
  <1>7. Max({0, m(b)}) = IF m(b) >= 0 THEN m(b) ELSE 0 BY <1>5, FloorIs
  <1>8. /\ AlphaDecay(e, a).score = Max({0, m(a)})
        /\ AlphaDecay(e, b).score = Max({0, m(b)})
    BY <1>3
  <1> QED BY <1>5, <1>6, <1>7, <1>8

ClampedOrdered(x, y) ==
  /\ Clamped(x) \in Int
  /\ x <= y => Clamped(x) <= Clamped(y)

LEMMA ClampsKeepOrder ==
  ASSUME NEW x \in Int, NEW y \in Int PROVE ClampedOrdered(x, y)
  <1>1. Clamped(x) = IF x >= 100 THEN 100 ELSE IF x >= 0 THEN x ELSE 0
    BY ClampedIs
  <1>2. Clamped(y) = IF y >= 100 THEN 100 ELSE IF y >= 0 THEN y ELSE 0
    BY ClampedIs
  <1> QED BY <1>1, <1>2 DEF ClampedOrdered

(* Signals, forecasts, regimes and execution: types, and order.            *)
LEMMA SignalScore ==
  ASSUME NEW e, NEW s, e.freq \in Int, "freq" \in DOMAIN s => s.freq \in Int
  PROVE  SignalStability(e, s).score \in Int
  <1> DEFINE f == Change(e.freq, Get(s, "freq", 0))
             kl == KL(e.signal_dist, Get(s, "dist", "single"))
             psi == PSI(e.signal_dist, Get(s, "dist", "single"))
             g == Magnitude(f)
             x == 100 - (IF g > 20 THEN g \div 2 ELSE 0)
                      - (IF kl > 5 THEN kl ELSE 0) - (IF psi > 10 THEN (20 * psi) \div 25 ELSE 0)
  <1>1. SignalStability(e, s).score = Clamped(x)
    BY DEF SignalStability, Result
  <1>2. Get(s, "freq", 0) \in Int BY DEF Get
  <1>3. f \in Int BY <1>2, ChangeOrdered
  <1>4. kl \in {0, 94} /\ psi \in {0, 15, 180} BY DEF KL, PSI
  <1> HIDE DEF f, kl, psi
  <1>5. g \in Int
    <2>1. g = IF f >= 0 THEN f ELSE -f BY <1>3, MagnitudeIs
    <2> QED BY <2>1, <1>3
  <1> HIDE DEF g
  <1>6. g \div 2 \in Int /\ (20 * psi) \div 25 \in Int BY <1>4, <1>5, SMT
  <1>7. x \in Int BY <1>4, <1>5, <1>6
  <1> HIDE DEF x
  <1> QED BY <1>1, <1>7, ClampsKeepOrder DEF ClampedOrdered

LEMMA SignalOrdered ==
  ASSUME NEW e, NEW a, NEW b, e.freq \in Int, a.freq \in Int, b.freq \in Int,
         DOMAIN a = {"freq", "dist"}, DOMAIN b = {"freq", "dist"},
         Magnitude(a.freq - e.freq) >= Magnitude(b.freq - e.freq),
         b.dist \in {e.signal_dist, a.dist}
  PROVE  SignalStability(e, a).score <= SignalStability(e, b).score
  <1> DEFINE f(s) == Change(e.freq, s.freq)
             kl(s) == KL(e.signal_dist, s.dist)
             psi(s) == PSI(e.signal_dist, s.dist)
             g(s) == Magnitude(f(s))
             x(s) == 100 - (IF g(s) > 20 THEN g(s) \div 2 ELSE 0)
                         - (IF kl(s) > 5 THEN kl(s) ELSE 0)
                         - (IF psi(s) > 10 THEN (20 * psi(s)) \div 25 ELSE 0)
  <1>1. ASSUME NEW s, DOMAIN s = {"freq", "dist"}
        PROVE  SignalStability(e, s).score = Clamped(x(s))
    <2>1. Get(s, "freq", 0) = s.freq /\ Get(s, "dist", "single") = s.dist
      BY <1>1 DEF Get
    <2> QED BY <2>1 DEF SignalStability, Result
  <1>2. kl(a) \in {0, 94} /\ psi(a) \in {0, 15, 180} BY DEF KL, PSI
  <1>3. kl(b) \in {0, kl(a)} /\ psi(b) \in {0, psi(a)} BY DEF KL, PSI
  <1>4. f(a) \in Int /\ f(b) \in Int BY ChangeOrdered
  <1>5. g(b) <= g(a)
    <2>1. Magnitude(b.freq - e.freq) <= Magnitude(a.freq - e.freq)
      <3>1. Magnitude(b.freq - e.freq) \in Int
        <4>1. b.freq - e.freq \in Int OBVIOUS
        <4> QED BY <4>1, MagnitudeIs
      <3>2. Magnitude(a.freq - e.freq) \in Int
        <4>1. a.freq - e.freq \in Int OBVIOUS
        <4> QED BY <4>1, MagnitudeIs
      <3> QED BY <3>1, <3>2
    <2> QED BY <2>1, ChangeOrdered
  <1>6. g(a) \in Int /\ g(b) \in Int
    <2> HIDE DEF f
    <2>1. Magnitude(f(a)) = IF f(a) >= 0 THEN f(a) ELSE -f(a) BY <1>4, MagnitudeIs
    <2>2. Magnitude(f(b)) = IF f(b) >= 0 THEN f(b) ELSE -f(b) BY <1>4, MagnitudeIs
    <2> QED BY <1>4, <2>1, <2>2
  <1> HIDE DEF g, kl, psi
  <1>7. x(a) \in Int /\ x(b) \in Int /\ x(a) <= x(b)
    <2>1. /\ g(a) \div 2 \in Int /\ g(b) \div 2 \in Int /\ g(b) \div 2 <= g(a) \div 2
          /\ g(a) > 20 => g(a) \div 2 >= 10
      BY <1>5, <1>6, SMT
    <2>2. (20 * 15) \div 25 = 12 /\ (20 * 180) \div 25 = 144 /\ (20 * 0) \div 25 = 0 BY SMT
    <2> DEFINE k(s) == IF kl(s) > 5 THEN kl(s) ELSE 0
               q(s) == IF psi(s) > 10 THEN (20 * psi(s)) \div 25 ELSE 0
               h(s) == IF g(s) > 20 THEN g(s) \div 2 ELSE 0
    <2>3. k(a) \in Int /\ k(b) \in Int /\ k(b) <= k(a) BY <1>2, <1>3
    <2>4. psi(a) = 0 => q(a) = 0 OBVIOUS
    <2>5. psi(a) = 15 => q(a) = 12 BY <2>2
    <2>6. psi(a) = 180 => q(a) = 144 BY <2>2
    <2>7. q(b) = q(a) \/ q(b) = 0
      <3>1. psi(b) = 0 => q(b) = 0 OBVIOUS
      <3> QED BY <3>1, <1>3
    <2>8. q(a) \in Int /\ q(b) \in Int /\ q(b) <= q(a) BY <2>4, <2>5, <2>6, <2>7, <1>2
    <2>9. h(a) \in Int /\ h(b) \in Int /\ h(b) <= h(a) BY <2>1, <1>5, <1>6
    <2>10. x(a) = 100 - h(a) - k(a) - q(a) /\ x(b) = 100 - h(b) - k(b) - q(b) OBVIOUS
    <2> HIDE DEF x, k, q, h
    <2> QED BY <2>3, <2>8, <2>9, <2>10
  <1> HIDE DEF x
  <1>8. Clamped(x(a)) <= Clamped(x(b))
    BY <1>7, ClampsKeepOrder DEF ClampedOrdered
  <1> QED BY <1>1, <1>8

LEMMA ForecastResult ==
  ASSUME NEW e, NEW s, e.rmse \in Int,
         s # Empty => s.rmse \in Int /\ s.correlation \in Int
  PROVE  LET result == ForecastStability(e, s)
         IN  /\ result.score \in Int
             /\ result.status = "CRITICAL" => result.warnings # <<>>
  <1> DEFINE result == ForecastStability(e, s)
  <1>1. CASE s = Empty
    <2>1. result = Result(100, <<"WARNING">>)
      BY <1>1 DEF ForecastStability
    <2>2. /\ Result(100, <<"WARNING">>).score = 100
          /\ Result(100, <<"WARNING">>).status = "CRITICAL" => 100 < 50
      BY CriticalIs
    <2> HIDE DEF result
    <2>3. result.score = 100 /\ result.status # "CRITICAL" BY <2>1, <2>2
    <2> QED BY <2>3 DEF result
  <1>2. CASE s # Empty
    <2> DEFINE r == Change(e.rmse, s.rmse)
               c == s.correlation
               k == Min({50, r \div 2})
               m == Max({0, c})
               x == 100 - (IF r > 0 THEN k ELSE 0) - (IF c < 70 THEN (70 - m) \div 2 ELSE 0)
               w1 == Warn(r > 50, "WARNING")
               w2 == Warn(c < 40, "WARNING")
    <2>1. result = Result(Clamped(x), w1 \o w2)
      BY <1>2 DEF ForecastStability
    <2>2. r \in Int /\ c \in Int BY <1>2, ChangeOrdered
    <2> HIDE DEF result, r, c
    <2>3. m = IF c >= 0 THEN c ELSE 0 BY <2>2, FloorIs
    <2>4. r \div 2 \in Int /\ (r <= 50 => r \div 2 <= 25) BY <2>2, SMT
    <2>5. k = IF 50 <= r \div 2 THEN 50 ELSE r \div 2
      <3> DEFINE h == r \div 2
      <3>1. h \in Int BY <2>4
      <3> HIDE DEF h
      <3>2. Min({50, h}) = IF 50 <= h THEN 50 ELSE h BY <3>1, LesserOfTwo
      <3> QED BY <3>2 DEF h
    <2> HIDE DEF k, m
    <2>6. m \in Int /\ k \in Int /\ (c >= 40 => m >= 40) /\ (r <= 50 => k <= 25)
      BY <2>2, <2>3, <2>4, <2>5
    <2>7. (70 - m) \div 2 \in Int /\ (m >= 40 => (70 - m) \div 2 <= 15) BY <2>6, SMT
    <2>8. x \in Int /\ (r <= 50 /\ c >= 40 => x >= 60) BY <2>2, <2>6, <2>7
    <2> HIDE DEF x
    <2>9. Clamped(x) = IF x >= 100 THEN 100 ELSE IF x >= 0 THEN x ELSE 0
      BY <2>8, ClampedIs
    <2>10. "WARNING" \in WarningLevels BY DEF WarningLevels
    <2>11. w1 \in Seq(WarningLevels) /\ (w1 = <<>> => ~(r > 50))
      <3> DEFINE b == r > 50
      <3>1. b \in BOOLEAN BY <2>2
      <3> HIDE DEF b
      <3>2. /\ Warn(b, "WARNING") \in Seq(WarningLevels)
            /\ Warn(b, "WARNING") = <<>> => ~b
        BY <3>1, <2>10, WarnIs
      <3> QED BY <3>2 DEF b
    <2>12. w2 \in Seq(WarningLevels) /\ (w2 = <<>> => ~(c < 40))
      <3> DEFINE b == c < 40
      <3>1. b \in BOOLEAN BY <2>2
      <3> HIDE DEF b
      <3>2. /\ Warn(b, "WARNING") \in Seq(WarningLevels)
            /\ Warn(b, "WARNING") = <<>> => ~b
        BY <3>1, <2>10, WarnIs
      <3> QED BY <3>2 DEF b
    <2> HIDE DEF w1, w2
    <2>13. w1 \o w2 = <<>> => w1 = <<>> /\ w2 = <<>> BY <2>11, <2>12, NothingJoined
    <2> DEFINE score == Clamped(x)
               warnings == w1 \o w2
    <2>14. score \in Int /\ (score < 50 => x < 50) BY <2>8, <2>9
    <2>15. result = Result(score, warnings) BY <2>1
    <2>16. warnings = <<>> => r <= 50 /\ c >= 40 BY <2>2, <2>11, <2>12, <2>13
    <2> HIDE DEF score, warnings
    <2>17. /\ Result(score, warnings).score = score
           /\ Result(score, warnings).warnings = warnings
           /\ Result(score, warnings).status = "CRITICAL" => score < 50
      BY <2>14, CriticalIs
    <2>18. warnings = <<>> => ~(score < 50) BY <2>8, <2>14, <2>16
    <2>19. result.score \in Int /\ (result.status = "CRITICAL" => result.warnings # <<>>)
      BY <2>14, <2>15, <2>17, <2>18
    <2> QED BY <2>19 DEF result
  <1> QED BY <1>1, <1>2

LEMMA ForecastOrdered ==
  ASSUME NEW e, NEW a, NEW b, e.rmse \in Int, a # Empty, b # Empty,
         a.rmse \in Int, b.rmse \in Int, a.correlation \in Int, b.correlation \in Int,
         a.rmse >= b.rmse, a.correlation <= b.correlation
  PROVE  ForecastStability(e, a).score <= ForecastStability(e, b).score
  <1> DEFINE r(s) == Change(e.rmse, s.rmse)
             c(s) == s.correlation
             k(s) == Min({50, r(s) \div 2})
             m(s) == Max({0, c(s)})
             x(s) == 100 - (IF r(s) > 0 THEN k(s) ELSE 0)
                         - (IF c(s) < 70 THEN (70 - m(s)) \div 2 ELSE 0)
  <1>1. ASSUME NEW s, s # Empty
        PROVE  ForecastStability(e, s).score = Clamped(x(s))
    BY <1>1 DEF ForecastStability, Result
  <1>2. r(a) \in Int /\ r(b) \in Int /\ r(b) <= r(a)
    <2>1. b.rmse <= a.rmse OBVIOUS
    <2> QED BY <2>1, ChangeOrdered
  <1>3. c(a) \in Int /\ c(b) \in Int /\ c(a) <= c(b) OBVIOUS
  <1> HIDE DEF r, c
  <1>4. m(a) = IF c(a) >= 0 THEN c(a) ELSE 0 BY <1>3, FloorIs
  <1>5. m(b) = IF c(b) >= 0 THEN c(b) ELSE 0 BY <1>3, FloorIs
  <1>6. ASSUME NEW s, r(s) \in Int
        PROVE  /\ r(s) \div 2 \in Int
               /\ k(s) = IF 50 <= r(s) \div 2 THEN 50 ELSE r(s) \div 2
    <2> DEFINE h == r(s) \div 2
    <2>1. h \in Int BY <1>6, SMT
    <2> HIDE DEF h
    <2>2. Min({50, h}) = IF 50 <= h THEN 50 ELSE h BY <2>1, LesserOfTwo
    <2> QED BY <2>1, <2>2 DEF h
  <1>7. r(b) \div 2 <= r(a) \div 2 /\ (r(a) > 0 => r(a) \div 2 >= 0) BY <1>2, SMT
  <1>8. r(a) \div 2 \in Int /\ k(a) = IF 50 <= r(a) \div 2 THEN 50 ELSE r(a) \div 2
    BY <1>2, <1>6
  <1>9. r(b) \div 2 \in Int /\ k(b) = IF 50 <= r(b) \div 2 THEN 50 ELSE r(b) \div 2
    BY <1>2, <1>6
  <1> HIDE DEF k, m
  <1> DEFINE u(s) == IF r(s) > 0 THEN k(s) ELSE 0
             v(s) == IF c(s) < 70 THEN (70 - m(s)) \div 2 ELSE 0
  <1>10. u(a) \in Int /\ u(b) \in Int /\ u(b) <= u(a) BY <1>2, <1>7, <1>8, <1>9
  <1>11. v(a) \in Int /\ v(b) \in Int /\ v(b) <= v(a)
    <2>1. m(a) \in Int /\ m(b) \in Int /\ m(a) <= m(b) /\ (c(a) < 70 => m(a) < 70)
      BY <1>3, <1>4, <1>5
    <2>2. /\ (70 - m(a)) \div 2 \in Int /\ (70 - m(b)) \div 2 \in Int
          /\ (70 - m(b)) \div 2 <= (70 - m(a)) \div 2
          /\ m(a) < 70 => (70 - m(a)) \div 2 >= 0
      BY <2>1, SMT
    <2> QED BY <2>1, <2>2, <1>3
  <1>12. x(a) = 100 - u(a) - v(a) /\ x(b) = 100 - u(b) - v(b) OBVIOUS
  <1> HIDE DEF x, u, v
  <1>13. x(a) \in Int /\ x(b) \in Int /\ x(a) <= x(b) BY <1>10, <1>11, <1>12
  <1>14. Clamped(x(a)) <= Clamped(x(b))
    BY <1>13, ClampsKeepOrder DEF ClampedOrdered
  <1> QED BY <1>1, <1>14

LEMMA RegimeResult ==
  ASSUME NEW e, NEW o
  PROVE  LET result == RegimeDrift(e, o)
         IN  /\ result.score \in Int
             /\ o = e => result.score = 100
             /\ result.score <= 100
             /\ result.status = "CRITICAL" => result.warnings # <<>>
  <1> DEFINE result == RegimeDrift(e, o)
             psi == PSI(e, o)
             x == 100 - (IF psi > 25 THEN psi ELSE 0) - (IF e # o THEN 25 ELSE 0)
             score == Clamped(x)
             w1 == Warn(psi > 25, "WARNING")
             w2 == Warn(e # o, "CRITICAL")
             warnings == w1 \o w2
  <1>1. result = Result(score, warnings) BY DEF RegimeDrift
  <1>2. psi \in {0, 15, 180} /\ (e = o => psi = 0) BY DEF PSI
  <1> HIDE DEF psi
  <1>3. x \in Int /\ x <= 100 /\ (e = o => x = 100) BY <1>2
  <1> HIDE DEF x
  <1>4. Clamped(x) = IF x >= 100 THEN 100 ELSE IF x >= 0 THEN x ELSE 0
    BY <1>3, ClampedIs
  <1>5. score \in Int /\ score <= 100 /\ (e = o => score = 100) BY <1>3, <1>4
  <1>6. "WARNING" \in WarningLevels /\ "CRITICAL" \in WarningLevels BY DEF WarningLevels
  <1>7. w1 \in Seq(WarningLevels)
    <2> DEFINE b == psi > 25
    <2>1. b \in BOOLEAN BY <1>2
    <2> HIDE DEF b
    <2>2. Warn(b, "WARNING") \in Seq(WarningLevels) BY <2>1, <1>6, WarnIs
    <2> QED BY <2>2 DEF b
  <1>8. w2 \in Seq(WarningLevels) /\ (w2 = <<>> => e = o)
    <2> DEFINE b == e # o
    <2>1. b \in BOOLEAN OBVIOUS
    <2> HIDE DEF b
    <2>2. /\ Warn(b, "CRITICAL") \in Seq(WarningLevels)
          /\ Warn(b, "CRITICAL") = <<>> => ~b
      BY <2>1, <1>6, WarnIs
    <2> QED BY <2>2 DEF b
  <1> HIDE DEF w1, w2
  <1>9. warnings = <<>> => w2 = <<>> BY <1>7, <1>8, NothingJoined
  <1> HIDE DEF result, score, warnings
  <1>10. /\ Result(score, warnings).score = score
         /\ Result(score, warnings).warnings = warnings
         /\ Result(score, warnings).status = "CRITICAL" => score < 50
    BY <1>5, CriticalIs
  <1>11. /\ result.score \in Int /\ (o = e => result.score = 100) /\ result.score <= 100
         /\ result.status = "CRITICAL" => result.warnings # <<>>
    BY <1>1, <1>5, <1>8, <1>9, <1>10
  <1> QED BY <1>11 DEF result

ExecutionNames == {"slippage", "cost", "fill_rate"}

LEMMA ExecutionScore ==
  ASSUME NEW e, NEW s, \A name \in ExecutionNames : e[name] \in Int,
         \A name \in DOMAIN s : s[name] \in Int
  PROVE  Execution(e, s).score \in Int
  <1> DEFINE l == Change(e.slippage, Get(s, "slippage", 0))
             c == Change(e.cost, Get(s, "cost", 0))
             d == e.fill_rate - Get(s, "fill_rate", 100)
             x == 100 - (2 * Max({0, l})) \div 5 - 2 * Max({0, d})
                      - (4 * Max({0, c})) \div 5
  <1>1. Execution(e, s).score = Clamped(x)
    BY DEF Execution, Result
  <1>2. e.slippage \in Int /\ e.cost \in Int /\ e.fill_rate \in Int BY DEF ExecutionNames
  <1>3. /\ Get(s, "slippage", 0) \in Int /\ Get(s, "cost", 0) \in Int
        /\ Get(s, "fill_rate", 100) \in Int
    BY DEF Get
  <1>4. l \in Int BY <1>2, <1>3, ChangeOrdered
  <1>5. c \in Int BY <1>2, <1>3, ChangeOrdered
  <1>6. d \in Int BY <1>2, <1>3
  <1> HIDE DEF l, c, d
  <1> DEFINE fl == Max({0, l})
             fc == Max({0, c})
             fd == Max({0, d})
  <1>7. fl = IF l >= 0 THEN l ELSE 0 BY <1>4, FloorIs
  <1>8. fc = IF c >= 0 THEN c ELSE 0 BY <1>5, FloorIs
  <1>9. fd = IF d >= 0 THEN d ELSE 0 BY <1>6, FloorIs
  <1>10. fl \in Int /\ fc \in Int /\ fd \in Int BY <1>4, <1>5, <1>6, <1>7, <1>8, <1>9
  <1> HIDE DEF fl, fc, fd
  <1>11. (2 * fl) \div 5 \in Int /\ (4 * fc) \div 5 \in Int BY <1>10, SMT
  <1>12. x = 100 - (2 * fl) \div 5 - 2 * fd - (4 * fc) \div 5 BY DEF fl, fc, fd
  <1> HIDE DEF x
  <1>13. x \in Int BY <1>10, <1>11, <1>12
  <1> QED BY <1>1, <1>13, ClampsKeepOrder DEF ClampedOrdered

LEMMA ExecutionOrdered ==
  ASSUME NEW e, NEW a, NEW b, \A name \in ExecutionNames : e[name] \in Int,
         DOMAIN a = ExecutionNames, DOMAIN b = ExecutionNames,
         \A name \in ExecutionNames : a[name] \in Int /\ b[name] \in Int,
         a.slippage >= b.slippage, a.cost >= b.cost, a.fill_rate <= b.fill_rate
  PROVE  Execution(e, a).score <= Execution(e, b).score
  <1> DEFINE l(s) == Change(e.slippage, s.slippage)
             c(s) == Change(e.cost, s.cost)
             d(s) == e.fill_rate - s.fill_rate
             x(s) == 100 - (2 * Max({0, l(s)})) \div 5 - 2 * Max({0, d(s)})
                         - (4 * Max({0, c(s)})) \div 5
  <1>1. ASSUME NEW s, DOMAIN s = ExecutionNames
        PROVE  Execution(e, s).score = Clamped(x(s))
    <2>1. /\ Get(s, "slippage", 0) = s.slippage
          /\ Get(s, "cost", 0) = s.cost
          /\ Get(s, "fill_rate", 100) = s.fill_rate
      BY <1>1 DEF Get, ExecutionNames
    <2> QED BY <2>1 DEF Execution, Result
  <1>2. /\ e.slippage \in Int /\ e.cost \in Int /\ e.fill_rate \in Int
        /\ a.slippage \in Int /\ a.cost \in Int /\ a.fill_rate \in Int
        /\ b.slippage \in Int /\ b.cost \in Int /\ b.fill_rate \in Int
    BY DEF ExecutionNames
  <1>3. l(a) \in Int /\ l(b) \in Int /\ l(b) <= l(a)
    <2>1. b.slippage <= a.slippage BY <1>2
    <2> QED BY <2>1, <1>2, ChangeOrdered
  <1>4. c(a) \in Int /\ c(b) \in Int /\ c(b) <= c(a)
    <2>1. b.cost <= a.cost BY <1>2
    <2> QED BY <2>1, <1>2, ChangeOrdered
  <1>5. d(a) \in Int /\ d(b) \in Int /\ d(b) <= d(a) BY <1>2
  <1> HIDE DEF l, c, d
  <1>6. ASSUME NEW p \in Int, NEW q \in Int, q <= p
        PROVE  /\ Max({0, p}) \in Int /\ Max({0, q}) \in Int
               /\ Max({0, q}) <= Max({0, p})
    <2>1. Max({0, p}) = IF p >= 0 THEN p ELSE 0 BY FloorIs
    <2>2. Max({0, q}) = IF q >= 0 THEN q ELSE 0 BY FloorIs
    <2> QED BY <2>1, <2>2, <1>6
  <1> DEFINE fl(s) == Max({0, l(s)})
             fc(s) == Max({0, c(s)})
             fd(s) == Max({0, d(s)})
  <1>7. fl(a) \in Int /\ fl(b) \in Int /\ fl(b) <= fl(a) BY <1>3, <1>6
  <1>8. fc(a) \in Int /\ fc(b) \in Int /\ fc(b) <= fc(a) BY <1>4, <1>6
  <1>9. fd(a) \in Int /\ fd(b) \in Int /\ fd(b) <= fd(a) BY <1>5, <1>6
  <1>10. /\ x(a) = 100 - (2 * fl(a)) \div 5 - 2 * fd(a) - (4 * fc(a)) \div 5
         /\ x(b) = 100 - (2 * fl(b)) \div 5 - 2 * fd(b) - (4 * fc(b)) \div 5
    OBVIOUS
  <1> HIDE DEF fl, fc, fd, x
  <1>11. /\ (2 * fl(a)) \div 5 \in Int /\ (2 * fl(b)) \div 5 \in Int
         /\ (2 * fl(b)) \div 5 <= (2 * fl(a)) \div 5
    BY <1>7, SMT
  <1>12. /\ (4 * fc(a)) \div 5 \in Int /\ (4 * fc(b)) \div 5 \in Int
         /\ (4 * fc(b)) \div 5 <= (4 * fc(a)) \div 5
    BY <1>8, SMT
  <1>13. x(a) \in Int /\ x(b) \in Int /\ x(a) <= x(b) BY <1>9, <1>10, <1>11, <1>12
  <1>14. Clamped(x(a)) <= Clamped(x(b))
    BY <1>13, ClampsKeepOrder DEF ClampedOrdered
  <1> QED BY <1>1, <1>14

(* The metrics, expected or reported, are numbers.                         *)
MetricsAreNumbers ==
  /\ \A e \in Profiles :
       \A name \in AlphaNames \cup ExecutionNames \cup {"freq", "rmse"} : e[name] \in Int
  /\ \A live \in Live :
       /\ \A name \in DOMAIN live.alpha : live.alpha[name] \in Int
       /\ "freq" \in DOMAIN live.signal => live.signal.freq \in Int
       /\ live.forecast # Empty =>
            live.forecast.rmse \in Int /\ live.forecast.correlation \in Int
       /\ \A name \in DOMAIN live.execution : live.execution[name] \in Int

(* A report is what Health makes of its metrics, and so is its advice.     *)
AsJudged(e, live) ==
  LET health == Health(e, live)
  IN  [expected |-> e, live |-> live, health |-> health,
       advice |-> Recommendation(health, e.sharpe,
                                            Get(live.alpha, "sharpe", 0))]

Judgements == {AsJudged(e, live) : e \in Profiles, live \in Live}

ModelRecords == [expected_profile_id : ProfileIds, health_history : Seq(Judgements)]

ValidationInv ==
  /\ DOMAIN models \subseteq Versions
  /\ \A v \in DOMAIN models : models[v] \in ModelRecords
  /\ models = [v \in DOMAIN models |-> models[v]]
  /\ \A id \in DOMAIN profiles : profiles[id] \in Profiles

LEMMA ValidationInit == HealthInit => ValidationInv
  BY DEF HealthInit, ValidationInv, Empty

LEMMA ValidationStep ==
  ASSUME ValidationInv, [HealthNext]_healthVars PROVE ValidationInv'
  <1>1. CASE UNCHANGED healthVars
    BY <1>1 DEF healthVars, ValidationInv
  <1>2. CASE \E id \in ProfileIds, profile \in Profiles : AddExpectedProfile(id, profile)
    BY <1>2 DEF AddExpectedProfile, With, ValidationInv
  <1>3. CASE \E v \in Versions, id \in ProfileIds : RegisterModel(v, id)
    <2>1. PICK v \in Versions, id \in ProfileIds : RegisterModel(v, id) BY <1>3
    <2> DEFINE new == [expected_profile_id |-> id, health_history |-> <<>>]
    <2>2. new \in ModelRecords BY DEF ModelRecords
    <2>3. models' = [k \in DOMAIN models \cup {v} |-> IF k = v THEN new ELSE models[k]]
      BY <2>1 DEF RegisterModel, With
    <2>4. profiles' = profiles BY <2>1 DEF RegisterModel
    <2> HIDE DEF new
    <2> QED BY <2>2, <2>3, <2>4 DEF ValidationInv
  <1>4. CASE \E v \in Versions, live \in Live : Validate(v, live)
    <2>1. PICK v \in Versions, live \in Live : Validate(v, live) BY <1>4
    <2>2. CASE Raises(v, live)
      BY <2>1, <2>2 DEF Validate, ValidationInv
    <2>3. CASE ~Raises(v, live)
      <3> DEFINE e == profiles[models[v].expected_profile_id]
                 j == AsJudged(e, live)
                 new == [models[v] EXCEPT !.health_history = Append(@, j)]
      <3>1. v \in DOMAIN models /\ models[v].expected_profile_id \in DOMAIN profiles
        BY <2>3 DEF Raises
      <3>2. e \in Profiles BY <3>1 DEF ValidationInv
      <3>3. j \in Judgements BY <3>2 DEF Judgements
      <3>4. models' = [models EXCEPT ![v].health_history = Append(@, j)] /\ profiles' = profiles
        BY <2>1, <2>3 DEF Validate, AsJudged
      <3> HIDE DEF j
      <3>5. models[v] \in ModelRecords BY <3>1 DEF ValidationInv
      <3>6. new \in ModelRecords
        <4>1. models[v].health_history \in Seq(Judgements) BY <3>5 DEF ModelRecords
        <4>2. Append(models[v].health_history, j) \in Seq(Judgements) BY <3>3, <4>1
        <4> QED BY <3>5, <4>2 DEF ModelRecords
      <3>7. models' = [k \in DOMAIN models |-> IF k = v THEN new ELSE models[k]]
        BY <3>1, <3>4 DEF ValidationInv
      <3> HIDE DEF new
      <3> QED BY <3>4, <3>6, <3>7 DEF ValidationInv
    <2> QED BY <2>2, <2>3
  <1> QED BY <1>1, <1>2, <1>3, <1>4 DEF HealthNext

LEMMA HealthIs ==
  ASSUME MetricsAreNumbers, NEW e \in Profiles, NEW live \in Live
  PROVE  LET h == Health(e, live)
         IN  /\ h.overall_score \in Int
             /\ \A name \in {"alpha", "forecast", "regime"} :
                  h.component_status[name] = "CRITICAL" => h.alerts[name] # <<>>
  <1> DEFINE alpha == AlphaDecay(e, live.alpha)
             signal == SignalStability(e, live.signal)
             forecast == ForecastStability(e, live.forecast)
             regime == RegimeDrift(e.regime_dist, live.regime)
             execution == Execution(e, live.execution)
             overall == 35 * alpha.score + 20 * signal.score + 15 * forecast.score
                        + 15 * regime.score + 15 * execution.score
             h == Health(e, live)
  <1>1. /\ h.overall_score = overall
        /\ h.component_status = [alpha |-> alpha.status, forecast |-> forecast.status,
                                 regime |-> regime.status]
        /\ h.alerts = [alpha |-> alpha.warnings, signal |-> signal.warnings,
                       forecast |-> forecast.warnings, regime |-> regime.warnings,
                       execution |-> execution.warnings]
    BY DEF Health
  <1>2. alpha.score \in Int /\ (alpha.status = "CRITICAL" => alpha.warnings # <<>>)
    <2>1. \A name \in AlphaNames : e[name] \in Int BY DEF MetricsAreNumbers
    <2>2. \A name \in DOMAIN live.alpha : live.alpha[name] \in Int BY DEF MetricsAreNumbers
    <2> QED BY <2>1, <2>2, AlphaResult
  <1>3. signal.score \in Int
    <2>1. e.freq \in Int BY DEF MetricsAreNumbers
    <2>2. "freq" \in DOMAIN live.signal => live.signal.freq \in Int BY DEF MetricsAreNumbers
    <2> QED BY <2>1, <2>2, SignalScore
  <1>4. forecast.score \in Int /\ (forecast.status = "CRITICAL" => forecast.warnings # <<>>)
    <2>1. e.rmse \in Int BY DEF MetricsAreNumbers
    <2>2. live.forecast # Empty =>
            live.forecast.rmse \in Int /\ live.forecast.correlation \in Int
      BY DEF MetricsAreNumbers
    <2> QED BY <2>1, <2>2, ForecastResult
  <1>5. regime.score \in Int /\ (regime.status = "CRITICAL" => regime.warnings # <<>>)
    BY RegimeResult
  <1>6. execution.score \in Int
    <2>1. \A name \in ExecutionNames : e[name] \in Int BY DEF MetricsAreNumbers
    <2>2. \A name \in DOMAIN live.execution : live.execution[name] \in Int BY DEF MetricsAreNumbers
    <2> QED BY <2>1, <2>2, ExecutionScore
  <1> HIDE DEF alpha, signal, forecast, regime, execution, h
  <1>7. h.overall_score \in Int
    <2>1. /\ alpha.score \in Int /\ signal.score \in Int /\ forecast.score \in Int
          /\ regime.score \in Int /\ execution.score \in Int
      BY <1>2, <1>3, <1>4, <1>5, <1>6
    <2>2. overall \in Int BY <2>1
    <2>3. h.overall_score = overall BY <1>1
    <2> HIDE DEF overall
    <2> QED BY <2>2, <2>3
  <1>8. \A name \in {"alpha", "forecast", "regime"} :
          h.component_status[name] = "CRITICAL" => h.alerts[name] # <<>>
    BY <1>1, <1>2, <1>4, <1>5
  <1> QED BY <1>7, <1>8 DEF h

LEMMA WorseIsScoredNoBetter ==
  ASSUME MetricsAreNumbers, NEW e \in Profiles, NEW a \in Live, NEW b \in Live,
         NoBetter(a, b, e)
  PROVE  Health(e, a).overall_score <= Health(e, b).overall_score
  <1>1. DOMAIN a.alpha = AlphaNames /\ DOMAIN b.alpha = AlphaNames
    <2>1. {AlphaFields[i] : i \in 1..4} = AlphaNames
      BY DEF AlphaFields, AlphaNames
    <2> QED BY <2>1 DEF NoBetter, Complete
  <1>2. /\ DOMAIN a.signal = {"freq", "dist"} /\ DOMAIN b.signal = {"freq", "dist"}
        /\ a.forecast # Empty /\ b.forecast # Empty
    BY DEF NoBetter, Complete
  <1>3. DOMAIN a.execution = ExecutionNames /\ DOMAIN b.execution = ExecutionNames
    BY DEF NoBetter, Complete, ExecutionNames
  <1>4. AlphaDecay(e, a.alpha).score <= AlphaDecay(e, b.alpha).score
    <2>1. \A name \in AlphaNames : e[name] \in Int BY DEF MetricsAreNumbers
    <2>2. \A name \in AlphaNames : a.alpha[name] \in Int /\ b.alpha[name] \in Int
      BY <1>1 DEF MetricsAreNumbers
    <2>3. \A name \in AlphaNames : a.alpha[name] <= b.alpha[name]
      BY <1>1 DEF NoBetter
    <2> QED BY <1>1, <2>1, <2>2, <2>3, AlphaOrdered
  <1>5. SignalStability(e, a.signal).score <= SignalStability(e, b.signal).score
    <2>1. e.freq \in Int /\ a.signal.freq \in Int /\ b.signal.freq \in Int
      BY <1>2 DEF MetricsAreNumbers
    <2>2. /\ Magnitude(a.signal.freq - e.freq)
               >= Magnitude(b.signal.freq - e.freq)
          /\ b.signal.dist \in {e.signal_dist, a.signal.dist}
      BY DEF NoBetter
    <2> QED BY <1>2, <2>1, <2>2, SignalOrdered
  <1>6. ForecastStability(e, a.forecast).score
          <= ForecastStability(e, b.forecast).score
    <2>1. /\ e.rmse \in Int
          /\ a.forecast.rmse \in Int /\ b.forecast.rmse \in Int
          /\ a.forecast.correlation \in Int /\ b.forecast.correlation \in Int
      BY <1>2 DEF MetricsAreNumbers
    <2>2. a.forecast.rmse >= b.forecast.rmse /\ a.forecast.correlation <= b.forecast.correlation
      BY DEF NoBetter
    <2> QED BY <1>2, <2>1, <2>2, ForecastOrdered
  <1>7. RegimeDrift(e.regime_dist, a.regime).score
          <= RegimeDrift(e.regime_dist, b.regime).score
    <2>1. b.regime \in {e.regime_dist, a.regime} BY DEF NoBetter
    <2> DEFINE ra == RegimeDrift(e.regime_dist, a.regime).score
               rb == RegimeDrift(e.regime_dist, b.regime).score
    <2>2. ra \in Int /\ ra <= 100 BY RegimeResult
    <2>3. b.regime = e.regime_dist => rb = 100 BY RegimeResult
    <2>4. b.regime = a.regime => rb = ra OBVIOUS
    <2> HIDE DEF ra, rb
    <2>5. ra <= rb BY <2>1, <2>2, <2>3, <2>4
    <2> QED BY <2>5 DEF ra, rb
  <1>8. Execution(e, a.execution).score <= Execution(e, b.execution).score
    <2>1. \A name \in ExecutionNames : e[name] \in Int BY DEF MetricsAreNumbers
    <2>2. \A name \in ExecutionNames : a.execution[name] \in Int /\ b.execution[name] \in Int
      BY <1>3 DEF MetricsAreNumbers
    <2>3. /\ a.execution.slippage >= b.execution.slippage /\ a.execution.cost >= b.execution.cost
          /\ a.execution.fill_rate <= b.execution.fill_rate
      BY DEF NoBetter
    <2> QED BY <1>3, <2>1, <2>2, <2>3, ExecutionOrdered
  <1> DEFINE al(l) == AlphaDecay(e, l.alpha).score
             si(l) == SignalStability(e, l.signal).score
             fo(l) == ForecastStability(e, l.forecast).score
             re(l) == RegimeDrift(e.regime_dist, l.regime).score
             ex(l) == Execution(e, l.execution).score
  <1>9. ASSUME NEW l \in Live
        PROVE  /\ al(l) \in Int /\ si(l) \in Int /\ fo(l) \in Int /\ re(l) \in Int /\ ex(l) \in Int
               /\ Health(e, l).overall_score
                    = 35 * al(l) + 20 * si(l) + 15 * fo(l) + 15 * re(l) + 15 * ex(l)
    <2>1. al(l) \in Int
      <3>1. \A name \in AlphaNames : e[name] \in Int BY DEF MetricsAreNumbers
      <3>2. \A name \in DOMAIN l.alpha : l.alpha[name] \in Int BY DEF MetricsAreNumbers
      <3> QED BY <3>1, <3>2, AlphaResult
    <2>2. si(l) \in Int
      <3>1. e.freq \in Int BY DEF MetricsAreNumbers
      <3>2. "freq" \in DOMAIN l.signal => l.signal.freq \in Int BY DEF MetricsAreNumbers
      <3> QED BY <3>1, <3>2, SignalScore
    <2>3. fo(l) \in Int
      <3>1. e.rmse \in Int BY DEF MetricsAreNumbers
      <3>2. l.forecast # Empty =>
              l.forecast.rmse \in Int /\ l.forecast.correlation \in Int
        BY DEF MetricsAreNumbers
      <3> QED BY <3>1, <3>2, ForecastResult
    <2>4. re(l) \in Int BY RegimeResult
    <2>5. ex(l) \in Int
      <3>1. \A name \in ExecutionNames : e[name] \in Int BY DEF MetricsAreNumbers
      <3>2. \A name \in DOMAIN l.execution : l.execution[name] \in Int BY DEF MetricsAreNumbers
      <3> QED BY <3>1, <3>2, ExecutionScore
    <2>6. Health(e, l).overall_score
            = 35 * al(l) + 20 * si(l) + 15 * fo(l) + 15 * re(l) + 15 * ex(l)
      BY DEF Health
    <2> QED BY <2>1, <2>2, <2>3, <2>4, <2>5, <2>6
  <1>10. al(a) <= al(b) /\ si(a) <= si(b) /\ fo(a) <= fo(b) /\ re(a) <= re(b) /\ ex(a) <= ex(b)
    BY <1>4, <1>5, <1>6, <1>7, <1>8
  <1> HIDE DEF al, si, fo, re, ex
  <1>11. /\ al(a) \in Int /\ si(a) \in Int /\ fo(a) \in Int /\ re(a) \in Int /\ ex(a) \in Int
         /\ Health(e, a).overall_score
              = 35 * al(a) + 20 * si(a) + 15 * fo(a) + 15 * re(a) + 15 * ex(a)
    BY <1>9
  <1>12. /\ al(b) \in Int /\ si(b) \in Int /\ fo(b) \in Int /\ re(b) \in Int /\ ex(b) \in Int
         /\ Health(e, b).overall_score
              = 35 * al(b) + 20 * si(b) + 15 * fo(b) + 15 * re(b) + 15 * ex(b)
    BY <1>9
  <1> QED BY <1>10, <1>11, <1>12

LEMMA ValidationSafe == ASSUME MetricsAreNumbers, ValidationInv PROVE WorseIsNoHealthier
  <1> SUFFICES ASSUME NEW v \in DOMAIN models, NEW i \in DOMAIN models[v].health_history,
                      NEW j \in DOMAIN models[v].health_history
               PROVE  LET a == models[v].health_history[i]  b == models[v].health_history[j]
                      IN  /\ a.expected = b.expected
                             /\ NoBetter(a.live, b.live, a.expected) =>
                               /\ a.health.overall_score <= b.health.overall_score
                               /\ ~Milder(a.advice, b.advice)
                          /\ \A name \in {"alpha", "forecast", "regime"} :
                               a.health.component_status[name] = "CRITICAL" =>
                                 a.health.alerts[name] # <<>>
    BY DEF WorseIsNoHealthier
  <1> DEFINE a == models[v].health_history[i]
             b == models[v].health_history[j]
  <1>1. a \in Judgements /\ b \in Judgements
    <2>1. models[v].health_history \in Seq(Judgements) BY DEF ValidationInv, ModelRecords
    <2> QED BY <2>1
  <1> HIDE DEF a, b
  <1>2. PICK e \in Profiles, l \in Live : a = AsJudged(e, l) BY <1>1 DEF Judgements
  <1>3. PICK f \in Profiles, k \in Live : b = AsJudged(f, k) BY <1>1 DEF Judgements
  <1> DEFINE ha == Health(e, l)
             hb == Health(f, k)
             sa == Get(l.alpha, "sharpe", 0)
             sb == Get(k.alpha, "sharpe", 0)
  <1>4. /\ a.expected = e /\ a.live = l /\ a.health = ha
        /\ a.advice = Recommendation(ha, e.sharpe, sa)
    BY <1>2 DEF AsJudged
  <1>5. /\ b.expected = f /\ b.live = k /\ b.health = hb
        /\ b.advice = Recommendation(hb, f.sharpe, sb)
    BY <1>3 DEF AsJudged
  <1>6. /\ ha.overall_score \in Int
        /\ \A name \in {"alpha", "forecast", "regime"} :
             ha.component_status[name] = "CRITICAL" => ha.alerts[name] # <<>>
    BY HealthIs
  <1>7. hb.overall_score \in Int BY HealthIs
  <1>8. ASSUME e = f, NoBetter(l, k, e)
        PROVE  /\ ha.overall_score <= hb.overall_score
               /\ ~Milder(a.advice, b.advice)
    <2>1. ha.overall_score <= hb.overall_score BY <1>8, WorseIsScoredNoBetter
    <2>2. e.sharpe \in Int /\ sa \in Int /\ sb \in Int /\ sa <= sb
      <3>1. "sharpe" \in AlphaNames /\ DOMAIN l.alpha = AlphaNames /\ DOMAIN k.alpha = AlphaNames
        <4>1. {AlphaFields[n] : n \in 1..4} = AlphaNames
          BY DEF AlphaFields, AlphaNames
        <4> QED BY <1>8, <4>1 DEF NoBetter, Complete, AlphaNames
      <3>2. sa = l.alpha["sharpe"] /\ sb = k.alpha["sharpe"] BY <3>1 DEF Get
      <3>3. l.alpha["sharpe"] <= k.alpha["sharpe"] BY <1>8, <3>1 DEF NoBetter
      <3>4. l.alpha["sharpe"] \in Int /\ k.alpha["sharpe"] \in Int
        BY <3>1 DEF MetricsAreNumbers
      <3>5. e["sharpe"] \in Int BY <3>1 DEF MetricsAreNumbers
      <3> QED BY <3>2, <3>3, <3>4, <3>5
    <2> HIDE DEF ha, hb, sa, sb
    <2>3. e.sharpe > 0 /\ 2 * sb < e.sharpe => e.sharpe > 0 /\ 2 * sa < e.sharpe BY <2>2
    <2>4. /\ hb.overall_score < 5000 => ha.overall_score < 5000
          /\ hb.overall_score < 7000 => ha.overall_score < 7000
      BY <2>1, <1>6, <1>7
    <2> DEFINE ra == ha.overall_score < 5000 \/ (e.sharpe > 0 /\ 2 * sa < e.sharpe)
               rb == hb.overall_score < 5000 \/ (e.sharpe > 0 /\ 2 * sb < e.sharpe)
               ma == ha.overall_score < 7000
               mb == hb.overall_score < 7000
    <2>5. (rb => ra) /\ (mb => ma) BY <2>3, <2>4
    <2>6. /\ a.advice = IF ra THEN "RETRAIN MODEL" ELSE IF ma THEN "MONITOR CLOSELY" ELSE "HOLD"
          /\ b.advice = IF rb THEN "RETRAIN MODEL" ELSE IF mb THEN "MONITOR CLOSELY" ELSE "HOLD"
      <3>1. Recommendation(ha, e.sharpe, sa)
              = IF ra THEN "RETRAIN MODEL" ELSE IF ma THEN "MONITOR CLOSELY" ELSE "HOLD"
        BY Zenon DEF Recommendation
      <3>2. Recommendation(hb, e.sharpe, sb)
              = IF rb THEN "RETRAIN MODEL" ELSE IF mb THEN "MONITOR CLOSELY" ELSE "HOLD"
        BY Zenon DEF Recommendation
      <3>3. f.sharpe = e.sharpe BY <1>8
      <3> HIDE DEF ra, rb, ma, mb
      <3>4. a.advice = Recommendation(ha, e.sharpe, sa) BY <1>4
      <3>5. b.advice = Recommendation(hb, e.sharpe, sb) BY <1>5, <3>3
      <3> QED BY <3>1, <3>2, <3>4, <3>5
    <2> HIDE DEF ra, rb, ma, mb
    <2>7. ~Milder(a.advice, b.advice) BY <2>5, <2>6 DEF Milder
    <2> QED BY <2>1, <2>7
  <1> HIDE DEF ha, hb, sa, sb
  <1>9. /\ a.expected = b.expected /\ NoBetter(a.live, b.live, a.expected) =>
             a.health.overall_score <= b.health.overall_score
             /\ ~Milder(a.advice, b.advice)
        /\ \A name \in {"alpha", "forecast", "regime"} :
             a.health.component_status[name] = "CRITICAL" => a.health.alerts[name] # <<>>
    BY <1>4, <1>5, <1>6, <1>8
  <1> QED BY <1>9 DEF a, b

(* Live validation, for any metrics that are numbers: a report that is     *)
(* no better in anything than another is not scored higher and not advised *)
(* upon more mildly; what is CRITICAL has an alert (LiveValidation).       *)
THEOREM ValidationCorrect ==
  ASSUME MetricsAreNumbers PROVE HealthSpec => []WorseIsNoHealthier
  <1>1. ValidationInv /\ [HealthNext]_healthVars => ValidationInv'
    BY ValidationStep
  <1>2. ValidationInv => WorseIsNoHealthier BY ValidationSafe
  <1> QED BY <1>1, <1>2, ValidationInit, PTL DEF HealthSpec

----------------------------------------------------------------------------
(* Execution: nothing is gained from the broker.  What a fill takes out of *)
(* the account is at least what it adds to the position at the close, so   *)
(* that the sum of both only moves with the close.  Estimates keep order   *)
(* since square roots of participations exist and do.                      *)
CommissionModels ==
  [model : {"percentage"}, rate : Nat, minimum : Nat]
    \cup [model : {"flat"}, fee : Nat] \cup [model : {"zero"}]

(* Prices of at least ten cents, numbers that are not negative, and a      *)
(* slippage of at most half of the price; the defaults are 1 to 5 basis    *)
(* points.                                                                 *)
ExecutionIsPosed ==
  /\ \A close \in Closes : close \in Nat /\ close >= 100
  /\ \A volume \in Volumes : volume \in Nat
  /\ DefaultAdv \in Nat \ {0}
  /\ \A quantity \in OrderSizes : quantity \in Nat
  /\ \A spread \in Spreads : spread \in Nat
  /\ \A b \in Brokers :
       /\ b.fixed_bps \in Nat /\ b.fixed_bps <= 5000
       /\ b.impact_coefficient \in Nat
       /\ b.volatility_multiplier \in Nat
       /\ b.commission \in CommissionModels

(* The square root of a participation exists, and keeps order.             *)
Root(s, quantity, adv) ==
  s * s * adv <= 10000 * quantity /\ 10000 * quantity < (s + 1) * (s + 1) * adv

LEMMA RootExists ==
  ASSUME NEW quantity \in Nat, NEW adv \in Nat \ {0}
  PROVE  \E s \in 0..100 * (quantity \div adv + 1) : Root(s, quantity, adv)
  <1> DEFINE x == 10000 * quantity
             k == quantity \div adv
             m == 100 * (k + 1)
             S == {n \in Nat : n * n * adv <= x \/ (\E s \in 0..n : Root(s, quantity, adv))}
  <1>1. k \in Nat /\ quantity < adv * k + adv
    <2>1. k \in Nat BY NatDivOrdered
    <2> QED BY <2>1, DivFloor
  <1> HIDE DEF k
  <1>2. 0 \in S
    <2>1. 0 * 0 * adv = 0 /\ x >= 0 OBVIOUS
    <2> QED BY <2>1
  <1>3. ASSUME NEW n \in Nat, n \in S PROVE n + 1 \in S
    <2>1. CASE \E s \in 0..n : Root(s, quantity, adv)
      <3>1. 0..n \subseteq 0..n + 1 OBVIOUS
      <3> QED BY <2>1, <3>1
    <2>2. CASE n * n * adv <= x
      <3>1. CASE x < (n + 1) * (n + 1) * adv
        <4>1. Root(n, quantity, adv) BY <2>2, <3>1 DEF Root
        <4>2. n \in 0..n + 1 OBVIOUS
        <4> QED BY <4>1, <4>2
      <3>2. CASE ~(x < (n + 1) * (n + 1) * adv)
        <4>1. (n + 1) * (n + 1) * adv \in Int /\ x \in Int OBVIOUS
        <4> QED BY <3>2, <4>1
      <3> QED BY <3>1, <3>2
    <2> QED BY <1>3, <2>1, <2>2
  <1>4. m \in Nat BY <1>1
  <1> HIDE DEF S
  <1>5. m \in S
    <2>1. Nat \subseteq S BY <1>2, <1>3, NatSetInduction
    <2> QED BY <1>4, <2>1
  <1>6. ~(m * m * adv <= x)
    <2>1. (k + 1) * adv \in Nat /\ quantity < (k + 1) * adv
      <3>1. (k + 1) * adv = adv * k + adv BY <1>1
      <3>2. (k + 1) * adv \in Nat BY <1>1, NatTimes
      <3> QED BY <1>1, <3>1, <3>2
    <2> DEFINE t == (k + 1) * adv
    <2>2. 1 * t <= (k + 1) * t
      <3> HIDE DEF t
      <3>1. t \in Nat BY <2>1 DEF t
      <3>2. t * 1 <= t * (k + 1) BY <1>1, <3>1, TimesOrdered
      <3> QED BY <1>1, <3>1, <3>2
    <2>3. m * m * adv = 10000 * ((k + 1) * t) BY <1>1
    <2>4. (k + 1) * t \in Nat
      <3> HIDE DEF t
      <3>1. t \in Nat BY <2>1 DEF t
      <3> QED BY <1>1, <3>1, NatTimes
    <2> DEFINE w == (k + 1) * t
    <2>5. quantity < w
      <3> HIDE DEF t
      <3>1. t \in Nat /\ quantity < t BY <2>1 DEF t
      <3>2. w \in Nat /\ 1 * t <= w BY <2>2, <2>4
      <3> HIDE DEF w
      <3> QED BY <3>1, <3>2
    <2>6. w \in Nat /\ m * m * adv = 10000 * w BY <2>3, <2>4
    <2> HIDE DEF w, m
    <2> QED BY <2>5, <2>6
  <1> QED BY <1>5, <1>6 DEF S, k

LEMMA RootIs ==
  ASSUME NEW quantity \in Nat, NEW adv \in Nat \ {0}
  PROVE  /\ SqrtParticipation(quantity, adv) \in Nat
         /\ Root(SqrtParticipation(quantity, adv), quantity, adv)
  <1> DEFINE m == 100 * (quantity \div adv + 1)
  <1>1. \E s \in 0..m : Root(s, quantity, adv) BY RootExists
  <1>2. SqrtParticipation(quantity, adv) = CHOOSE s \in 0..m : Root(s, quantity, adv)
    BY DEF SqrtParticipation, Root
  <1>3. SqrtParticipation(quantity, adv) \in 0..m
        /\ Root(SqrtParticipation(quantity, adv), quantity, adv)
    <2> HIDE DEF m
    <2> QED BY <1>1, <1>2, Zenon
  <1> HIDE DEF m
  <1> QED BY <1>3

LEMMA RootOrdered ==
  ASSUME NEW small \in Nat, NEW large \in Nat, small <= large, NEW adv \in Nat \ {0}
  PROVE  SqrtParticipation(small, adv) <= SqrtParticipation(large, adv)
  <1> DEFINE r == SqrtParticipation(small, adv)
             s == SqrtParticipation(large, adv)
  <1>1. r \in Nat /\ Root(r, small, adv) BY RootIs
  <1>2. s \in Nat /\ Root(s, large, adv) BY RootIs
  <1> HIDE DEF r, s
  <1>3. ASSUME s + 1 <= r PROVE FALSE
    <2> DEFINE t == s + 1
    <2>1. t \in Nat BY <1>2
    <2>2. r * r * adv <= 10000 * small /\ 10000 * large < t * t * adv BY <1>1, <1>2 DEF Root
    <2> HIDE DEF t
    <2>3. t <= r BY <1>3 DEF t
    <2>4. t * t \in Nat /\ r * r \in Nat /\ t * t <= r * r BY <1>1, <2>1, <2>3, NatTimesOrdered
    <2> DEFINE tt == t * t
               rr == r * r
    <2>5. tt \in Nat /\ rr \in Nat /\ tt <= rr BY <2>4
    <2>6. rr * adv <= 10000 * small /\ 10000 * large < tt * adv BY <2>2
    <2> HIDE DEF tt, rr
    <2>7. tt * adv \in Nat /\ rr * adv \in Nat /\ tt * adv <= rr * adv BY <2>5, NatTimesOrdered
    <2> QED BY <2>6, <2>7
  <1>4. r <= s BY <1>1, <1>2, <1>3
  <1> QED BY <1>4 DEF r, s

(* Each fill is on the wrong side of the close, for a commission that is   *)
(* not negative.                                                           *)
Fills == [side : Sides, quantity : Nat, fill_price : Int, commission : Nat,
          status : {"FILLED", "PARTIALLY_FILLED"}]

WrongSide(fill, close) ==
  /\ fill \in Fills
  /\ fill.side = "BUY" => fill.fill_price >= close
  /\ fill.side = "SELL" => fill.fill_price <= close

ExecInv ==
  /\ broker \in Brokers
  /\ bar = NoBar \/ (bar.close \in Closes /\ bar.volume \in Volumes)
  /\ position \in Int /\ account \in Int /\ drift \in Int
  /\ executed \in Seq(Fills)
  /\ account + SumFunction([i \in 1..Len(executed) |-> NetValue(executed[i])]) = 0
  /\ account + position * bar.close <= drift

LEMMA ExecStarts == ASSUME ExecutionIsPosed, ExecutionInit PROVE ExecInv
  <1>1. executed = <<>> /\ Len(executed) = 0 /\ 1..0 = {} BY DEF ExecutionInit
  <1> DEFINE f == [i \in 1..Len(executed) |-> NetValue(executed[i])]
  <1>2. f \in Amounts({}) BY <1>1 DEF Amounts
  <1>3. SumFunction(f) = 0 BY <1>2, SumEmpty
  <1> HIDE DEF f
  <1>4. /\ broker \in Brokers /\ bar = NoBar /\ position = 0 /\ account = 0 /\ drift = 0
    BY DEF ExecutionInit
  <1>5. bar.close = 0 BY <1>4 DEF NoBar
  <1>6. account + SumFunction(f) = 0 /\ account + position * bar.close <= drift
    BY <1>3, <1>4, <1>5
  <1>7. executed \in Seq(Fills) BY <1>1
  <1> QED BY <1>1, <1>4, <1>6, <1>7 DEF ExecInv, f

LEMMA CommissionIs ==
  ASSUME NEW model \in CommissionModels, NEW quantity \in Nat, NEW price \in Int
  PROVE  Commission(model, quantity, price) \in Nat
  <1>1. CASE model \in [model : {"percentage"}, rate : Nat, minimum : Nat]
    <2> DEFINE x == (quantity * price * model.rate) \div 1000
    <2>1. x \in Int
      <3>1. quantity * price * model.rate \in Int BY <1>1
      <3> QED BY <3>1, SMT
    <2>2. Commission(model, quantity, price) = Max({model.minimum, x})
      BY <1>1 DEF Commission
    <2>3. model.minimum \in Nat BY <1>1
    <2> DEFINE least == model.minimum
    <2> HIDE DEF x, least
    <2>4. least \in Int BY <2>3 DEF least
    <2>5. Max({least, x}) = IF least >= x THEN least ELSE x BY <2>1, <2>4, GreaterOfTwo
    <2> QED BY <2>1, <2>2, <2>3, <2>5 DEF least
  <1>2. CASE model \in [model : {"flat"}, fee : Nat]
    BY <1>2 DEF Commission
  <1>3. CASE model \in [model : {"zero"}]
    BY <1>3 DEF Commission
  <1> QED BY <1>1, <1>2, <1>3 DEF CommissionModels

LEMMA PaperIs ==
  ASSUME ExecutionIsPosed, ExecInv, bar # NoBar, NEW side \in Sides, NEW quantity \in Nat
  PROVE  /\ PaperQuantity(quantity) \in Nat
         /\ PaperPrice(side, quantity) \in Int
         /\ side = "BUY" => PaperPrice(side, quantity) >= bar.close
         /\ side = "SELL" => PaperPrice(side, quantity) <= bar.close
  <1> DEFINE adv == AdvOf(bar)
             close == bar.close
             cut == (close * broker.fixed_bps) \div 10000 + 10
             slipped == close + Signed(side, cut)
             coefficient == broker.impact_coefficient
             r == SqrtParticipation(quantity, adv)
             impact == (slipped * coefficient * 2 * r) \div 1000000
  <1>1. close \in Nat /\ close >= 100 /\ bar.volume \in Nat
    <2>1. bar.close \in Closes /\ bar.volume \in Volumes BY DEF ExecInv
    <2> QED BY <2>1 DEF ExecutionIsPosed
  <1>2. adv \in Nat \ {0} BY <1>1 DEF AdvOf, ExecutionIsPosed
  <1>3. /\ broker.fixed_bps \in Nat /\ broker.fixed_bps <= 5000
        /\ coefficient \in Nat /\ broker.volatility_multiplier \in Nat
    BY DEF ExecInv, ExecutionIsPosed
  <1> DEFINE bps == broker.fixed_bps
  <1>0. bps \in Nat /\ bps <= 5000 BY <1>3
  <1>4. EstimateSlippage(broker, close, (DailyVolatility * Unit) \div 100, 0, 0, 1000000)
          = cut
    <2>1. Crowding(close, 0, 1000000) = 0 BY DEF Crowding
    <2>2. ((DailyVolatility * Unit) \div 100) \div 2 = 10
      <3>1. 2 * 1000 = 2000 OBVIOUS
      <3>2. 2000 \div 100 = 20 /\ 20 \div 2 = 10 BY SMT
      <3> QED BY <3>1, <3>2 DEF DailyVolatility, Unit
    <2>3. (close * 0 * broker.volatility_multiplier) \div 100 = 0
      <3>1. close * 0 * broker.volatility_multiplier = 0 BY <1>1, <1>3
      <3>2. 0 \div 100 = 0 BY SMT
      <3> QED BY <3>1, <3>2
    <2>4. (close * broker.fixed_bps) \div 10000 \in Int
      <3> HIDE DEF close, bps
      <3>1. close * bps \in Int BY <1>1, <1>0
      <3> QED BY <3>1, SMT DEF bps
    <2> DEFINE a == (close * broker.fixed_bps) \div 10000
               b == ((DailyVolatility * Unit) \div 100) \div 2
               c == (close * 0 * broker.volatility_multiplier) \div 100
               d == Crowding(close, 0, 1000000)
    <2>5. EstimateSlippage(broker, close, (DailyVolatility * Unit) \div 100, 0, 0, 1000000)
            = a + b + c + d
      BY DEF EstimateSlippage
    <2>6. a \in Int /\ b = 10 /\ c = 0 /\ d = 0 BY <2>1, <2>2, <2>3, <2>4
    <2>7. cut = a + 10 OBVIOUS
    <2> HIDE DEF a, b, c, d, cut
    <2> QED BY <2>5, <2>6, <2>7
  <1>5. cut \in Nat /\ cut <= close
    <2> DEFINE x == close * bps
    <2>1. x \in Nat /\ x <= close * 5000
      <3> HIDE DEF close, bps
      <3>1. 5000 \in Nat /\ close <= close BY <1>1
      <3>2. /\ close * bps \in Nat /\ close * 5000 \in Nat
            /\ close * bps <= close * 5000
        BY <1>1, <1>0, <3>1, NatTimesOrdered
      <3> QED BY <3>2
    <2> HIDE DEF x
    <2>2. x \in Nat /\ x <= close * 5000 BY <2>1
    <2>3. x \div 10000 \in Nat /\ x \div 10000 + 10 <= close BY <1>1, <2>2, SMT
    <2> QED BY <2>3 DEF x
  <1>6. slipped \in Nat /\ (side = "BUY" => slipped >= close) /\ (side = "SELL" => slipped <= close)
    <2> HIDE DEF cut, close
    <2> QED BY <1>1, <1>5 DEF Signed, Sides
  <1>7. r \in Nat BY <1>2, RootIs
  <1>8. impact \in Nat
    <2> HIDE DEF slipped, coefficient, r
    <2>1. slipped * coefficient \in Nat BY <1>3, <1>6, NatTimes
    <2> DEFINE x == slipped * coefficient * 2
    <2>2. x \in Nat BY <2>1
    <2> HIDE DEF x
    <2>3. x * r \in Nat BY <1>7, <2>2, NatTimes
    <2> DEFINE y == x * r
    <2>4. y \in Nat BY <2>3
    <2> HIDE DEF y
    <2>5. y \div 1000000 \in Nat BY <2>4, SMT
    <2> QED BY <2>5 DEF x, y
  <1>9. ImpactPrice(coefficient, slipped, quantity, adv, DailyVolatility) = impact
    <2>1. ~(adv <= 0) BY <1>2
    <2> HIDE DEF adv, slipped, coefficient
    <2> QED BY <2>1 DEF ImpactPrice, DailyVolatility
  <1>10. PaperPrice(side, quantity) = slipped + Signed(side, impact)
    <2> DEFINE slippage == EstimateSlippage(broker, close,
                             (DailyVolatility * Unit) \div 100, 0, 0, 1000000)
               from == close + Signed(side, slippage)
    <2>1. PaperPrice(side, quantity)
            = from + Signed(side,
                ImpactPrice(coefficient, from, quantity, adv, DailyVolatility))
      BY DEF PaperPrice
    <2>2. slippage = cut BY <1>4
    <2>3. from = slipped BY <2>2
    <2> HIDE DEF from, slipped, impact, adv
    <2> QED BY <1>9, <2>1, <2>3
  <1>11. PaperQuantity(quantity) \in Nat
    <2> DEFINE m == Max({adv \div 10, 1})
    <2>1. adv \div 10 \in Nat BY <1>2, SMT
    <2> DEFINE t == adv \div 10
    <2> HIDE DEF t
    <2>2. t \in Nat BY <2>1 DEF t
    <2>3. Max({t, 1}) = IF t >= 1 THEN t ELSE 1 BY <2>2, GreaterOfTwo
    <2>4. Max({t, 1}) \in Nat BY <2>2, <2>3
    <2>5. m \in Nat BY <2>4 DEF t
    <2> HIDE DEF m
    <2>6. Min({quantity, m}) = IF quantity <= m THEN quantity ELSE m BY <2>5, LesserOfTwo
    <2>7. PaperQuantity(quantity) = Min({quantity, m}) BY DEF PaperQuantity, m
    <2> QED BY <2>5, <2>6, <2>7
  <1>12. /\ PaperPrice(side, quantity) \in Int
         /\ side = "BUY" => PaperPrice(side, quantity) >= close
         /\ side = "SELL" => PaperPrice(side, quantity) <= close
    <2> HIDE DEF slipped, impact, close
    <2> QED BY <1>1, <1>6, <1>8, <1>10 DEF Signed, Sides
  <1> QED BY <1>11, <1>12

LEMMA NetIsNumber == ASSUME NEW fill \in Fills PROVE NetValue(fill) \in Int
  <1>1. fill.quantity \in Nat /\ fill.fill_price \in Int /\ fill.commission \in Nat
    BY DEF Fills
  <1> DEFINE g == fill.quantity * fill.fill_price
  <1>2. g \in Int BY <1>1
  <1>3. NetValue(fill) = Signed(fill.side, g) + fill.commission
    BY DEF NetValue, GrossValue
  <1> HIDE DEF g
  <1> QED BY <1>1, <1>2, <1>3 DEF Signed

LEMMA FillIsWrong ==
  ASSUME ExecutionIsPosed, ExecInv, bar # NoBar,
         NEW order, order.side \in Sides, order.quantity \in Nat
  PROVE  WrongSide(FillOf(order), bar.close)
  <1> DEFINE fill == FillOf(order)
             paper == broker.kind = "paper"
             quantity == IF paper THEN PaperQuantity(order.quantity) ELSE order.quantity
             fixed == FixedBpsSlippage(order.side, bar.close, broker.fixed_bps)
             price == IF paper THEN PaperPrice(order.side, quantity) ELSE fixed
  <1>1. fill = [side |-> order.side, quantity |-> quantity, fill_price |-> price,
                commission |-> Commission(broker.commission, quantity, price),
                status |-> IF quantity = order.quantity THEN "FILLED" ELSE "PARTIALLY_FILLED"]
    BY DEF FillOf
  <1>2. quantity \in Nat
    <2>1. PaperQuantity(order.quantity) \in Nat BY PaperIs
    <2> QED BY <2>1
  <1>3. /\ fixed \in Int
        /\ order.side = "BUY" => fixed >= bar.close
        /\ order.side = "SELL" => fixed <= bar.close
    <2>1. bar.close \in Nat /\ broker.fixed_bps \in Nat
      <3>1. broker \in Brokers /\ bar.close \in Closes BY DEF ExecInv
      <3>2. broker.fixed_bps \in Nat BY <3>1 DEF ExecutionIsPosed
      <3>3. \A x \in Closes : x \in Nat BY DEF ExecutionIsPosed
      <3>4. bar.close \in Nat BY <3>1, <3>3, Zenon
      <3> QED BY <3>2, <3>4
    <2> DEFINE x == bar.close * broker.fixed_bps
    <2>2. x \in Nat BY <2>1, NatTimes
    <2> DEFINE y == x \div 10000
    <2>3. y \in Nat
      <3> HIDE DEF x
      <3> QED BY <2>2, SMT
    <2>4. fixed = bar.close + Signed(order.side, y) BY DEF FixedBpsSlippage
    <2> HIDE DEF y, fixed
    <2> QED BY <2>1, <2>3, <2>4 DEF Signed, Sides
  <1>4. /\ price \in Int
        /\ order.side = "BUY" => price >= bar.close
        /\ order.side = "SELL" => price <= bar.close
    <2> HIDE DEF fixed, quantity, paper
    <2>1. /\ PaperPrice(order.side, quantity) \in Int
          /\ order.side = "BUY" => PaperPrice(order.side, quantity) >= bar.close
          /\ order.side = "SELL" => PaperPrice(order.side, quantity) <= bar.close
      BY <1>2, PaperIs
    <2> QED BY <1>3, <2>1
  <1>5. broker.commission \in CommissionModels BY DEF ExecInv, ExecutionIsPosed
  <1> HIDE DEF fill, quantity, price
  <1>6. Commission(broker.commission, quantity, price) \in Nat
    BY <1>2, <1>4, <1>5, CommissionIs
  <1> DEFINE fee == Commission(broker.commission, quantity, price)
             status == IF quantity = order.quantity THEN "FILLED" ELSE "PARTIALLY_FILLED"
  <1>7. fill \in Fills
    <2>1. status \in {"FILLED", "PARTIALLY_FILLED"} OBVIOUS
    <2>2. fill = [side |-> order.side, quantity |-> quantity, fill_price |-> price,
                  commission |-> fee, status |-> status]
      BY <1>1
    <2>3. fee \in Nat BY <1>6
    <2> HIDE DEF fee, status
    <2> QED BY <1>2, <1>4, <2>1, <2>2, <2>3 DEF Fills
  <1>8. fill.side = order.side /\ fill.fill_price = price BY <1>1
  <1>9. WrongSide(fill, bar.close) BY <1>4, <1>7, <1>8 DEF WrongSide
  <1> QED BY <1>9 DEF fill

(* A fill on the wrong side leaves the account where it was, or worse.     *)
LEMMA FillCosts ==
  ASSUME NEW close \in Int, NEW fill, WrongSide(fill, close), NEW p \in Int, NEW a \in Int
  PROVE  LET p1 == p + Signed(fill.side, fill.quantity)
             a1 == a - Signed(fill.side, fill.quantity * fill.fill_price) - fill.commission
         IN  /\ p1 \in Int /\ a1 \in Int /\ NetValue(fill) \in Int
             /\ a1 = a - NetValue(fill)
             /\ a1 + p1 * close <= a + p * close
  <1> DEFINE q == fill.quantity
             x == fill.fill_price
             c == fill.commission
             g == q * x
             h == q * close
  <1>1. q \in Nat /\ x \in Int /\ c \in Nat /\ fill.side \in Sides
    BY DEF WrongSide, Fills
  <1>2. g \in Int /\ h \in Int BY <1>1
  <1>3. NetValue(fill) = Signed(fill.side, g) + c
    BY DEF NetValue, GrossValue
  <1>4. CASE fill.side = "BUY"
    <2>1. close <= x BY <1>4 DEF WrongSide
    <2>2. h <= g BY <1>1, <2>1, TimesOrdered
    <2>3. (p + q) * close = p * close + h /\ p * close \in Int BY <1>1
    <2>4. \A n : Signed(fill.side, n) = n BY <1>4 DEF Signed
    <2> HIDE DEF q, x, c, g, h
    <2>5. Signed(fill.side, q) = q /\ Signed(fill.side, g) = g BY <2>4
    <2>6. /\ p + q \in Int /\ a - g - c \in Int /\ NetValue(fill) = g + c
          /\ a - g - c = a - (g + c)
          /\ a - g - c + (p + q) * close <= a + p * close
      BY <1>1, <1>2, <1>3, <2>2, <2>3, <2>5
    <2>7. g + c \in Int BY <1>1, <1>2
    <2> QED BY <2>5, <2>6, <2>7 DEF q, x, c, g
  <1>5. CASE fill.side = "SELL"
    <2>1. x <= close BY <1>5 DEF WrongSide
    <2>2. g <= h BY <1>1, <2>1, TimesOrdered
    <2>3. (p - q) * close = p * close - h /\ p * close \in Int BY <1>1
    <2>4. \A n : Signed(fill.side, n) = -n BY <1>5 DEF Signed
    <2> HIDE DEF q, x, c, g, h
    <2>5. Signed(fill.side, q) = -q /\ Signed(fill.side, g) = -g BY <2>4
    <2>6. /\ p + (-q) \in Int /\ a - (-g) - c \in Int /\ NetValue(fill) = -g + c
          /\ a - (-g) - c = a - (-g + c)
          /\ p + (-q) = p - q
          /\ a - (-g) - c + (p - q) * close <= a + p * close
      BY <1>1, <1>2, <1>3, <2>2, <2>3, <2>5
    <2>7. -g + c \in Int BY <1>1, <1>2
    <2> QED BY <2>5, <2>6, <2>7 DEF q, x, c, g
  <1> QED BY <1>1, <1>4, <1>5 DEF Sides

LEMMA ExecStep == ASSUME ExecutionIsPosed, ExecInv, [ExecutionNext]_executionVars PROVE ExecInv'
  <1>1. CASE UNCHANGED executionVars
    BY <1>1, Zenon DEF executionVars, ExecInv
  <1>2. CASE NewBar
    <2>1. PICK close \in Closes, volume \in Volumes :
            /\ bar' = [close |-> close, volume |-> volume]
            /\ drift' = drift + position * (close - bar.close)
            /\ UNCHANGED <<broker, position, account, executed>>
      BY <1>2 DEF NewBar
    <2>2. close \in Int /\ bar.close \in Int
      <3>1. \A x \in Closes : x \in Int BY DEF ExecutionIsPosed
      <3>2. bar.close = 0 \/ bar.close \in Closes BY DEF ExecInv, NoBar
      <3>3. bar.close \in Closes => bar.close \in Int BY <3>1, Zenon
      <3>4. bar.close \in Int BY <3>2, <3>3
      <3>5. close \in Int BY <3>1
      <3> QED BY <3>4, <3>5
    <2>3. bar'.close = close /\ bar'.volume = volume BY <2>1
    <2>4. position \in Int /\ account \in Int /\ drift \in Int
          /\ account + position * bar.close <= drift
      BY DEF ExecInv
    <2> DEFINE old == bar.close
    <2>5. drift' = drift + position * (close - old) BY <2>1
    <2>6. old \in Int /\ account + position * old <= drift BY <2>2, <2>4
    <2> HIDE DEF old
    <2>7. position * (close - old) = position * close - position * old
          /\ position * close \in Int /\ position * old \in Int
      BY <2>2, <2>4, <2>6
    <2>8. drift' \in Int /\ account + position * close <= drift'
      BY <2>4, <2>5, <2>6, <2>7
    <2>9. account' + position' * bar'.close <= drift' BY <2>1, <2>3, <2>8
    <2>10. /\ executed' \in Seq(Fills)
           /\ account' + SumFunction([i \in 1..Len(executed') |-> NetValue(executed'[i])]) = 0
      BY <2>1, Zenon DEF ExecInv
    <2>11. broker' \in Brokers /\ position' \in Int /\ account' \in Int
      BY <2>1 DEF ExecInv
    <2>12. bar' = NoBar \/ (bar'.close \in Closes /\ bar'.volume \in Volumes) BY <2>3
    <2> QED BY <2>8, <2>9, <2>10, <2>11, <2>12 DEF ExecInv
  <1>3. CASE ExecuteOrder
    <2>1. PICK order \in Orders :
            IF ~Executes(order)
            THEN UNCHANGED executionVars
            ELSE /\ executed' = Append(executed, FillOf(order))
                 /\ position' = position + Signed(FillOf(order).side,
                                                       FillOf(order).quantity)
                 /\ account' = account
                      - Signed(FillOf(order).side,
                                    FillOf(order).quantity * FillOf(order).fill_price)
                      - FillOf(order).commission
                 /\ UNCHANGED <<broker, bar, bars, drift>>
      BY <1>3 DEF ExecuteOrder
    <2>2. CASE ~Executes(order)
      <3>1. UNCHANGED executionVars BY <2>1, <2>2
      <3> QED BY <3>1, <1>1
    <2>3. CASE Executes(order)
      <3> DEFINE fill == FillOf(order)
      <3>1. bar # NoBar BY <2>3 DEF Executes
      <3>2. order.side \in Sides /\ order.quantity \in Nat
        <4>1. order.quantity \in OrderSizes /\ order.side \in Sides BY DEF Orders
        <4>2. \A quantity \in OrderSizes : quantity \in Nat BY DEF ExecutionIsPosed
        <4>3. order.quantity \in Nat BY <4>1, <4>2, Zenon
        <4> QED BY <4>1, <4>3
      <3>3. WrongSide(fill, bar.close) BY <3>1, <3>2, FillIsWrong
      <3>4. bar.close \in Int
        <4>1. \A x \in Closes : x \in Int BY DEF ExecutionIsPosed
        <4>2. bar.close \in Closes BY <3>1 DEF ExecInv
        <4> QED BY <4>1, <4>2, Zenon
      <3>5. /\ executed' = Append(executed, fill)
            /\ position' = position + Signed(fill.side, fill.quantity)
            /\ account' = account - Signed(fill.side, fill.quantity * fill.fill_price)
                            - fill.commission
            /\ broker' = broker /\ bar' = bar /\ drift' = drift
        BY <2>1, <2>3
      <3> HIDE DEF fill
      <3>6. /\ position \in Int /\ account \in Int /\ drift \in Int
            /\ account + position * bar.close <= drift
            /\ broker \in Brokers /\ bar.close \in Closes /\ bar.volume \in Volumes
        BY <3>1 DEF ExecInv
      <3>7. /\ position' \in Int /\ account' \in Int /\ NetValue(fill) \in Int
            /\ account' = account - NetValue(fill)
            /\ account' + position' * bar.close <= account + position * bar.close
        BY <3>3, <3>4, <3>5, <3>6, FillCosts
      <3>8. account' + position' * bar'.close <= drift'
        <4> DEFINE v == position' * bar.close
                   w == position * bar.close
        <4>1. v \in Int /\ w \in Int BY <3>4, <3>6, <3>7
        <4>2. account' + v <= account + w /\ account + w <= drift BY <3>6, <3>7
        <4> HIDE DEF v, w
        <4>3. account' + v <= drift BY <3>6, <3>7, <4>1, <4>2
        <4> QED BY <3>5, <4>3 DEF v
      <3> DEFINE f == [i \in 1..Len(executed) |-> NetValue(executed[i])]
      <3>9. PICK n \in Nat : n = Len(executed) BY DEF ExecInv
      <3>10. \A i \in 1..n : NetValue(executed[i]) \in Int
        <4>1. \A i \in 1..n : executed[i] \in Fills BY <3>9 DEF ExecInv
        <4> QED BY <4>1, NetIsNumber
      <3>11. fill \in Fills BY <3>3 DEF WrongSide
      <3>12. /\ executed' \in Seq(Fills)
             /\ Len(executed') = n + 1 /\ executed'[n + 1] = fill
             /\ \A i \in 1..n : executed'[i] = executed[i]
        BY <3>5, <3>9, <3>11 DEF ExecInv
      <3> DEFINE a == [i \in 1..n |-> NetValue(executed[i])]
                 b == [i \in 1..(n + 1) |-> NetValue(executed'[i])]
      <3>13. \A i \in 1..(n + 1) : NetValue(executed'[i]) \in Int
        <4> TAKE i \in 1..(n + 1)
        <4>1. CASE i = n + 1 BY <3>7, <3>12, <4>1
        <4>2. CASE i \in 1..n BY <3>10, <3>12, <4>2
        <4> QED BY <4>1, <4>2
      <3>14. a \in Amounts(1..n) /\ b \in Amounts(1..(n + 1)) BY <3>10, <3>13 DEF Amounts
      <3>15. \A i \in 1..n : b[i] = a[i]
        <4> TAKE i \in 1..n
        <4>1. executed'[i] = executed[i] /\ i \in 1..(n + 1) BY <3>12
        <4>2. a[i] = NetValue(executed[i]) OBVIOUS
        <4>3. b[i] = NetValue(executed'[i]) BY <4>1
        <4> QED BY <4>1, <4>2, <4>3
      <3>16. b[n + 1] = NetValue(fill)
        <4>1. n + 1 \in 1..(n + 1) OBVIOUS
        <4>2. b[n + 1] = NetValue(executed'[n + 1]) BY <4>1
        <4> QED BY <3>12, <4>2
      <3>17. account + SumFunction(a) = 0 BY <3>9, Zenon DEF ExecInv
      <3>18. SumFunction(a) \in Int
        <4>1. IsFiniteSet(1..n) BY FS_Interval
        <4> HIDE DEF a
        <4> QED BY <3>14, <4>1, SumType
      <3>19. SumFunction(b) = SumFunction(a) + NetValue(fill)
        <4> HIDE DEF a, b
        <4>1. SumFunction(b) = SumFunction(a) + b[n + 1] BY <3>14, <3>15, SumAppend
        <4> QED BY <3>16, <4>1
      <3>20. account' + SumFunction(b) = 0
        <4> HIDE DEF a, b
        <4> QED BY <3>6, <3>7, <3>17, <3>18, <3>19
      <3>21. account' + SumFunction([i \in 1..Len(executed') |-> NetValue(executed'[i])]) = 0
        BY <3>12, <3>20
      <3>22. executed' \in Seq(Fills) BY <3>12
      <3>23. broker' \in Brokers /\ bar'.close \in Closes /\ bar'.volume \in Volumes /\ drift' \in Int
        BY <3>5, <3>6
      <3> QED BY <3>7, <3>8, <3>21, <3>22, <3>23 DEF ExecInv
    <2> QED BY <2>2, <2>3
  <1> QED BY <1>1, <1>2, <1>3 DEF ExecutionNext

LEMMA ExecFree == ASSUME ExecInv PROVE NothingForFree
  <1> DEFINE f == [i \in 1..Len(executed) |-> NetValue(executed[i])]
  <1>1. account + SumFunction(f) = 0 /\ account + position * bar.close <= drift
    BY Zenon DEF ExecInv
  <1>2. DOMAIN executed = 1..Len(executed)
    <2>1. executed \in Seq(Fills) BY DEF ExecInv
    <2> QED BY <2>1
  <1>3. [i \in DOMAIN executed |-> NetValue(executed[i])] = f BY <1>2
  <1>4. SumFunction([i \in DOMAIN executed |-> NetValue(executed[i])]) = SumFunction(f)
    <2> HIDE DEF f
    <2> QED BY <1>3
  <1>5. account + SumFunction([i \in DOMAIN executed |-> NetValue(executed[i])]) = 0
    BY <1>1, <1>4
  <1> QED BY <1>1, <1>5 DEF NothingForFree

(* An estimate in order: MarketImpactModel and SlippageModel.              *)
LEMMA ParticipationOrdered ==
  ASSUME NEW small \in Nat, NEW large \in Nat, small <= large, NEW adv \in Nat \ {0}
  PROVE  /\ Participation(small, adv) \in Nat /\ Participation(large, adv) \in Nat
         /\ Participation(small, adv) <= Participation(large, adv)
  <1> DEFINE x == 100 * small
             y == 100 * large
  <1>1. x \in Nat /\ y \in Nat /\ x <= y OBVIOUS
  <1>2. Participation(small, adv) = x \div adv /\ Participation(large, adv) = y \div adv
    BY DEF Participation
  <1> HIDE DEF x, y
  <1>3. x \div adv \in Nat /\ y \div adv \in Nat /\ x \div adv <= y \div adv
    BY <1>1, NatDivOrdered
  <1> QED BY <1>2, <1>3

LEMMA ImpactOrdered ==
  ASSUME NEW small \in Nat, NEW large \in Nat, small <= large, NEW adv \in Nat
  PROVE  /\ MarketImpact(small, adv, 2, FALSE) \in Nat
         /\ MarketImpact(large, adv, 2, FALSE) \in Nat
         /\ MarketImpact(small, adv, 2, FALSE) <= MarketImpact(large, adv, 2, FALSE)
  <1>1. CASE adv = 0
    <2>1. MarketImpact(small, adv, 2, FALSE) = 0 BY <1>1 DEF MarketImpact
    <2>2. MarketImpact(large, adv, 2, FALSE) = 0 BY <1>1 DEF MarketImpact
    <2> DEFINE i(q) == MarketImpact(q, adv, 2, FALSE)
    <2>3. i(small) = 0 /\ i(large) = 0 BY <2>1, <2>2
    <2> HIDE DEF i
    <2>4. i(small) \in Nat /\ i(large) \in Nat /\ i(small) <= i(large) BY <2>3
    <2> QED BY <2>4 DEF i
  <1>2. CASE adv # 0
    <2> DEFINE r(q) == SqrtParticipation(q, adv)
               p(q) == Participation(q, adv)
    <2>1. adv \in Nat \ {0} BY <1>2
    <2>2. r(small) \in Nat /\ r(large) \in Nat BY <2>1, RootIs
    <2>3. r(small) <= r(large) BY <2>1, RootOrdered
    <2>4. p(small) \in Nat /\ p(large) \in Nat /\ p(small) <= p(large)
      BY <2>1, ParticipationOrdered
    <2>5. ASSUME NEW q PROVE MarketImpact(q, adv, 2, FALSE) = 1 * 2 * r(q) + 2 * p(q)
      <3>1. ~(adv <= 0) BY <2>1
      <3> QED BY <3>1 DEF MarketImpact
    <2> DEFINE i(q) == MarketImpact(q, adv, 2, FALSE)
    <2>6. i(small) = 1 * 2 * r(small) + 2 * p(small) /\ i(large) = 1 * 2 * r(large) + 2 * p(large)
      BY <2>5
    <2> HIDE DEF r, p, i
    <2>7. i(small) \in Nat /\ i(large) \in Nat /\ i(small) <= i(large)
      BY <2>2, <2>3, <2>4, <2>6
    <2> QED BY <2>7 DEF i
  <1> QED BY <1>1, <1>2

LEMMA CrowdingOrdered ==
  ASSUME NEW small \in Nat, NEW large \in Nat, small <= large, NEW adv \in Nat, NEW price \in Nat
  PROVE  /\ Crowding(price, small, adv) \in Nat /\ Crowding(price, large, adv) \in Nat
         /\ Crowding(price, small, adv) <= Crowding(price, large, adv)
  <1> DEFINE c(q) == Crowding(price, q, adv)
             free(q) == q <= 0 \/ adv <= 0 \/ 100 * q <= adv
             r(q) == SqrtParticipation(q, adv)
             p(q) == Participation(q, adv)
             x(q) == price * p(q) * r(q)
  <1>1. \A q : c(q) = IF free(q) THEN 0 ELSE x(q) \div 100000
    BY DEF Crowding
  <1>2. c(small) = (IF free(small) THEN 0 ELSE x(small) \div 100000)
        /\ c(large) = (IF free(large) THEN 0 ELSE x(large) \div 100000)
    BY <1>1
  <1>3. free(large) => free(small) OBVIOUS
  <1>4. CASE free(large)
    <2> HIDE DEF c, x, free
    <2> QED BY <1>2, <1>3, <1>4 DEF c
  <1>5. CASE ~free(large)
    <2>1. adv \in Nat \ {0} BY <1>5
    <2>2. r(small) \in Nat /\ r(large) \in Nat BY <2>1, RootIs
    <2>3. r(small) <= r(large) BY <2>1, RootOrdered
    <2>4. p(small) \in Nat /\ p(large) \in Nat /\ p(small) <= p(large)
      BY <2>1, ParticipationOrdered
    <2> HIDE DEF r, p
    <2> DEFINE y(q) == price * p(q)
    <2>5. y(small) \in Nat /\ y(large) \in Nat /\ y(small) <= y(large)
      <3>1. price <= price OBVIOUS
      <3> QED BY <2>4, <3>1, NatTimesOrdered
    <2>6. x(small) = y(small) * r(small) /\ x(large) = y(large) * r(large) OBVIOUS
    <2> HIDE DEF x, y
    <2>7. /\ y(small) * r(small) \in Nat /\ y(large) * r(large) \in Nat
          /\ y(small) * r(small) <= y(large) * r(large)
      BY <2>2, <2>3, <2>5, NatTimesOrdered
    <2>8. x(small) \in Nat /\ x(large) \in Nat /\ x(small) <= x(large) BY <2>6, <2>7
    <2>9. /\ x(small) \div 100000 \in Nat /\ x(large) \div 100000 \in Nat
          /\ x(small) \div 100000 <= x(large) \div 100000
      BY <2>8, SMT
    <2> HIDE DEF c, free
    <2>10. c(small) \in Nat /\ c(large) \in Nat /\ c(small) <= c(large) BY <1>2, <1>5, <2>9
    <2> QED BY <2>10 DEF c
  <1> QED BY <1>4, <1>5

LEMMA CostOrdered ==
  ASSUME NEW small \in Nat, NEW large \in Nat, small <= large, NEW adv \in Nat,
         NEW price \in Nat, price >= 100, NEW spread \in Nat
  PROVE  TotalCost(price, small, adv, 2, spread, FALSE)
           <= TotalCost(price, large, adv, 2, spread, FALSE)
  <1> DEFINE m(q) == MarketImpact(q, adv, 2, FALSE)
             c(q) == Crowding(price, q, adv)
             s(q) == EstimateSlippage(EngineSlippage, price, spread, 2, q, adv)
             d == price \div 100
             b == (price * 1) \div 10000 + spread \div 2
  <1>1. m(small) \in Nat /\ m(large) \in Nat /\ m(small) <= m(large) BY ImpactOrdered
  <1>2. c(small) \in Nat /\ c(large) \in Nat /\ c(small) <= c(large) BY CrowdingOrdered
  <1>3. d \in Nat \ {0} BY SMT
  <1>4. b \in Nat BY SMT
  <1>5. \A q : s(q) = (price * 1) \div 10000 + spread \div 2 + (price * 2 * 0) \div 100 + c(q)
    BY DEF EstimateSlippage, EngineSlippage
  <1>6. (price * 2 * 0) \div 100 = 0
    <2>1. price * 2 * 0 = 0 OBVIOUS
    <2>2. 0 \div 100 = 0 BY SMT
    <2> QED BY <2>1, <2>2
  <1> HIDE DEF m, c, s
  <1>7. s(small) = b + c(small) /\ s(large) = b + c(large)
    <2>1. \A q : s(q) = b + 0 + c(q) BY <1>5, <1>6
    <2> HIDE DEF b
    <2> QED BY <1>2, <1>4, <2>1
  <1> HIDE DEF b
  <1>8. /\ 2000 * s(small) \in Nat /\ 2000 * s(large) \in Nat
        /\ 2000 * s(small) <= 2000 * s(large)
    BY <1>2, <1>4, <1>7
  <1> DEFINE x == 2000 * s(small)
             y == 2000 * s(large)
  <1>9. x \in Nat /\ y \in Nat /\ x <= y BY <1>8
  <1> DEFINE u == x \div d
             v == y \div d
             total(q) == TotalCost(price, q, adv, 2, spread, FALSE)
  <1>10. u \in Nat /\ v \in Nat /\ u <= v
    <2> HIDE DEF x, y, d
    <2> QED BY <1>3, <1>9, NatDivOrdered
  <1>11. total(small) = m(small) + u /\ total(large) = m(large) + v
    <2>1. price > 0 OBVIOUS
    <2> QED BY <2>1 DEF TotalCost, m, s
  <1> HIDE DEF u, v, total
  <1>12. total(small) <= total(large) BY <1>1, <1>10, <1>11
  <1> QED BY <1>12 DEF total

LEMMA NeverAggressive ==
  ASSUME NEW q, NEW adv
  PROVE  (OptimizeExecution(q, adv, "NORMAL").best_strategy = "AGGRESSIVE") = FALSE
  <1>1. OptimizeExecution(q, adv, "NORMAL").best_strategy \in {"VWAP", "POV", "PASSIVE"}
    BY DEF OptimizeExecution
  <1> QED BY <1>1

LEMMA ExecOrdered == ASSUME ExecutionIsPosed, ExecInv PROVE LargerCostsMore
  <1> SUFFICES ASSUME bar # NoBar, NEW small \in OrderSizes \ {0},
                      NEW large \in OrderSizes \ {0}, NEW spread \in Spreads,
                      small <= large
               PROVE  /\ SimulateOrder(small, bar.close, bar.volume,
                                            DailyVolatility, spread).simulated_cost
                           <= SimulateOrder(large, bar.close, bar.volume,
                                                 DailyVolatility, spread).simulated_cost
                      /\ LET allowed == ConstrainQuantity(-large, bar.volume, 100)
                         IN  /\ allowed <= 0 /\ -10 * allowed <= bar.volume
                             /\ -allowed <= large
    BY DEF LargerCostsMore
  <1> DEFINE price == bar.close
             adv == bar.volume
  <1>1. price \in Nat /\ price >= 100 /\ adv \in Nat
    <2>1. bar.close \in Closes /\ bar.volume \in Volumes BY DEF ExecInv
    <2> QED BY <2>1 DEF ExecutionIsPosed
  <1>2. small \in Nat /\ large \in Nat /\ spread \in Nat BY DEF ExecutionIsPosed
  <1> HIDE DEF price, adv
  <1>3. ASSUME NEW q \in Nat
        PROVE  SimulateOrder(q, price, adv, DailyVolatility, spread).simulated_cost
                 = TotalCost(price, q, adv, 2, spread, FALSE)
    BY NeverAggressive DEF SimulateOrder, DailyVolatility
  <1>4. SimulateOrder(small, price, adv, DailyVolatility, spread).simulated_cost
          <= SimulateOrder(large, price, adv, DailyVolatility, spread).simulated_cost
    <2> DEFINE c(q) == TotalCost(price, q, adv, 2, spread, FALSE)
               t(q) == SimulateOrder(q, price, adv, DailyVolatility, spread).simulated_cost
    <2>1. c(small) <= c(large) BY <1>1, <1>2, CostOrdered
    <2>2. t(small) = c(small) BY <1>2, <1>3
    <2>3. t(large) = c(large) BY <1>2, <1>3
    <2> HIDE DEF c, t
    <2>4. t(small) <= t(large) BY <2>1, <2>2, <2>3
    <2> QED BY <2>4 DEF t
  <1> DEFINE allowed == ConstrainQuantity(-large, adv, 100)
             most == (adv * 100) \div 1000
  <1>5. most \in Nat /\ 10 * most <= adv BY <1>1, SMT
  <1>6. allowed = IF -large > most THEN most ELSE IF -(-large) > most THEN -most ELSE -large
    BY DEF ConstrainQuantity
  <1> HIDE DEF allowed, most
  <1>7. allowed <= 0 /\ -10 * allowed <= adv /\ -allowed <= large BY <1>1, <1>2, <1>5, <1>6
  <1> QED BY <1>4, <1>7 DEF allowed, price, adv

(* Execution, for any prices, volumes, sizes and cost models: no sequence  *)
(* of orders gains anything from the broker, backtest or paper, and a      *)
(* larger order is not estimated to cost less (Execution).                 *)
THEOREM ExecutionCorrect ==
  ASSUME ExecutionIsPosed
  PROVE  ExecutionSpec => []ExecutionSound
  <1>1. ExecutionInit => ExecInv BY ExecStarts
  <1>2. ExecInv /\ [ExecutionNext]_executionVars => ExecInv' BY ExecStep
  <1>3. ExecInv => ExecutionSound BY ExecFree, ExecOrdered DEF ExecutionSound
  <1> QED BY <1>1, <1>2, <1>3, PTL DEF ExecutionSpec

(***************************************************************************)
(* The alphas of a process (AlphaRegistry).  The registry and its          *)
(* categories name the same alphas, and what the factory holds could be    *)
(* built, and fitted if it was given data.                                 *)
(***************************************************************************)
BuiltAlphas ==
  [name : ToSet(Names), class : DOMAIN Classes, trained_on : BOOLEAN, is_fitted : BOOLEAN,
   signals : Nat, cached_metrics : BOOLEAN]

SoundAlphas ==
  {a \in BuiltAlphas :
     /\ Classes[a.class] # "TypeError"
     /\ a.trained_on => a.is_fitted /\ Classes[a.class] = "nothing"}

FactoryInv ==
  /\ Registered \subseteq ToSet(Names) /\ DOMAIN categories = Registered
  /\ \A n \in Registered : registry[n] \in DOMAIN Classes /\ categories[n] \in Categories
  /\ created \in Seq(SoundAlphas)

LEMMA FactoryStarts == RegistryInit => FactoryInv
  BY DEF RegistryInit, EmptyDict, FactoryInv, Registered

(* The names of a category: registered, each of them, and each once.       *)
PlacesOf(c) ==
  {i \in DOMAIN Names : Names[i] \in DOMAIN categories /\ categories[Names[i]] = c}

LEMMA ListedIs == ASSUME NEW c PROVE ListByCategory(c) = Select(Names, PlacesOf(c))
  BY Zenon DEF ListByCategory, PlacesOf

LEMMA PlacesFinite ==
  ASSUME NEW c
  PROVE  PlacesOf(c) \in SUBSET Nat /\ IsFiniteSet(PlacesOf(c))
  <1>1. DOMAIN Names = 1..Len(Names) /\ Len(Names) \in Nat BY RegistryAssumption
  <1>2. PlacesOf(c) \subseteq 1..Len(Names) BY <1>1 DEF PlacesOf
  <1>3. IsFiniteSet(PlacesOf(c))
    <2>1. IsFiniteSet(1..Len(Names)) BY <1>1, FS_Interval
    <2> QED BY <1>2, <2>1, FS_Subset
  <1> QED BY <1>1, <1>2, <1>3

LEMMA ListedFacts ==
  ASSUME FactoryInv, NEW c
  PROVE  /\ ListByCategory(c) \in Seq({n \in Registered : categories[n] = c})
         /\ \A n \in Registered : categories[n] = c =>
              \E k \in DOMAIN ListByCategory(c) : ListByCategory(c)[k] = n
         /\ \A k, l \in DOMAIN ListByCategory(c) :
              ListByCategory(c)[k] = ListByCategory(c)[l] => k = l
  <1> DEFINE P == PlacesOf(c)
             s == Select(Names, P)
             S == {n \in Registered : categories[n] = c}
  <1>1. P \in SUBSET Nat /\ IsFiniteSet(P) BY PlacesFinite
  <1>2. \A i \in P : i \in DOMAIN Names /\ Names[i] \in S
    BY DEF PlacesOf, FactoryInv
  <1>3. \A n \in S : \E i \in P : Names[i] = n
    <2>1. TAKE n \in S
    <2>2. n \in ToSet(Names) BY DEF FactoryInv
    <2>3. PICK i \in DOMAIN Names : Names[i] = n BY <2>2 DEF ToSet
    <2> QED BY <2>3 DEF PlacesOf, FactoryInv
  <1> HIDE DEF P, S
  <1>4. s \in Seq(S) BY <1>1, <1>2, SelectIn
  <1>5. /\ DOMAIN s = 1..Cardinality(P)
        /\ \A k \in 1..Cardinality(P) : Nth(P, k) \in P /\ s[k] = Names[Nth(P, k)]
    BY <1>1, SelectFacts
  <1>6. \A i \in P : \E k \in 1..Cardinality(P) : Nth(P, k) = i BY <1>1, SelectFacts
  <1>7. \A k, l \in 1..Cardinality(P) : k < l => Nth(P, k) < Nth(P, l) BY <1>1, SelectFacts
  <1>8. Cardinality(P) \in Nat BY <1>1, FS_CardinalityType
  <1>9. \A n \in S : \E k \in DOMAIN s : s[k] = n BY <1>3, <1>5, <1>6
  <1>10. \A k, l \in DOMAIN s : s[k] = s[l] => k = l
    <2>1. TAKE k, l \in DOMAIN s
    <2>2. Nth(P, k) \in DOMAIN Names /\ Nth(P, l) \in DOMAIN Names BY <1>2, <1>5
    <2>3. s[k] = s[l] => Nth(P, k) = Nth(P, l) BY <1>5, <2>2, RegistryAssumption
    <2>4. Nth(P, k) \in Int /\ Nth(P, l) \in Int
      <3>1. \A x \in P : x \in Int BY <1>1
      <3>2. Nth(P, k) \in P /\ Nth(P, l) \in P BY <1>5
      <3> QED BY <3>1, <3>2
    <2>5. k < l => Nth(P, k) < Nth(P, l) BY <1>5, <1>7
    <2>6. l < k => Nth(P, l) < Nth(P, k) BY <1>5, <1>7
    <2>7. k \in Int /\ l \in Int BY <1>5, <1>8
    <2> QED BY <2>3, <2>4, <2>5, <2>6, <2>7
  <1>11. s = ListByCategory(c) BY ListedIs DEF P
  <1> QED BY <1>4, <1>9, <1>10, <1>11 DEF S

(* Everything a call of the factory keeps is sound.                        *)
LEMMA AlphaSound ==
  ASSUME FactoryInv, NEW n \in ToSet(Names), NEW train \in BOOLEAN,
         Outcome(n, train) = "nothing"
  PROVE  Alpha(n, train) \in SoundAlphas
  <1>1. n \in Registered BY DEF Outcome
  <1>2. registry[n] \in DOMAIN Classes BY <1>1 DEF FactoryInv
  <1>3. Classes[registry[n]] # "TypeError" /\ (train => Classes[registry[n]] = "nothing")
    BY <1>1 DEF Outcome
  <1> QED BY <1>2, <1>3 DEF Alpha, SoundAlphas, BuiltAlphas

LEMMA UpToSound ==
  ASSUME FactoryInv, NEW names \in Seq(ToSet(Names)), NEW train \in BOOLEAN, NEW fatal
  PROVE  UpTo(names, train, fatal).alphas \in Seq(SoundAlphas)
  <1> DEFINE stops == {i \in DOMAIN names : Outcome(names[i], train) \in fatal}
             keep == {i \in DOMAIN names : /\ \A j \in stops : i < j
                                           /\ Outcome(names[i], train) = "nothing"}
             good == Select(names, keep)
             S == {n \in ToSet(Names) : Outcome(n, train) = "nothing"}
             alphas == [i \in DOMAIN good |-> Alpha(good[i], train)]
  <1>1. UpTo(names, train, fatal).alphas = alphas
    <2>1. UpTo(names, train, fatal) =
            [alphas |-> alphas,
             raised |-> IF stops = {} THEN "nothing" ELSE Outcome(names[Min(stops)], train)]
      BY Zenon DEF UpTo
    <2> HIDE DEF alphas, stops
    <2> QED BY <2>1
  <1>2. keep \subseteq 1..Len(names) /\ Len(names) \in Nat OBVIOUS
  <1>3. \A i \in keep : names[i] \in S OBVIOUS
  <1> HIDE DEF keep
  <1>4. keep \in SUBSET Nat /\ IsFiniteSet(keep)
    <2>1. IsFiniteSet(1..Len(names)) BY <1>2, FS_Interval
    <2>2. IsFiniteSet(keep) BY <1>2, <2>1, FS_Subset
    <2> QED BY <1>2, <2>2
  <1> HIDE DEF S
  <1>5. good \in Seq(S) BY <1>3, <1>4, SelectIn
  <1> HIDE DEF good
  <1>6. \A n \in S : Alpha(n, train) \in SoundAlphas BY AlphaSound DEF S
  <1>7. \A i \in DOMAIN good : good[i] \in S BY <1>5
  <1>8. alphas \in Seq(SoundAlphas)
    <2>1. DOMAIN good = 1..Len(good) /\ Len(good) \in Nat BY <1>5
    <2> QED BY <1>6, <1>7, <2>1
  <1> HIDE DEF alphas
  <1> QED BY <1>1, <1>8

LEMMA BuildStep ==
  ASSUME FactoryInv, NEW names \in Seq(ToSet(Names)), NEW train \in BOOLEAN, NEW fatal,
         Build(names, train, fatal)
  PROVE  FactoryInv'
  <1>1. created' = created \o UpTo(names, train, fatal).alphas /\ UNCHANGED <<registry, categories>>
    BY Zenon DEF Build
  <1>2. UpTo(names, train, fatal).alphas \in Seq(SoundAlphas) BY UpToSound
  <1>3. created' \in Seq(SoundAlphas) BY <1>1, <1>2 DEF FactoryInv
  <1>4. Registered' = Registered BY <1>1 DEF Registered
  <1> QED BY <1>1, <1>3, <1>4 DEF FactoryInv

(* An alpha of the factory in its later life.                              *)
LEMMA UpdateStep ==
  ASSUME FactoryInv, NEW i \in DOMAIN created, NEW alpha \in SoundAlphas, Update(i, alpha)
  PROVE  FactoryInv'
  <1>1. created' = [created EXCEPT ![i] = alpha] /\ UNCHANGED <<registry, categories>>
    BY DEF Update
  <1>2. created \in Seq(SoundAlphas) BY DEF FactoryInv
  <1>3. created' \in Seq(SoundAlphas) BY <1>1, <1>2
  <1>4. Registered' = Registered BY <1>1 DEF Registered
  <1> QED BY <1>1, <1>3, <1>4 DEF FactoryInv

LEMMA FactoryStep == ASSUME FactoryInv, [RegistryNext]_registryVars PROVE FactoryInv'
  <1>1. created \in Seq(SoundAlphas) BY DEF FactoryInv
  <1>2. ASSUME NEW name \in ToSet(Names), NEW class \in DOMAIN Classes,
               NEW category \in Categories, Register(name, class, category)
        PROVE  FactoryInv'
    BY <1>2 DEF Register, Put, FactoryInv, Registered
  <1>3. ASSUME NEW name \in ToSet(Names), Unregister(name) PROVE FactoryInv'
    BY <1>3 DEF Unregister, Pop, FactoryInv, Registered
  <1>4. CASE ClearRegistry
    BY <1>4 DEF ClearRegistry, EmptyDict, FactoryInv, Registered
  <1>5. ASSUME NEW name \in ToSet(Names), NEW train \in BOOLEAN, Create(name, train)
        PROVE  FactoryInv'
    <2>1. <<name>> \in Seq(ToSet(Names)) OBVIOUS
    <2>2. Build(<<name>>, train, Errors) BY <1>5 DEF Create
    <2> QED BY <2>1, <2>2, BuildStep
  <1>6. ASSUME NEW train \in BOOLEAN, CreateAll(Names, train) PROVE FactoryInv'
    <2>1. Names \in Seq(ToSet(Names)) BY RegistryAssumption
    <2>2. Build(Names, train, {"ValueError"}) BY <1>6 DEF CreateAll
    <2> QED BY <2>1, <2>2, BuildStep
  <1>7. ASSUME NEW train \in BOOLEAN, NEW category \in Categories,
               CreateByCategory(category, train)
        PROVE  FactoryInv'
    <2>1. ListByCategory(category) \in Seq({n \in Registered : categories[n] = category})
      BY ListedFacts
    <2>2. {n \in Registered : categories[n] = category} \subseteq ToSet(Names) BY DEF FactoryInv
    <2>3. ListByCategory(category) \in Seq(ToSet(Names)) BY <2>1, <2>2
    <2>4. Build(ListByCategory(category), train, Errors) BY <1>7 DEF CreateByCategory
    <2> QED BY <2>3, <2>4, BuildStep
  <1>8. CASE ClearFactory BY <1>8 DEF ClearFactory, FactoryInv, Registered
  <1>9. ASSUME NEW i \in DOMAIN created, Fit(i) \/ EmitSignal(i) \/ CacheMetrics(i) \/ Reset(i)
        PROVE  FactoryInv'
    <2>1. created[i] \in SoundAlphas BY <1>1, <1>9
    <2>2. ASSUME NEW alpha \in SoundAlphas, Update(i, alpha) PROVE FactoryInv'
      BY <1>9, <2>2, UpdateStep
    <2>3. CASE Fit(i)
      <3>1. [created[i] EXCEPT !.is_fitted = TRUE] \in SoundAlphas
        BY <2>1 DEF SoundAlphas, BuiltAlphas
      <3> QED BY <2>2, <2>3, <3>1 DEF Fit
    <2>4. CASE EmitSignal(i)
      <3>1. [created[i] EXCEPT !.signals = @ + 1] \in SoundAlphas
        BY <2>1 DEF SoundAlphas, BuiltAlphas
      <3> QED BY <2>2, <2>4, <3>1 DEF EmitSignal
    <2>5. CASE CacheMetrics(i)
      <3>1. [created[i] EXCEPT !.cached_metrics = TRUE] \in SoundAlphas
        BY <2>1 DEF SoundAlphas, BuiltAlphas
      <3> QED BY <2>2, <2>5, <3>1 DEF CacheMetrics
    <2>6. CASE Reset(i)
      <3>1. [created[i] EXCEPT !.signals = 0, !.cached_metrics = FALSE] \in SoundAlphas
        BY <2>1 DEF SoundAlphas, BuiltAlphas
      <3> QED BY <2>2, <2>6, <3>1 DEF Reset
    <2> QED BY <1>9, <2>3, <2>4, <2>5, <2>6
  <1>10. CASE UNCHANGED registryVars
    BY <1>10 DEF registryVars, FactoryInv, Registered
  <1> QED BY <1>2, <1>3, <1>4, <1>5, <1>6, <1>7, <1>8, <1>9, <1>10 DEF RegistryNext

LEMMA FactoryFree == ASSUME FactoryInv PROVE FactoryIsSound
  <1>1. ASSUME NEW c \in Categories
        PROVE  ToSet(ListByCategory(c)) = {n \in Registered : categories[n] = c}
    <2>1. ListByCategory(c) \in Seq({n \in Registered : categories[n] = c}) BY ListedFacts
    <2>2. \A n \in Registered : categories[n] = c =>
            \E k \in DOMAIN ListByCategory(c) : ListByCategory(c)[k] = n
      BY ListedFacts
    <2> QED BY <2>1, <2>2 DEF ToSet
  <1>2. ASSUME NEW c \in Categories
        PROVE  UpTo(ListByCategory(c), FALSE, {"KeyError"}).raised = "nothing"
    <2> DEFINE names == ListByCategory(c)
               stops == {i \in DOMAIN names : Outcome(names[i], FALSE) \in {"KeyError"}}
               raised == IF stops = {} THEN "nothing" ELSE Outcome(names[Min(stops)], FALSE)
    <2>1. names \in Seq({n \in Registered : categories[n] = c}) BY ListedFacts
    <2>2. \A n \in Registered : Outcome(n, FALSE) # "KeyError" BY DEF Outcome
    <2>3. stops = {}
      <3>1. \A i \in DOMAIN names : names[i] \in Registered BY <2>1
      <3>2. \A i \in DOMAIN names : Outcome(names[i], FALSE) # "KeyError" BY <2>2, <3>1
      <3> QED BY <3>2
    <2>4. UpTo(names, FALSE, {"KeyError"}).raised = raised
      BY DEF UpTo
    <2> HIDE DEF stops
    <2> QED BY <2>3, <2>4
  <1>3. UNION {ToSet(ListByCategory(c)) : c \in Categories} = Registered
    <2>1. \A n \in Registered : categories[n] \in Categories BY DEF FactoryInv
    <2>2. \A c \in Categories : ToSet(ListByCategory(c)) = {n \in Registered : categories[n] = c}
      BY <1>1
    <2> QED BY <2>1, <2>2
  <1>4. ASSUME NEW c \in Categories, NEW d \in Categories,
               NEW i \in DOMAIN ListByCategory(c), NEW j \in DOMAIN ListByCategory(d),
               ListByCategory(c)[i] = ListByCategory(d)[j]
        PROVE  c = d /\ i = j
    <2>1. ListByCategory(c) \in Seq({n \in Registered : categories[n] = c}) BY ListedFacts
    <2>2. ListByCategory(d) \in Seq({n \in Registered : categories[n] = d}) BY ListedFacts
    <2>3. c = d BY <1>4, <2>1, <2>2
    <2>4. \A k, l \in DOMAIN ListByCategory(c) :
            ListByCategory(c)[k] = ListByCategory(c)[l] => k = l
      BY ListedFacts
    <2> QED BY <1>4, <2>3, <2>4
  <1>5. \A i \in DOMAIN created :
          /\ Classes[created[i].class] # "TypeError"
          /\ created[i].trained_on =>
               created[i].is_fitted /\ Classes[created[i].class] = "nothing"
    <2>1. created \in Seq(SoundAlphas) BY DEF FactoryInv
    <2>2. \A i \in DOMAIN created : created[i] \in SoundAlphas BY <2>1
    <2> QED BY <2>2 DEF SoundAlphas
  <1>6. \A c \in Categories : ToSet(ListByCategory(c)) \subseteq Registered BY <1>1
  <1> QED BY <1>2, <1>3, <1>4, <1>5, <1>6 DEF FactoryIsSound

(* For any names, classes and categories, whatever is registered, removed  *)
(* and overwritten between the calls and wherever they raise: a category   *)
(* lists what can be looked up, each name once, and what the factory holds *)
(* could be built, and fitted if it was given data (AlphaRegistry).        *)
THEOREM RegistryCorrect == RegistrySpec => []FactoryIsSound
  <1>1. RegistryInit => FactoryInv BY FactoryStarts
  <1>2. FactoryInv /\ [RegistryNext]_registryVars => FactoryInv' BY FactoryStep
  <1>3. FactoryInv => FactoryIsSound BY FactoryFree
  <1> QED BY <1>1, <1>2, <1>3, PTL DEF RegistrySpec

(***************************************************************************)
(* How alphas are measured and compared (AlphaEvaluation).  The variables  *)
(* only keep their types; everything else is arithmetic on what they hold: *)
(* the cumulated returns, the partial order of the ranker, and the slope   *)
(* of ICs that only fall.                                                  *)
(***************************************************************************)
Objectives == [profit : Int, risk : Int]

LEMMA FrontierFacts ==
  ASSUME entries \in Seq(Objectives)
  PROVE  FrontierIsComplete
  <1>1. /\ DOMAIN entries = 1..Len(entries) /\ Len(entries) \in Nat
        /\ \A i \in DOMAIN entries : entries[i].profit \in Int /\ entries[i].risk \in Int
    <2>1. \A i \in 1..Len(entries) : entries[i] \in Objectives BY ElementOfSeq
    <2> QED BY <2>1, LenProperties DEF Objectives
  <1>2. PICK gain : gain = [i \in DOMAIN entries |-> entries[i].profit - entries[i].risk] OBVIOUS
  <1>3. ASSUME NEW i \in DOMAIN entries, i \notin ParetoFrontier
        PROVE  \E j \in ParetoFrontier : Dominates(entries[j], entries[i])
    <2>1. PICK D : D = {j \in DOMAIN entries : Dominates(entries[j], entries[i])} OBVIOUS
    <2>2. D # {} BY <1>3, <2>1 DEF ParetoFrontier
    <2>3. D \subseteq DOMAIN entries BY <2>1
    <2>4. IsFiniteSet(1..Len(entries)) BY <1>1, FS_Interval
    <2>5. IsFiniteSet(D) BY <1>1, <2>3, <2>4, FS_Subset
    <2>6. PICK g : g = [j \in D |-> gain[j]] OBVIOUS
    <2>7. g \in [D -> Int] BY <1>1, <1>2, <2>3, <2>6
    <2>8. PICK j \in D : \A k \in D : g[j] >= g[k]
      <3>1. Max({g[x] : x \in D}) \in {g[x] : x \in D} BY <2>2, <2>5, <2>7, ValuesExtremes
      <3>2. \A x \in D : Max({g[y] : y \in D}) >= g[x] BY <2>2, <2>5, <2>7, ValuesExtremes
      <3> QED BY <3>1, <3>2
    <2>9. Dominates(entries[j], entries[i]) /\ j \in DOMAIN entries BY <2>1
    <2>10. ASSUME NEW k \in DOMAIN entries, Dominates(entries[k], entries[j]) PROVE FALSE
      <3>1. Dominates(entries[k], entries[i]) /\ gain[k] > gain[j]
        BY <1>1, <1>2, <2>9, <2>10 DEF Dominates
      <3>2. k \in D BY <2>1, <3>1
      <3>3. g[k] = gain[k] /\ g[j] = gain[j] BY <2>6, <3>2
      <3>4. gain[k] \in Int /\ gain[j] \in Int BY <1>1, <1>2, <2>9
      <3> QED BY <2>8, <3>1, <3>2, <3>3, <3>4
    <2>11. j \in ParetoFrontier BY <2>9, <2>10 DEF ParetoFrontier
    <2> QED BY <2>9, <2>11
  <1>4. entries # <<>> => ParetoFrontier # {}
    <2>1. ASSUME entries # <<>> PROVE 1 \in DOMAIN entries BY <2>1, <1>1, EmptySeq
    <2> QED BY <1>3, <2>1
  <1>5. ASSUME NEW i \in DOMAIN entries \ ParetoFrontier
        PROVE  \E j \in ParetoFrontier : /\ entries[j].profit >= entries[i].profit
                                         /\ entries[j].risk <= entries[i].risk
                                         /\ entries[j] # entries[i]
    <2>1. PICK j \in ParetoFrontier : Dominates(entries[j], entries[i]) BY <1>3, <1>5
    <2>2. j \in DOMAIN entries BY <2>1 DEF ParetoFrontier
    <2>3. entries[j] # entries[i]
      <3>1. entries[j].profit # entries[i].profit \/ entries[j].risk # entries[i].risk
        BY <1>1, <2>1, <2>2 DEF Dominates
      <3> QED BY <3>1
    <2> QED BY <2>1, <2>3 DEF Dominates
  <1>6. ASSUME NEW i \in DOMAIN entries, NEW j \in DOMAIN entries,
               \/ entries[j].profit = entries[i].profit /\ entries[j].risk < entries[i].risk
               \/ entries[j].risk = entries[i].risk /\ entries[j].profit > entries[i].profit
        PROVE  i \notin ParetoFrontier
    <2>1. i # j BY <1>1, <1>6
    <2>2. Dominates(entries[j], entries[i]) BY <1>1, <1>6 DEF Dominates
    <2> QED BY <2>1, <2>2 DEF ParetoFrontier
  <1> QED BY <1>4, <1>5, <1>6, Zenon DEF FrontierIsComplete

----------------------------------------------------------------------------
(* What was observed, aligned.                                             *)
ObservedWell == observed \in Seq(Observations \cup {MissingRow})

LEMMA MissingIsNone == MissingRow \notin Observations
  <1>1. ASSUME MissingRow \in Observations PROVE FALSE
    <2>1. MissingRow \in Int \X Int BY <1>1, EvaluationAssumption
    <2>2. Len(MissingRow) = 3 BY DEF MissingRow
    <2>3. \A x \in Int \X Int : Len(x) = 2 OBVIOUS
    <2> QED BY <2>1, <2>2, <2>3
  <1> QED BY <1>1

LEMMA SignFacts ==
  ASSUME NEW x \in Int
  PROVE  /\ Sign(x) \in {-1, 0, 1} /\ Sign(x) \in Int
         /\ (Sign(x) >= 0 <=> x >= 0) /\ (Sign(x) <= 0 <=> x <= 0)
  BY DEF Sign

LEMMA AlignedFacts ==
  ASSUME ObservedWell
  PROVE  /\ Len(Aligned) \in Nat /\ DOMAIN Aligned = 1..Len(Aligned)
         /\ IsFiniteSet(1..Len(Aligned)) /\ Cardinality(1..Len(Aligned)) = Len(Aligned)
         /\ \A i \in 1..Len(Aligned) : Aligned[i][1] \in Int /\ Aligned[i][2] \in Int
         /\ DOMAIN SignalReturns = 1..Len(Aligned) /\ SignalReturns \in Amounts(1..Len(Aligned))
         /\ \A i \in 1..Len(Aligned) :
              SignalReturns[i] = Sign(Aligned[i][1]) * Aligned[i][2] /\ SignalReturns[i] \in Int
  <1>1. PICK keep : keep = {i \in DOMAIN observed : observed[i] # MissingRow} OBVIOUS
  <1>2. DOMAIN observed = 1..Len(observed) /\ Len(observed) \in Nat
    BY LenProperties DEF ObservedWell
  <1>3. keep \in SUBSET Nat /\ keep \subseteq 1..Len(observed) BY <1>1, <1>2
  <1>4. IsFiniteSet(1..Len(observed)) BY <1>2, FS_Interval
  <1>5. IsFiniteSet(keep) BY <1>3, <1>4, FS_Subset
  <1>6. \A i \in keep : observed[i] \in Int \X Int
    <2> TAKE i \in keep
    <2>1. observed[i] \in Observations \cup {MissingRow} BY <1>3, ElementOfSeq DEF ObservedWell
    <2> QED BY <1>1, <2>1, EvaluationAssumption
  <1>7. Aligned = Select(observed, keep) BY <1>1 DEF Aligned
  <1>8. Aligned \in Seq(Int \X Int) BY <1>3, <1>5, <1>6, <1>7, SelectIn
  <1>9. Len(Aligned) \in Nat /\ DOMAIN Aligned = 1..Len(Aligned) BY <1>8, LenProperties
  <1>10. \A i \in 1..Len(Aligned) : Aligned[i] \in Int \X Int BY <1>8, ElementOfSeq
  <1>11. \A i \in 1..Len(Aligned) : Aligned[i][1] \in Int /\ Aligned[i][2] \in Int BY <1>10
  <1>12. /\ DOMAIN SignalReturns = 1..Len(Aligned)
         /\ \A i \in 1..Len(Aligned) : SignalReturns[i] = Sign(Aligned[i][1]) * Aligned[i][2]
    BY <1>9 DEF SignalReturns
  <1>13. \A i \in 1..Len(Aligned) : SignalReturns[i] \in Int
    <2> TAKE i \in 1..Len(Aligned)
    <2>1. Sign(Aligned[i][1]) \in Int BY <1>11, SignFacts
    <2> QED BY <1>11, <1>12, <2>1
  <1>14. SignalReturns \in Amounts(1..Len(Aligned))
    <2>1. SignalReturns = [i \in 1..Len(Aligned) |-> SignalReturns[i]]
      BY <1>9 DEF SignalReturns
    <2> QED BY <1>13, <2>1 DEF Amounts
  <1>15. IsFiniteSet(1..Len(Aligned)) /\ Cardinality(1..Len(Aligned)) = Len(Aligned)
    <2>1. PICK n \in Nat : n = Len(Aligned) BY <1>9
    <2>2. IsFiniteSet(1..n) /\ Cardinality(1..n) = IF 1 > n THEN 0 ELSE n - 1 + 1 BY FS_Interval
    <2> QED BY <2>1, <2>2
  <1> QED BY <1>9, <1>11, <1>12, <1>13, <1>14, <1>15

LEMMA ProfitAndLoss ==
  ASSUME ObservedWell
  PROVE  /\ SignalProfit \in Int /\ SignalLoss \in Int /\ SignalLoss >= 0
         /\ SumFunction(SignalReturns) = SignalProfit - SignalLoss
         /\ SumFunction([i \in 1..Len(Aligned) |->
              IF SignalReturns[i] < 0 THEN SignalReturns[i] ELSE 0]) = -SignalLoss
         /\ (\A i \in 1..Len(Aligned) : SignalReturns[i] >= 0) => SignalLoss = 0
  <1>1. PICK n : n = Len(Aligned) OBVIOUS
  <1>2. PICK f : f = SignalReturns OBVIOUS
  <1>3. n \in Nat /\ DOMAIN f = 1..n /\ f \in Amounts(1..n) /\ IsFiniteSet(1..n)
    BY <1>1, <1>2, AlignedFacts
  <1>4. \A i \in 1..n : f[i] \in Int BY <1>3 DEF Amounts
  <1>5. PICK up : up = {i \in 1..n : f[i] > 0} OBVIOUS
  <1>6. PICK down : down = {i \in 1..n : f[i] < 0} OBVIOUS
  <1>7. up \in SUBSET (1..n) /\ down \in SUBSET (1..n) BY <1>5, <1>6
  <1>8. PICK g : g = [i \in 1..n |-> IF i \in up THEN f[i] ELSE 0] OBVIOUS
  <1>9. PICK h : h = [i \in 1..n |-> IF i \in down THEN f[i] ELSE 0] OBVIOUS
  <1>10. g \in Amounts(1..n) /\ SumFunction(g) = SumFunction(Restrict(f, up))
    BY <1>3, <1>7, <1>8, SumMasked
  <1>11. h \in Amounts(1..n) /\ SumFunction(h) = SumFunction(Restrict(f, down))
    BY <1>3, <1>7, <1>9, SumMasked
  <1>12. SignalProfit = SumFunction(g) BY <1>2, <1>3, <1>5, <1>10 DEF SignalProfit
  <1>13. SignalLoss = -SumFunction(h) BY <1>2, <1>3, <1>6, <1>11 DEF SignalLoss
  <1>14. SumFunction(g) \in Int /\ SumFunction(h) \in Int BY <1>3, <1>10, <1>11, SumType
  <1>15. \A i \in 1..n : f[i] = g[i] + h[i]
    BY <1>4, <1>5, <1>6, <1>8, <1>9
  <1>16. SumFunction(f) = SumFunction(g) + SumFunction(h) BY <1>3, <1>10, <1>11, <1>15, SumPlus
  <1>17. PICK none : none = [i \in 1..n |-> 0] OBVIOUS
  <1>18. none \in Amounts(1..n) /\ SumFunction(none) = n * 0
    <2>1. none \in Amounts(1..n) BY <1>17 DEF Amounts
    <2>2. \A i \in 1..n : none[i] = 0 BY <1>17
    <2> QED BY <1>3, <2>1, <2>2, SumConstant
  <1>19. SumFunction(h) <= SumFunction(none)
    <2>1. \A i \in 1..n : h[i] <= none[i] BY <1>4, <1>6, <1>9, <1>17
    <2> QED BY <1>3, <1>11, <1>18, <2>1, SumMonotone
  <1>20. SumFunction(h) <= 0 BY <1>3, <1>14, <1>18, <1>19
  <1>21. h = [i \in 1..n |-> IF f[i] < 0 THEN f[i] ELSE 0] BY <1>6, <1>9
  <1>22. ASSUME \A i \in 1..n : f[i] >= 0 PROVE SumFunction(h) = 0
    <2>1. \A i \in 1..n : h[i] = 0 BY <1>4, <1>6, <1>9, <1>22
    <2>2. SumFunction(h) = n * 0 BY <1>3, <1>11, <2>1, SumConstant
    <2> QED BY <1>3, <2>2
  <1> QED BY <1>1, <1>2, <1>12, <1>13, <1>14, <1>16, <1>20, <1>21, <1>22

(* The curve of the cumulated returns.                                     *)
LEMMA CurveFalls ==
  ASSUME ObservedWell, NEW i \in 1..Len(Aligned), NEW j \in 1..i
  PROVE  /\ CumSum(SignalReturns)[i] \in Int /\ CumSum(SignalReturns)[j] \in Int
         /\ CumSum(SignalReturns)[i] - CumSum(SignalReturns)[j] >= -SignalLoss
  <1>1. PICK S : S = 1..Len(Aligned) OBVIOUS
  <1>2. PICK f : f = SignalReturns OBVIOUS
  <1>3. DOMAIN f = S /\ f \in Amounts(S) /\ IsFiniteSet(S) BY <1>1, <1>2, AlignedFacts
  <1>4. PICK U : U = 1..i OBVIOUS
  <1>5. PICK T : T = 1..j OBVIOUS
  <1>6. Len(Aligned) \in Nat BY AlignedFacts
  <1>7. U \in SUBSET S /\ T \in SUBSET U /\ i \in S /\ j \in S BY <1>1, <1>4, <1>5, <1>6
  <1>8. /\ SumFunction(Restrict(f, U)) \in Int /\ SumFunction(Restrict(f, T)) \in Int
        /\ SumFunction(Restrict(f, U)) - SumFunction(Restrict(f, T))
              >= SumFunction([x \in S |-> IF f[x] < 0 THEN f[x] ELSE 0])
    BY <1>3, <1>7, SumOfMore
  <1>9. CumSum(f)[i] = SumFunction(Restrict(f, U)) /\ CumSum(f)[j] = SumFunction(Restrict(f, T))
    BY <1>3, <1>4, <1>5, <1>7 DEF CumSum
  <1>10. SumFunction([x \in S |-> IF f[x] < 0 THEN f[x] ELSE 0]) = -SignalLoss
    BY <1>1, <1>2, ProfitAndLoss
  <1> QED BY <1>2, <1>8, <1>9, <1>10

LEMMA CurveEnds ==
  ASSUME ObservedWell, Len(Aligned) >= 1
  PROVE  /\ CumSum(SignalReturns)[1] = SignalReturns[1]
         /\ CumSum(SignalReturns)[Len(Aligned)] = SignalProfit - SignalLoss
  <1>1. PICK n : n = Len(Aligned) OBVIOUS
  <1>2. PICK f : f = SignalReturns OBVIOUS
  <1>3. /\ n \in Nat /\ n >= 1 /\ DOMAIN f = 1..n /\ f \in Amounts(1..n) /\ IsFiniteSet(1..n)
        /\ 1 \in 1..n /\ n \in 1..n
    BY <1>1, <1>2, AlignedFacts
  <1>4. CumSum(f)[1] = SumFunction(Restrict(f, 1..1)) /\ CumSum(f)[n] = SumFunction(Restrict(f, 1..n))
    BY <1>3 DEF CumSum
  <1>5. Restrict(f, 1..n) = f BY <1>3, SumOfNone
  <1>6. SumFunction(Restrict(f, 1..1)) = f[1]
    <2>1. Restrict(f, 1..1) \in Amounts({1})
      <3>1. 1..1 = {1} OBVIOUS
      <3>2. f[1] \in Int BY <1>3 DEF Amounts
      <3> QED BY <3>1, <3>2 DEF Amounts, Restrict
    <2>2. PICK g : g = Restrict(f, 1..1) OBVIOUS
    <2>3. \A x \in {1} : g[x] = f[1] BY <2>2 DEF Restrict
    <2>4. IsFiniteSet({1}) /\ Cardinality({1}) = 1 BY FS_Singleton
    <2>5. f[1] \in Int BY <1>3 DEF Amounts
    <2>6. SumFunction(g) = Cardinality({1}) * f[1] BY <2>1, <2>2, <2>3, <2>4, <2>5, SumEqual
    <2> QED BY <2>2, <2>4, <2>5, <2>6
  <1>7. SumFunction(f) = SignalProfit - SignalLoss BY <1>2, ProfitAndLoss
  <1> QED BY <1>1, <1>2, <1>4, <1>5, <1>6, <1>7

LEMMA DrawdownFacts ==
  ASSUME ObservedWell, Len(Aligned) >= 1
  PROVE  /\ SignalDrawdown \in Int /\ SignalDrawdown >= 0 /\ SignalDrawdown <= SignalLoss
         /\ SignalDrawdown >= SignalLoss - SignalProfit + SignalReturns[1]
  <1>1. PICK n : n = Len(Aligned) OBVIOUS
  <1>2. n \in Nat /\ n >= 1 /\ IsFiniteSet(1..n) /\ DOMAIN SignalReturns = 1..n
    BY <1>1, AlignedFacts
  <1>3. PICK pnl : pnl = CumSum(SignalReturns) OBVIOUS
  <1>4. DOMAIN pnl = 1..n BY <1>2, <1>3 DEF CumSum
  <1>5. \A i \in 1..n : \A j \in 1..i :
          pnl[i] \in Int /\ pnl[j] \in Int /\ pnl[i] - pnl[j] >= -SignalLoss
    BY <1>1, <1>3, CurveFalls
  <1>6. \A i \in 1..n : pnl[i] \in Int BY <1>5
  <1>7. PICK top : top = [i \in 1..n |-> Max({pnl[j] : j \in 1..i})] OBVIOUS
  <1>8. ASSUME NEW i \in 1..n
        PROVE  /\ top[i] \in Int /\ \E j \in 1..i : top[i] = pnl[j]
               /\ \A j \in 1..i : top[i] >= pnl[j]
    <2>1. PICK g : g = [j \in 1..i |-> pnl[j]] OBVIOUS
    <2>2. IsFiniteSet(1..i) /\ 1..i # {}
      <3>1. 1 \in Int /\ i \in Int /\ i >= 1 BY <1>2
      <3>2. IsFiniteSet(1..i) BY <3>1, FS_Interval
      <3> QED BY <3>1, <3>2
    <2>3. 1..i \subseteq 1..n BY <1>2
    <2>4. g \in [1..i -> Int] BY <1>6, <2>1, <2>3
    <2>5. {g[j] : j \in 1..i} = {pnl[j] : j \in 1..i} BY <2>1
    <2>6. top[i] = Max({g[j] : j \in 1..i}) BY <1>7, <2>5
    <2>7. /\ Max({g[x] : x \in 1..i}) \in {g[x] : x \in 1..i} /\ Max({g[x] : x \in 1..i}) \in Int
          /\ \A x \in 1..i : Max({g[y] : y \in 1..i}) >= g[x]
      BY <2>2, <2>4, ValuesExtremes
    <2> QED BY <2>1, <2>6, <2>7
  <1>9. PICK fall : fall = [i \in 1..n |-> pnl[i] - top[i]] OBVIOUS
  <1>10. fall \in [1..n -> Int] /\ 1..n # {}
    <2>1. \A i \in 1..n : pnl[i] - top[i] \in Int
      <3> TAKE i \in 1..n
      <3>1. pnl[i] \in Int /\ top[i] \in Int BY <1>6, <1>8
      <3> QED BY <3>1
    <2>2. 1 \in 1..n BY <1>2
    <2> QED BY <1>9, <2>1, <2>2
  <1>11. {fall[i] : i \in 1..n} = {pnl[i] - Max({pnl[j] : j \in 1..i}) : i \in DOMAIN pnl}
    <2>1. \A i \in 1..n : fall[i] = pnl[i] - Max({pnl[j] : j \in 1..i}) BY <1>7, <1>9, Zenon
    <2> QED BY <1>4, <2>1, Zenon
  <1>12. PICK least : least = Min({fall[x] : x \in 1..n}) OBVIOUS
  <1>13. SignalDrawdown = -least
    <2>1. SignalDrawdown = -Min({pnl[i] - Max({pnl[j] : j \in 1..i}) : i \in DOMAIN pnl})
      BY <1>3, Zenon DEF SignalDrawdown
    <2> QED BY <1>11, <1>12, <2>1
  <1>14. /\ least \in Int /\ least \in {fall[x] : x \in 1..n}
         /\ \A x \in 1..n : least <= fall[x]
    BY <1>2, <1>10, <1>12, ValuesExtremes
  <1>15. PICK i \in 1..n : least = fall[i] BY <1>14
  <1>16. SignalLoss \in Int /\ SignalProfit \in Int BY ProfitAndLoss
  <1>17. least >= -SignalLoss
    <2>1. PICK j \in 1..i : top[i] = pnl[j] BY <1>8
    <2> QED BY <1>5, <1>9, <1>15, <2>1
  <1>18. least <= 0
    <2>1. 1 \in 1..n /\ 1 \in 1..1 BY <1>2
    <2>2. top[1] >= pnl[1] /\ top[1] \in Int BY <1>8, <2>1
    <2> QED BY <1>6, <1>9, <1>14, <2>1, <2>2
  <1>19. least <= SignalProfit - SignalLoss - SignalReturns[1]
    <2>1. n \in 1..n /\ 1 \in 1..n BY <1>2
    <2>2. top[n] \in Int /\ top[n] >= pnl[1] BY <1>8, <2>1
    <2>3. pnl[1] = SignalReturns[1] /\ pnl[n] = SignalProfit - SignalLoss
      BY <1>1, <1>3, CurveEnds
    <2>4. fall[n] = pnl[n] - top[n] /\ least <= fall[n] BY <1>9, <1>14, <2>1
    <2>5. pnl[1] \in Int /\ pnl[n] \in Int BY <1>6, <2>1
    <2> QED BY <1>14, <2>2, <2>3, <2>4, <2>5
  <1>20. SignalReturns[1] \in Int BY <1>1, <1>2, AlignedFacts
  <1> QED BY <1>13, <1>14, <1>16, <1>17, <1>18, <1>19, <1>20

LEMMA AlwaysRight ==
  ASSUME ObservedWell, Len(Aligned) >= 1,
         Cardinality({i \in DOMAIN Aligned : Sign(Aligned[i][1]) * Sign(Aligned[i][2]) = 1}) = Len(Aligned)
  PROVE  SignalDrawdown = 0 /\ SignalLoss = 0
  <1>1. PICK S : S = 1..Len(Aligned) OBVIOUS
  <1>2. PICK T : T = {i \in S : Sign(Aligned[i][1]) * Sign(Aligned[i][2]) = 1} OBVIOUS
  <1>3. DOMAIN Aligned = S /\ IsFiniteSet(S) /\ Cardinality(S) = Len(Aligned) BY <1>1, AlignedFacts
  <1>4. T \in SUBSET S /\ Cardinality(T) = Cardinality(S) BY <1>2, <1>3
  <1>5. T = S BY <1>3, <1>4, FS_Subset
  <1>6. \A i \in S : SignalReturns[i] >= 0
    <2> TAKE i \in S
    <2>1. Sign(Aligned[i][1]) * Sign(Aligned[i][2]) = 1 BY <1>2, <1>5
    <2>2. Aligned[i][1] \in Int /\ Aligned[i][2] \in Int BY <1>1, AlignedFacts
    <2>3. SignalReturns[i] = Sign(Aligned[i][1]) * Aligned[i][2] BY <1>1, AlignedFacts
    <2>4. PICK x \in Int : x = Aligned[i][1] BY <2>2
    <2>5. PICK y \in Int : y = Aligned[i][2] BY <2>2
    <2>6. Sign(x) * y >= 0 BY <2>1, <2>4, <2>5 DEF Sign
    <2> QED BY <2>3, <2>4, <2>5, <2>6
  <1>7. SignalLoss = 0 BY <1>1, <1>6, ProfitAndLoss
  <1> QED BY <1>7, DrawdownFacts

(* The number of elements of a part, as a sum.                             *)
LEMMA SumOfOnes ==
  ASSUME NEW S, IsFiniteSet(S), NEW K \in SUBSET S,
         NEW f \in Amounts(S), \A x \in S : f[x] = IF x \in K THEN 1 ELSE 0
  PROVE  SumFunction(f) = Cardinality(K) /\ Cardinality(K) \in Nat
  <1>1. IsFiniteSet(K) BY FS_Subset
  <1>2. Cardinality(K) \in Nat BY <1>1, FS_CardinalityType
  <1>3. SumFunction(f) = SumFunction(Restrict(f, K))
    <2>1. \A x \in S \ K : f[x] = 0 OBVIOUS
    <2> QED BY <2>1, SumSupport
  <1>4. PICK r : r = Restrict(f, K) OBVIOUS
  <1>5. \A x \in K : r[x] = 1 BY <1>4 DEF Restrict
  <1>6. r = [x \in K |-> r[x]] BY <1>4 DEF Restrict
  <1>7. r \in Amounts(K) BY <1>5, <1>6 DEF Amounts
  <1>8. SumFunction(r) = Cardinality(K) * 1 BY <1>1, <1>5, <1>7, SumEqual
  <1> QED BY <1>2, <1>3, <1>4, <1>8

LEMMA TurnoverFacts ==
  ASSUME ObservedWell, Len(Aligned) >= 1,
         NEW K, K = {i \in DOMAIN Aligned : DirectionChanges[i] > 0}
  PROVE  /\ SumFunction(DirectionChanges) = Cardinality(K) + Cardinality(Reversals)
         /\ SumFunction(DirectionChanges) \in Int /\ Cardinality(K) \in Nat
         /\ Cardinality(K) = 0 <=>
              \A i, j \in DOMAIN Aligned : Sign(Aligned[i][1]) = Sign(Aligned[j][1])
  <1>1. PICK n \in Nat \ {0} : n = Len(Aligned)
    <2>1. Len(Aligned) \in Nat BY AlignedFacts
    <2> QED BY <2>1
  <1>2. PICK S : S = 1..n OBVIOUS
  <1>3. DOMAIN Aligned = S /\ IsFiniteSet(S) BY <1>1, <1>2, AlignedFacts
  <1>4. PICK d : d = [i \in S |-> Sign(Aligned[i][1])] OBVIOUS
  <1>5. \A i \in S : d[i] \in {-1, 0, 1}
    <2> TAKE i \in S
    <2>1. Aligned[i][1] \in Int BY <1>1, <1>2, AlignedFacts
    <2> QED BY <1>4, <2>1, SignFacts
  <1>6. PICK c : c = DirectionChanges OBVIOUS
  <1>7. c = [i \in S |-> IF i = 1 THEN 0
                         ELSE Absolute(Sign(Aligned[i][1]) - Sign(Aligned[i - 1][1]))]
    BY <1>3, <1>6 DEF DirectionChanges
  <1>8. PICK R : R = Reversals OBVIOUS
  <1>9. K \in SUBSET S /\ R \in SUBSET S BY <1>1, <1>2, <1>3, <1>8 DEF Reversals
  <1>10. ASSUME NEW i \in S
         PROVE  /\ c[i] = (IF i \in K THEN 1 ELSE 0) + (IF i \in R THEN 1 ELSE 0)
                /\ i # 1 => (i \notin K <=> d[i] = d[i - 1])
                /\ i = 1 => i \notin K
    <2>1. CASE i = 1
      <3>1. c[i] = 0 BY <1>7, <2>1
      <3>2. i \notin K BY <1>6, <3>1
      <3>3. i \notin R BY <1>8, <2>1 DEF Reversals
      <3> QED BY <2>1, <3>1, <3>2, <3>3
    <2>2. CASE i # 1
      <3>1. i \in 2..n /\ i - 1 \in S BY <1>2, <2>2
      <3>2. PICK x \in {-1, 0, 1} : x = d[i] BY <1>5
      <3>3. PICK y \in {-1, 0, 1} : y = d[i - 1] BY <1>5, <3>1
      <3>4. Sign(Aligned[i][1]) = x /\ Sign(Aligned[i - 1][1]) = y BY <1>4, <3>1, <3>2, <3>3
      <3>5. c[i] = Absolute(x - y) BY <1>7, <2>2, <3>4
      <3>6. i \in R <=> x * y = -1 BY <1>1, <1>8, <3>1, <3>4 DEF Reversals
      <3>7. i \in K <=> Absolute(x - y) > 0 BY <1>3, <1>6, <3>5
      <3>8. Absolute(x - y) = (IF Absolute(x - y) > 0 THEN 1 ELSE 0) + (IF x * y = -1 THEN 1 ELSE 0)
        BY DEF Absolute
      <3>9. ~(Absolute(x - y) > 0) <=> x = y BY DEF Absolute
      <3> QED BY <2>2, <3>2, <3>3, <3>5, <3>6, <3>7, <3>8, <3>9
    <2> QED BY <2>1, <2>2
  <1>11. PICK f : f = [i \in S |-> IF i \in K THEN 1 ELSE 0] OBVIOUS
  <1>12. PICK h : h = [i \in S |-> IF i \in R THEN 1 ELSE 0] OBVIOUS
  <1>13. f \in Amounts(S) /\ h \in Amounts(S) BY <1>11, <1>12 DEF Amounts
  <1>14. \A i \in S : c[i] = f[i] + h[i] BY <1>10, <1>11, <1>12
  <1>15. c \in Amounts(S)
    <2>1. c = [i \in S |-> c[i]] BY <1>7
    <2>2. \A i \in S : c[i] \in Int BY <1>10
    <2> QED BY <2>1, <2>2 DEF Amounts
  <1>16. SumFunction(c) = SumFunction(f) + SumFunction(h) BY <1>3, <1>13, <1>14, <1>15, SumPlus
  <1>17. SumFunction(f) = Cardinality(K) /\ Cardinality(K) \in Nat
    BY <1>3, <1>9, <1>11, <1>13, SumOfOnes
  <1>18. SumFunction(h) = Cardinality(R) /\ Cardinality(R) \in Nat
    BY <1>3, <1>9, <1>12, <1>13, SumOfOnes
  <1>19. Cardinality(K) = 0 <=> K = {}
    <2>1. IsFiniteSet(K) BY <1>3, <1>9, FS_Subset
    <2> QED BY <2>1, FS_EmptySet
  <1>20. ASSUME K = {} PROVE \A i, j \in S : d[i] = d[j]
    <2>1. PICK D : D = {m \in Nat : m + 1 \in S => d[m + 1] = d[1]} OBVIOUS
    <2>2. 0 \in D BY <2>1
    <2>3. ASSUME NEW m \in Nat, m \in D PROVE m + 1 \in D
      <3>1. PICK i \in Nat : i = m + 2 OBVIOUS
      <3>2. ASSUME i \in S PROVE d[i] = d[1]
        <4>1. i # 1 /\ i - 1 = m + 1 /\ m + 1 \in S BY <1>2, <3>1, <3>2
        <4>2. d[i] = d[i - 1] BY <1>10, <1>20, <3>2, <4>1
        <4> QED BY <2>1, <2>3, <4>1, <4>2
      <3>3. m + 1 + 1 = i BY <3>1
      <3> QED BY <2>1, <3>2, <3>3
    <2>4. Nat \subseteq D BY <2>2, <2>3, NatSetInduction
    <2>5. \A i \in S : d[i] = d[1]
      <3> TAKE i \in S
      <3>1. i - 1 \in D /\ i - 1 + 1 = i BY <1>2, <2>4
      <3> QED BY <2>1, <3>1
    <2> QED BY <2>5
  <1>21. ASSUME \A i, j \in S : d[i] = d[j] PROVE K = {}
    <2>1. ASSUME NEW i \in K PROVE FALSE
      <3>1. i \in S /\ (i # 1 => i - 1 \in S) BY <1>2, <1>9
      <3> QED BY <1>10, <1>21, <3>1
    <2> QED BY <2>1
  <1>22. (\A i, j \in S : d[i] = d[j])
           <=> \A i, j \in DOMAIN Aligned : Sign(Aligned[i][1]) = Sign(Aligned[j][1])
    BY <1>3, <1>4
  <1> QED BY <1>6, <1>8, <1>16, <1>17, <1>18, <1>19, <1>20, <1>21, <1>22

LEMMA FactorFacts ==
  ASSUME NEW p \in Int, NEW l \in Int, l > 0
  PROVE  /\ (100 * p) \div l > 100 => p > l
         /\ (100 * p) \div l < 100 => p < l
         /\ (100 * p) \div l \in Int
  <1>1. PICK q : q = (100 * p) \div l OBVIOUS
  <1>2. q \in Int /\ l * q <= 100 * p /\ 100 * p < l * q + l BY <1>1, DivFloor
  <1>3. ASSUME q > 100 PROVE p > l
    <2>1. l * 101 <= l * q BY <1>2, <1>3, TimesOrdered
    <2> QED BY <1>2, <2>1
  <1>4. ASSUME q < 100 PROVE p < l
    <2>1. l * q <= l * 99 BY <1>2, <1>4, TimesOrdered
    <2> QED BY <1>2, <2>1
  <1> QED BY <1>1, <1>2, <1>3, <1>4

LEMMA SharpeFacts ==
  ASSUME ObservedWell
  PROVE  /\ SharpeSign \in {-1, 0, 1}
         /\ SignalProfit > SignalLoss => SharpeSign >= 0
         /\ SignalProfit < SignalLoss => SharpeSign <= 0
  <1>1. /\ SignalProfit \in Int /\ SignalLoss \in Int
        /\ SumFunction(SignalReturns) = SignalProfit - SignalLoss
    BY ProfitAndLoss
  <1> QED BY <1>1 DEF SharpeSign, Sign

LEMMA Measured5 ==
  ASSUME ObservedWell
  PROVE  /\ FromPredictions.profit_factor \in Int /\ FromPredictions.drawdown \in Int
         /\ Len(Aligned) >= 5 =>
              /\ FromPredictions.sharpe = SharpeSign
              /\ FromPredictions.hits = Cardinality({i \in DOMAIN Aligned :
                   Sign(Aligned[i][1]) * Sign(Aligned[i][2]) = 1})
              /\ FromPredictions.profit_factor =
                   IF SignalLoss > 0 THEN (100 * SignalProfit) \div SignalLoss ELSE 99900
              /\ FromPredictions.drawdown = SignalDrawdown
              /\ FromPredictions.calmar = IF SignalDrawdown > 0 THEN SharpeSign ELSE 0
              /\ FromPredictions.turnover = SumFunction(DirectionChanges)
              /\ FromPredictions.n_signals = Cardinality({i \in DOMAIN Aligned : DirectionChanges[i] > 0})
  <1>1. Len(Aligned) \in Nat BY AlignedFacts
  <1>2. CASE Len(Aligned) < 5
    <2>1. FromPredictions = Unmeasured BY <1>2 DEF FromPredictions
    <2> QED BY <1>1, <1>2, <2>1 DEF Unmeasured
  <1>3. CASE ~(Len(Aligned) < 5)
    <2>1. /\ FromPredictions.sharpe = SharpeSign
          /\ FromPredictions.hits = Cardinality({i \in DOMAIN Aligned :
                   Sign(Aligned[i][1]) * Sign(Aligned[i][2]) = 1})
          /\ FromPredictions.profit_factor =
                   IF SignalLoss > 0 THEN (100 * SignalProfit) \div SignalLoss ELSE 99900
          /\ FromPredictions.drawdown = SignalDrawdown
          /\ FromPredictions.calmar = IF SignalDrawdown > 0 THEN SharpeSign ELSE 0
          /\ FromPredictions.turnover = SumFunction(DirectionChanges)
          /\ FromPredictions.n_signals = Cardinality({i \in DOMAIN Aligned : DirectionChanges[i] > 0})
      BY <1>3 DEF FromPredictions
    <2>2. SignalDrawdown \in Int BY <1>1, <1>3, DrawdownFacts
    <2>3. SignalProfit \in Int /\ SignalLoss \in Int BY ProfitAndLoss
    <2>4. FromPredictions.profit_factor \in Int BY <2>1, <2>3, FactorFacts
    <2> QED BY <2>1, <2>2, <2>4
  <1> QED BY <1>2, <1>3

LEMMA MetricsFacts == ASSUME ObservedWell PROVE MetricsAgree
  <1> SUFFICES ASSUME Len(Aligned) >= 5 PROVE MetricsAgree BY DEF MetricsAgree
  <1>1. PICK m : m = FromPredictions OBVIOUS
  <1>2. /\ m.sharpe = SharpeSign
        /\ m.hits = Cardinality({i \in DOMAIN Aligned : Sign(Aligned[i][1]) * Sign(Aligned[i][2]) = 1})
        /\ m.profit_factor = IF SignalLoss > 0 THEN (100 * SignalProfit) \div SignalLoss ELSE 99900
        /\ m.drawdown = SignalDrawdown
        /\ m.calmar = IF SignalDrawdown > 0 THEN SharpeSign ELSE 0
        /\ m.turnover = SumFunction(DirectionChanges)
        /\ m.n_signals = Cardinality({i \in DOMAIN Aligned : DirectionChanges[i] > 0})
    BY <1>1, Measured5
  <1>3. Len(Aligned) \in Nat /\ Len(Aligned) >= 1 BY AlignedFacts
  <1>4. SignalProfit \in Int /\ SignalLoss \in Int BY ProfitAndLoss
  <1>5. SignalReturns[1] \in Int
    <2>1. 1 \in 1..Len(Aligned) BY <1>3
    <2> QED BY <2>1, AlignedFacts
  <1>6. /\ SignalDrawdown \in Int /\ SignalDrawdown >= 0 /\ SignalDrawdown <= SignalLoss
        /\ SignalDrawdown >= SignalLoss - SignalProfit + SignalReturns[1]
    BY <1>3, DrawdownFacts
  <1>7. SignalLoss > 0 =>
          /\ m.profit_factor > 100 => SignalProfit > SignalLoss /\ m.sharpe >= 0
          /\ m.profit_factor < 100 => SignalProfit < SignalLoss /\ m.sharpe <= 0
    BY <1>2, <1>4, FactorFacts, SharpeFacts
  <1>8. m.drawdown >= SignalLoss - SignalProfit + Min({0, SignalReturns[1]})
    <2>1. Min({0, SignalReturns[1]}) = IF 0 <= SignalReturns[1] THEN 0 ELSE SignalReturns[1]
      BY <1>5, LesserOfTwo
    <2> QED BY <1>2, <1>4, <1>5, <1>6, <2>1
  <1>9. m.hits = Len(Aligned) => m.drawdown = 0 /\ SignalLoss = 0 BY <1>2, <1>3, AlwaysRight
  <1>10. m.calmar * m.sharpe >= 0
    <2>1. SharpeSign \in {-1, 0, 1} BY SharpeFacts
    <2> QED BY <1>2, <2>1
  <1>11. /\ m.turnover = m.n_signals + Cardinality(Reversals)
         /\ m.n_signals = 0 <=>
              \A i, j \in DOMAIN Aligned : Sign(Aligned[i][1]) = Sign(Aligned[j][1])
    BY <1>2, <1>3, TurnoverFacts
  <1>12. m.drawdown <= SignalLoss BY <1>2, <1>6
  <1> QED BY <1>1, <1>7, <1>8, <1>9, <1>10, <1>11, <1>12, Zenon DEF MetricsAgree

----------------------------------------------------------------------------
(* What compute_ic_decay found, as long as the lags go.                    *)
DecayWell == ic_by_lag \in Seq(Exponents \cup {NoIc, NotANumber}) /\ Len(ic_by_lag) <= MaxLag + 1

LEMMA IcFacts ==
  ASSUME DecayWell
  PROVE  /\ Len(ic_by_lag) \in Nat /\ DOMAIN ic_by_lag = 1..Len(ic_by_lag)
         /\ IsFiniteSet(DOMAIN ic_by_lag) /\ Cardinality(DOMAIN ic_by_lag) = Len(ic_by_lag)
         /\ \A i \in DOMAIN ic_by_lag : ic_by_lag[i] \in Int
  <1>1. Len(ic_by_lag) \in Nat /\ DOMAIN ic_by_lag = 1..Len(ic_by_lag)
    BY LenProperties DEF DecayWell
  <1>2. IsFiniteSet(1..Len(ic_by_lag)) /\ Cardinality(1..Len(ic_by_lag)) = Len(ic_by_lag)
    <2>1. PICK n \in Nat : n = Len(ic_by_lag) BY <1>1
    <2>2. IsFiniteSet(1..n) /\ Cardinality(1..n) = IF 1 > n THEN 0 ELSE n - 1 + 1 BY FS_Interval
    <2> QED BY <2>1, <2>2
  <1>3. \A i \in 1..Len(ic_by_lag) : ic_by_lag[i] \in Exponents \cup {NoIc, NotANumber}
    BY ElementOfSeq DEF DecayWell
  <1>4. \A e \in Exponents : e \in Int BY EvaluationAssumption
  <1>5. NoIc \in Int /\ NotANumber \in Int BY DEF NoIc, NotANumber
  <1> QED BY <1>1, <1>2, <1>3, <1>4, <1>5

LEMMA FallsOn ==
  ASSUME DecayWell, OnlyFalls
  PROVE  \A i, j \in DOMAIN ic_by_lag : i <= j => ic_by_lag[j] <= ic_by_lag[i]
  <1>1. PICK n : n = Len(ic_by_lag) OBVIOUS
  <1>2. n \in Nat /\ DOMAIN ic_by_lag = 1..n /\ \A i \in 1..n : ic_by_lag[i] \in Int
    BY <1>1, IcFacts
  <1>3. PICK D : D = {d \in Nat : \A i \in 1..n : i + d <= n => ic_by_lag[i + d] <= ic_by_lag[i]}
    OBVIOUS
  <1>4. 0 \in D BY <1>2, <1>3
  <1>5. \A d \in Nat : d \in D => d + 1 \in D
    <2>1. SUFFICES ASSUME NEW d \in Nat, d \in D PROVE d + 1 \in D OBVIOUS
    <2>2. PICK e \in Nat : e = d + 1 OBVIOUS
    <2>3. ASSUME NEW i \in 1..n, i + e <= n PROVE ic_by_lag[i + e] <= ic_by_lag[i]
      <3>1. i + d <= n BY <1>2, <2>2, <2>3
      <3>2. ic_by_lag[i + d] <= ic_by_lag[i] BY <1>3, <2>1, <3>1
      <3>3. PICK k : k = i + e OBVIOUS
      <3>4. k \in 2..n /\ k - 1 = i + d /\ k \in 1..n /\ k - 1 \in 1..n
        BY <1>2, <2>2, <2>3, <3>3
      <3>5. ic_by_lag[k] <= ic_by_lag[k - 1] BY <1>1, <3>4 DEF OnlyFalls
      <3> QED BY <1>2, <3>2, <3>3, <3>4, <3>5
    <2>4. e \in D BY <1>3, <2>3
    <2> QED BY <2>2, <2>4
  <1>6. Nat \subseteq D BY <1>4, <1>5, NatSetInduction
  <1>7. ASSUME NEW i \in 1..n, NEW j \in 1..n, i <= j PROVE ic_by_lag[j] <= ic_by_lag[i]
    <2>1. j - i \in Nat /\ i + (j - i) = j BY <1>2, <1>7
    <2>2. j - i \in D BY <1>6, <2>1
    <2> QED BY <1>3, <1>2, <2>1, <2>2
  <1> QED BY <1>2, <1>7

LEMMA HalflifeFacts ==
  ASSUME DecayWell, OnlyFalls, Len(ic_by_lag) >= 3
  PROVE  /\ PeakIc = ic_by_lag[1]
         /\ EstimateHalflife = IF PeakIc = NoIc THEN 0
                               ELSE IF Faded = {} THEN PositiveInfinity ELSE Min(Faded) - 1
         /\ Faded # {} => /\ Min(Faded) \in Faded /\ Min(Faded) \in Nat
                          /\ \A i \in Faded : Min(Faded) <= i
  <1>1. PICK D : D = DOMAIN ic_by_lag OBVIOUS
  <1>2. D = 1..Len(ic_by_lag) /\ Len(ic_by_lag) \in Nat /\ 1 \in D /\ IsFiniteSet(D) BY <1>1, IcFacts
  <1>3. \A i \in D : ic_by_lag[i] \in Int /\ ic_by_lag[1] >= ic_by_lag[i]
    <2> TAKE i \in D
    <2>1. 1 <= i BY <1>2
    <2>2. ic_by_lag[i] <= ic_by_lag[1] BY <1>1, <1>2, <2>1, FallsOn
    <2> QED BY <1>1, <1>2, <2>2, IcFacts
  <1>4. PICK V : V = {ic_by_lag[lag] : lag \in D} OBVIOUS
  <1>5. V \subseteq Int /\ ic_by_lag[1] \in V /\ \A y \in V : ic_by_lag[1] >= y BY <1>2, <1>3, <1>4
  <1>6. Max(V) = ic_by_lag[1] BY <1>5, ExtremeIs
  <1>7. PeakIc = ic_by_lag[1] BY <1>1, <1>2, <1>4, <1>6 DEF PeakIc, OnlyFalls
  <1>8. ic_by_lag # <<>> BY <1>2
  <1>9. EstimateHalflife = IF PeakIc = NoIc THEN 0
                           ELSE IF Faded = {} THEN PositiveInfinity ELSE Min(Faded) - 1
    BY <1>8, SMT DEF EstimateHalflife
  <1>10. Faded \subseteq D BY <1>1 DEF Faded
  <1>11. ASSUME Faded # {}
         PROVE  Min(Faded) \in Faded /\ Min(Faded) \in Nat /\ \A i \in Faded : Min(Faded) <= i
    <2>1. IsFiniteSet(Faded) BY <1>2, <1>10, FS_Subset
    <2>2. Faded \subseteq Int BY <1>2, <1>10
    <2>3. Min(Faded) \in Faded /\ \A i \in Faded : Min(Faded) <= i BY <1>11, <2>1, <2>2, LeastIn
    <2>4. PICK m : m = Min(Faded) OBVIOUS
    <2>5. m \in D BY <1>10, <2>3, <2>4
    <2>6. m \in Nat BY <1>2, <2>5
    <2> QED BY <2>3, <2>4, <2>6
  <1> QED BY <1>7, <1>9, <1>11

LEMMA BeforeHalflife ==
  ASSUME DecayWell, OnlyFalls, Len(ic_by_lag) >= 3, NEW i \in DOMAIN ic_by_lag
  PROVE  i - 1 < EstimateHalflife <=> ic_by_lag[1] # NoIc /\ ic_by_lag[i] >= ic_by_lag[1] - 1
  <1>1. PICK x : x = ic_by_lag OBVIOUS
  <1>2. PICK D : D = DOMAIN x OBVIOUS
  <1>3. D = 1..Len(x) /\ Len(x) \in Nat /\ 1 \in D /\ i \in D /\ \A k \in D : x[k] \in Int
    BY <1>1, <1>2, IcFacts
  <1>4. PeakIc = x[1] BY <1>1, HalflifeFacts
  <1>5. \A k \in D : k \in Faded <=> x[k] < x[1] - 1
    BY <1>1, <1>2, <1>4 DEF Faded, OnlyFalls
  <1>6. CASE x[1] = NoIc
    <2>1. EstimateHalflife = 0 BY <1>4, <1>6, HalflifeFacts
    <2> QED BY <1>1, <1>3, <1>6, <2>1
  <1>7. CASE x[1] # NoIc /\ Faded = {}
    <2>1. EstimateHalflife = PositiveInfinity BY <1>4, <1>7, HalflifeFacts
    <2>2. i <= MaxLag + 1 /\ MaxLag \in Nat /\ MaxLag + 1 < PositiveInfinity
      BY <1>1, <1>3, EvaluationAssumption DEF DecayWell
    <2>3. i - 1 < EstimateHalflife BY <1>3, <2>1, <2>2 DEF PositiveInfinity
    <2>4. x[i] >= x[1] - 1 BY <1>3, <1>5, <1>7
    <2> QED BY <1>1, <1>7, <2>3, <2>4
  <1>8. CASE x[1] # NoIc /\ Faded # {}
    <2>1. PICK f : f = Min(Faded) OBVIOUS
    <2>2. EstimateHalflife = f - 1 BY <1>4, <1>8, <2>1, HalflifeFacts
    <2>3. f \in Faded /\ f \in Nat /\ \A k \in Faded : f <= k BY <1>8, <2>1, HalflifeFacts
    <2>4. f \in D BY <1>1, <1>2, <2>3 DEF Faded
    <2>5. x[f] < x[1] - 1 BY <1>5, <2>3, <2>4
    <2>6. ASSUME i < f PROVE x[i] >= x[1] - 1
      <3>1. i \notin Faded BY <1>3, <2>3, <2>6
      <3> QED BY <1>3, <1>5, <3>1
    <2>7. ASSUME ~(i < f) PROVE ~(x[i] >= x[1] - 1)
      <3>1. f <= i BY <1>3, <2>3, <2>7
      <3>2. x[i] <= x[f] BY <1>1, <1>2, <1>3, <2>4, <3>1, FallsOn
      <3> QED BY <1>3, <2>4, <2>5, <3>2
    <2>8. i - 1 < EstimateHalflife <=> i < f BY <1>3, <2>2, <2>3
    <2> QED BY <1>1, <1>8, <2>6, <2>7, <2>8
  <1> QED BY <1>6, <1>7, <1>8

(* The slope, where every IC is positive.                                  *)
LEMMA SlopeFacts ==
  ASSUME DecayWell, OnlyFalls, Len(ic_by_lag) >= 3, Lags = DOMAIN ic_by_lag
  PROVE  /\ (\E f \in DOMAIN ic_by_lag : ic_by_lag[f] < ic_by_lag[1]) => DecayRatePositive
         /\ DecayRatePositive => \E f \in DOMAIN ic_by_lag : ic_by_lag[f] < ic_by_lag[1]
  <1>1. PICK x : x = ic_by_lag OBVIOUS
  <1>2. PICK D : D = DOMAIN x OBVIOUS
  <1>3. /\ D = 1..Len(x) /\ Len(x) \in Nat /\ 1 \in D /\ \A k \in D : x[k] \in Int
        /\ IsFiniteSet(D) /\ Cardinality(D) = Len(x) /\ Len(x) >= 3 /\ Lags = D
    BY <1>1, <1>2, IcFacts
  <1>4. \A k \in D : k \in Int BY <1>3
  <1>5. PICK a : a = [l \in D |-> l] OBVIOUS
  <1>6. PICK b : b = [l \in D |-> x[l]] OBVIOUS
  <1>7. PICK c : c = [l \in D |-> -x[l]] OBVIOUS
  <1>8. PICK ab : ab = [l \in D |-> l * x[l]] OBVIOUS
  <1>9. PICK ac : ac = [l \in D |-> l * (-x[l])] OBVIOUS
  <1>10. \A l \in D : -x[l] \in Int /\ l * x[l] \in Int /\ l * (-x[l]) \in Int BY <1>3, <1>4
  <1>11. /\ a \in Amounts(D) /\ b \in Amounts(D) /\ c \in Amounts(D) /\ ab \in Amounts(D)
         /\ ac \in Amounts(D)
    BY <1>3, <1>4, <1>5, <1>6, <1>7, <1>8, <1>9, <1>10 DEF Amounts
  <1>12. PICK n : n = Cardinality(D) OBVIOUS
  <1>13. PICK A : A = SumFunction(a) OBVIOUS
  <1>14. PICK B : B = SumFunction(b) OBVIOUS
  <1>15. PICK C : C = SumFunction(ab) OBVIOUS
  <1>16. n \in Nat /\ A \in Int /\ B \in Int /\ C \in Int
    BY <1>3, <1>11, <1>12, <1>13, <1>14, <1>15, SumType
  <1>17. DecayRatePositive <=> n * C < A * B
    BY <1>1, <1>3, <1>5, <1>6, <1>8, <1>12, <1>13, <1>14, <1>15 DEF DecayRatePositive
  <1>18. \A i, j \in D : i <= j => x[j] <= x[i] BY <1>1, <1>2, FallsOn
  <1>19. ASSUME NEW f \in D, x[f] < x[1] PROVE n * C < A * B
    <2>1. SumFunction(c) = -B
      <3>1. \A l \in D : c[l] = -b[l] BY <1>6, <1>7
      <3> QED BY <1>3, <1>11, <1>14, <3>1, SumNegated
    <2>2. SumFunction(ac) = -C
      <3>1. \A l \in D : ac[l] = -ab[l]
        <4> TAKE l \in D
        <4>1. PICK y \in Int : y = x[l] BY <1>3
        <4>2. l \in Int BY <1>4
        <4>3. l * (-y) = -(l * y) BY <4>2
        <4> QED BY <1>8, <1>9, <4>1, <4>3
      <3> QED BY <1>3, <1>11, <1>15, <3>1, SumNegated
    <2>3. Concordant(D, a, c)
      <3>1. ASSUME NEW i \in D, NEW j \in D PROVE (a[i] - a[j]) * (c[i] - c[j]) >= 0
        <4>1. i \in Int /\ j \in Int /\ x[i] \in Int /\ x[j] \in Int BY <1>3, <1>4
        <4>2. (i <= j => x[j] <= x[i]) /\ (j <= i => x[i] <= x[j]) BY <1>18
        <4>3. PICK u \in Int : u = i - j BY <4>1
        <4>4. PICK v \in Int : v = -x[i] - (-x[j]) BY <4>1
        <4>5. (u <= 0 /\ v <= 0) \/ (u >= 0 /\ v >= 0) BY <4>1, <4>2, <4>3, <4>4
        <4>6. u * v >= 0 BY <4>5
        <4>7. a[i] - a[j] = u /\ c[i] - c[j] = v BY <1>5, <1>7, <4>3, <4>4
        <4> QED BY <4>6, <4>7
      <3> QED BY <3>1 DEF Concordant
    <2>4. \E i, j \in D : (a[i] - a[j]) * (c[i] - c[j]) > 0
      <3>1. f # 1 /\ f \in Int /\ f >= 1 /\ x[f] \in Int /\ x[1] \in Int BY <1>3, <1>19
      <3>2. PICK u \in Int : u = f - 1 BY <3>1
      <3>3. PICK v \in Int : v = -x[f] - (-x[1]) BY <3>1
      <3>4. u > 0 /\ v > 0 BY <1>19, <3>1, <3>2, <3>3
      <3>5. u * v > 0 BY <3>4
      <3>6. a[f] - a[1] = u /\ c[f] - c[1] = v BY <1>3, <1>5, <1>7, <3>2, <3>3
      <3> QED BY <1>3, <3>5, <3>6
    <2>5. \A i \in D : ac[i] = a[i] * c[i] BY <1>5, <1>7, <1>9
    <2>6. n * SumFunction(ac) > A * SumFunction(c)
      BY <1>3, <1>11, <1>12, <1>13, <2>3, <2>4, <2>5, Chebyshev
    <2>7. n * (-C) > A * (-B) BY <2>1, <2>2, <2>6
    <2> QED BY <1>16, <2>7
  <1>20. ASSUME \A f \in D : ~(x[f] < x[1]) PROVE ~(n * C < A * B)
    <2>1. \A f \in D : x[f] = x[1]
      <3> TAKE f \in D
      <3>1. 1 <= f BY <1>3
      <3> QED BY <1>3, <1>18, <1>20, <3>1
    <2>2. Concordant(D, a, b)
      <3>1. ASSUME NEW i \in D, NEW j \in D PROVE (a[i] - a[j]) * (b[i] - b[j]) >= 0
        <4>1. b[i] - b[j] = 0 BY <1>3, <1>6, <2>1
        <4>2. a[i] - a[j] \in Int BY <1>4, <1>5
        <4> QED BY <4>1, <4>2
      <3> QED BY <3>1 DEF Concordant
    <2>3. \A i \in D : ab[i] = a[i] * b[i] BY <1>5, <1>6, <1>8
    <2>4. n * C >= A * B BY <1>3, <1>11, <1>12, <1>13, <1>14, <1>15, <2>2, <2>3, Chebyshev
    <2>5. n * C \in Int /\ A * B \in Int BY <1>16
    <2> QED BY <2>4, <2>5
  <1> QED BY <1>1, <1>2, <1>17, <1>19, <1>20

(* Where the first IC is no number, nothing is under half of the peak.     *)
LEMMA NeverFades ==
  ASSUME DecayWell, ic_by_lag # <<>>, ic_by_lag[1] = NotANumber
  PROVE  EstimateHalflife = PositiveInfinity
  <1>1. PeakIc = NotANumber BY DEF PeakIc
  <1>2. NotANumber # NoIc BY DEF NotANumber, NoIc
  <1>3. ASSUME NEW lag \in DOMAIN ic_by_lag, ic_by_lag[lag] # NotANumber
        PROVE  ~(ic_by_lag[lag] < NotANumber - 1)
    <2>1. ic_by_lag[lag] \in Exponents \cup {NoIc, NotANumber} BY <1>3, ElementOfSeq DEF DecayWell
    <2>2. \A e \in Exponents : e \in Int /\ NoIc + 1 < e BY EvaluationAssumption
    <2> QED BY <1>3, <2>1, <2>2 DEF NoIc, NotANumber
  <1>4. Faded = {} BY <1>1, <1>3 DEF Faded
  <1> QED BY <1>1, <1>2, <1>4 DEF EstimateHalflife

LEMMA FallingDecay ==
  ASSUME DecayWell, OnlyFalls, Len(ic_by_lag) >= 3
  PROVE  /\ Lags = DOMAIN ic_by_lag =>
              /\ EstimateHalflife # PositiveInfinity => DecayRatePositive
              /\ DecayRatePositive => ic_by_lag[Len(ic_by_lag)] < ic_by_lag[1]
         /\ \A i \in DOMAIN ic_by_lag : i - 1 < EstimateHalflife <=>
              ic_by_lag[1] # NoIc /\ ic_by_lag[i] >= ic_by_lag[1] - 1
  <1>1. PICK n : n = Len(ic_by_lag) OBVIOUS
  <1>2. /\ DOMAIN ic_by_lag = 1..n /\ n \in Nat /\ 1 \in DOMAIN ic_by_lag /\ n \in DOMAIN ic_by_lag
        /\ \A i \in DOMAIN ic_by_lag : ic_by_lag[i] \in Int
    BY <1>1, IcFacts
  <1>3. ASSUME Lags = DOMAIN ic_by_lag, EstimateHalflife # PositiveInfinity PROVE DecayRatePositive
    <2>1. ic_by_lag[1] # NoIc BY <1>2, <1>3 DEF Lags
    <2>2. PeakIc = ic_by_lag[1] BY HalflifeFacts
    <2>3. Faded # {} BY <1>3, <2>1, <2>2, HalflifeFacts
    <2>4. PICK f : f \in Faded BY <2>3
    <2>5. f \in DOMAIN ic_by_lag /\ ic_by_lag[f] < ic_by_lag[1] - 1 BY <2>2, <2>4 DEF Faded
    <2>6. ic_by_lag[f] < ic_by_lag[1] BY <1>2, <2>5
    <2> QED BY <1>3, <2>5, <2>6, SlopeFacts
  <1>4. ASSUME Lags = DOMAIN ic_by_lag, DecayRatePositive
        PROVE  ic_by_lag[Len(ic_by_lag)] < ic_by_lag[1]
    <2>1. PICK f \in DOMAIN ic_by_lag : ic_by_lag[f] < ic_by_lag[1] BY <1>4, SlopeFacts
    <2>2. f <= n BY <1>2
    <2>3. ic_by_lag[n] <= ic_by_lag[f] BY <1>2, <2>2, FallsOn
    <2> QED BY <1>1, <1>2, <2>1, <2>3
  <1> QED BY <1>3, <1>4, BeforeHalflife

LEMMA DecayFacts == ASSUME DecayWell PROVE DecayMeasuresAgree
  BY FallingDecay, NeverFades DEF DecayMeasuresAgree

----------------------------------------------------------------------------
EvalInv == ObservedWell /\ entries \in Seq(Objectives) /\ DecayWell

LEMMA EvalStarts == EvalInit => EvalInv
  BY EvaluationAssumption DEF EvalInit, EvalInv, ObservedWell, DecayWell

LEMMA EvalStep == ASSUME EvalInv, [EvalNext]_evalVars PROVE EvalInv'
  <1>1. ASSUME NEW observation \in Observations \cup {MissingRow}, Observe(observation)
        PROVE  EvalInv'
    <2>1. ObservedWell' BY <1>1 DEF EvalInv, ObservedWell, Observe
    <2> QED BY <1>1, <2>1 DEF EvalInv, DecayWell, Observe
  <1>2. CASE AddFromAlpha
    <2>1. ObservedWell' BY <1>2 DEF ObservedWell, AddFromAlpha
    <2>2. [profit |-> FromPredictions.profit_factor, risk |-> FromPredictions.drawdown] \in Objectives
      BY Measured5 DEF EvalInv, Objectives
    <2>3. entries' \in Seq(Objectives) BY <1>2, <2>2 DEF AddFromAlpha
    <2> QED BY <1>2, <2>1, <2>3 DEF EvalInv, DecayWell, AddFromAlpha
  <1>3. ASSUME NEW metrics \in Others, Add(metrics) PROVE EvalInv'
    <2>1. metrics \in Objectives BY EvaluationAssumption DEF Objectives
    <2>2. entries' \in Seq(Objectives) BY <1>3, <2>1 DEF Add, EvalInv
    <2> QED BY <1>3, <2>2 DEF EvalInv, ObservedWell, DecayWell, Add
  <1>4. CASE ClearRanker BY <1>4 DEF EvalInv, ObservedWell, DecayWell, ClearRanker
  <1>5. ASSUME NEW exponent \in Exponents \cup {NoIc, NotANumber}, ComputeIc(exponent) PROVE EvalInv'
    <2>1. ic_by_lag' = Append(ic_by_lag, exponent) /\ Len(ic_by_lag) <= MaxLag BY <1>5 DEF ComputeIc
    <2>2. ic_by_lag' \in Seq(Exponents \cup {NoIc, NotANumber}) /\ Len(ic_by_lag') = Len(ic_by_lag) + 1
      BY <2>1, AppendProperties DEF EvalInv, DecayWell
    <2>3. Len(ic_by_lag) \in Nat BY IcFacts DEF EvalInv
    <2>4. DecayWell' BY <2>1, <2>2, <2>3, EvaluationAssumption DEF DecayWell
    <2> QED BY <1>5, <2>4 DEF EvalInv, ObservedWell, ComputeIc
  <1>6. CASE UNCHANGED evalVars BY <1>6 DEF EvalInv, ObservedWell, DecayWell, evalVars
  <1> QED BY <1>1, <1>2, <1>3, <1>4, <1>5, <1>6 DEF EvalNext

(* What alphas are measured and compared by never contradicts itself:      *)
(* metrics drawn from the same predictions (AlphaMetrics.from_predictions),*)
(* the frontier of AlphaRanker and the measures of AlphaDecayMonitor.      *)
THEOREM EvaluationCorrect == EvalSpec => []EvaluationIsSound
<1>1. EvalInit => EvalInv BY EvalStarts
<1>2. EvalInv /\ [EvalNext]_evalVars => EvalInv' BY EvalStep
<1>3. EvalInv => EvaluationIsSound
  BY MetricsFacts, FrontierFacts, DecayFacts DEF EvalInv, EvaluationIsSound
<1> QED BY <1>1, <1>2, <1>3, PTL DEF EvalSpec

----------------------------------------------------------------------------

(* A mean is between the extremes, and so between any bounds.              *)
LEMMA MeanBetween ==
  ASSUME NEW S, IsFiniteSet(S), S # {}, NEW f \in Amounts(S), NEW a \in Int, NEW b \in Int,
         \A x \in S : a <= f[x] /\ f[x] <= b
  PROVE  a <= Mean(f) /\ Mean(f) <= b
  <1>1. PICK n : n = Cardinality(S) OBVIOUS
  <1>2. n \in Nat \ {0} BY <1>1, FS_CardinalityType, FS_EmptySet
  <1>3. PICK s : s = SumFunction(f) OBVIOUS
  <1>4. s \in Int BY <1>3, SumType
  <1>5. n * a <= s /\ s <= n * b BY <1>1, <1>3, SumBetween
  <1>6. DOMAIN f = S BY DEF Amounts
  <1>7. Mean(f) = s \div n BY <1>1, <1>3, <1>6, Zenon DEF Mean
  <1> QED BY <1>2, <1>4, <1>5, <1>7, QuotientBetween

LEMMA MeanOfExtremes ==
  ASSUME NEW S, IsFiniteSet(S), S # {}, NEW f \in Amounts(S)
  PROVE  Lowest(f) <= Mean(f) /\ Mean(f) <= Highest(f)
  <1>1. f \in [S -> Int] /\ DOMAIN f = S BY DEF Amounts
  <1>2. PICK a : a = Min({f[x] : x \in S}) OBVIOUS
  <1>3. PICK b : b = Max({f[x] : x \in S}) OBVIOUS
  <1>4. Lowest(f) = a /\ Highest(f) = b BY <1>1, <1>2, <1>3 DEF Lowest, Highest
  <1>5. a \in Int /\ \A x \in S : a <= f[x] BY <1>1, <1>2, ValuesExtremes
  <1>6. b \in Int /\ \A x \in S : f[x] <= b
    <2>1. b \in Int /\ \A x \in S : b >= f[x] BY <1>1, <1>3, ValuesExtremes
    <2> QED BY <1>1, <2>1
  <1> QED BY <1>4, <1>5, <1>6, MeanBetween

(* The folds that were run.                                                *)
FoldsWell == folds \in Seq(Results)

LEMMA FoldFacts ==
  ASSUME FoldsWell
  PROVE  /\ Len(folds) \in Nat /\ DOMAIN folds = 1..Len(folds)
         /\ IsFiniteSet(DOMAIN folds) /\ Cardinality(DOMAIN folds) = Len(folds)
         /\ \A k \in DOMAIN folds :
              /\ folds[k].curve \in Seq(Int) /\ Len(folds[k].curve) <= BarsPerFold
              /\ folds[k].best_params.period \in Int
              /\ folds[k].train.sharpe \in Int /\ folds[k].train.total_return \in Int
              /\ folds[k].test.sharpe \in Int /\ folds[k].test.total_return \in Int
  <1>1. Len(folds) \in Nat /\ DOMAIN folds = 1..Len(folds) BY DEF FoldsWell
  <1>2. IsFiniteSet(DOMAIN folds) /\ Cardinality(DOMAIN folds) = Len(folds)
    <2>1. PICK n \in Nat : n = Len(folds) BY <1>1
    <2>2. IsFiniteSet(1..n) /\ Cardinality(1..n) = IF 1 > n THEN 0 ELSE n - 1 + 1 BY FS_Interval
    <2> QED BY <1>1, <2>1, <2>2
  <1>3. \A k \in 1..Len(folds) : folds[k] \in Results BY ElementOfSeq DEF FoldsWell
  <1> QED BY <1>1, <1>2, <1>3, FoldsAssumption

(* Sharpe ratios that rise together have no negative covariance, and ones  *)
(* that never do have no positive one.                                     *)
LEMMA PairedFacts ==
  ASSUME FoldsWell
  PROVE  /\ IsFiniteSet(Paired) /\ Paired \subseteq DOMAIN folds
         /\ TrainSharpe \in Amounts(Paired) /\ TestSharpe \in Amounts(Paired)
  <1>1. Paired \subseteq DOMAIN folds BY DEF Paired
  <1>2. IsFiniteSet(Paired) BY <1>1, FoldFacts, FS_Subset
  <1>3. \A k \in Paired : folds[k].train.sharpe \in Int /\ folds[k].test.sharpe \in Int
    BY <1>1, FoldFacts
  <1> QED BY <1>1, <1>2, <1>3 DEF TrainSharpe, TestSharpe, Amounts

LEMMA CovarianceIsOf ==
  ASSUME NEW S, IsFiniteSet(S), NEW x \in Amounts(S), NEW y \in Amounts(S)
  PROVE  /\ \E xy \in Amounts(S) :
              /\ \A i \in S : xy[i] = x[i] * y[i]
              /\ Covariance(x, y) = Cardinality(S) * SumFunction(xy) - SumFunction(x) * SumFunction(y)
         /\ Covariance(x, y) \in Int
  <1>1. \A i \in S : x[i] \in Int /\ y[i] \in Int BY DEF Amounts
  <1>2. DOMAIN x = S BY DEF Amounts
  <1>3. PICK xy : xy = [k \in S |-> x[k] * y[k]] OBVIOUS
  <1>4. xy \in Amounts(S) /\ \A i \in S : xy[i] = x[i] * y[i] BY <1>1, <1>3 DEF Amounts
  <1>5. Covariance(x, y) = Cardinality(S) * SumFunction(xy) - SumFunction(x) * SumFunction(y)
    BY <1>2, <1>3 DEF Covariance
  <1>6. SumFunction(xy) \in Int /\ SumFunction(x) \in Int /\ SumFunction(y) \in Int
    BY <1>4, SumType
  <1>7. Cardinality(S) \in Nat BY FS_CardinalityType
  <1>8. Covariance(x, y) \in Int BY <1>5, <1>6, <1>7
  <1> QED BY <1>4, <1>5, <1>8

LEMMA RisingTogether ==
  ASSUME NEW S, IsFiniteSet(S), NEW x \in Amounts(S), NEW y \in Amounts(S),
         \A i, j \in S : x[i] < x[j] => y[i] <= y[j]
  PROVE  Covariance(x, y) >= 0
  <1>1. PICK xy \in Amounts(S) :
          /\ \A i \in S : xy[i] = x[i] * y[i]
          /\ Covariance(x, y) = Cardinality(S) * SumFunction(xy) - SumFunction(x) * SumFunction(y)
    BY CovarianceIsOf
  <1>2. Concordant(S, x, y)
    <2>1. ASSUME NEW i \in S, NEW j \in S PROVE (x[i] - x[j]) * (y[i] - y[j]) >= 0
      <3>1. x[i] \in Int /\ x[j] \in Int /\ y[i] \in Int /\ y[j] \in Int BY DEF Amounts
      <3> QED BY <3>1, ProductSign
    <2> QED BY <2>1 DEF Concordant
  <1>3. Cardinality(S) * SumFunction(xy) >= SumFunction(x) * SumFunction(y)
    BY <1>1, <1>2, Chebyshev
  <1>4. SumFunction(xy) \in Int /\ SumFunction(x) \in Int /\ SumFunction(y) \in Int
    BY <1>1, SumType
  <1>5. Cardinality(S) \in Nat BY FS_CardinalityType
  <1>6. PICK p \in Int : p = Cardinality(S) * SumFunction(xy) BY <1>4, <1>5
  <1>7. PICK q \in Int : q = SumFunction(x) * SumFunction(y) BY <1>4, <1>5
  <1>8. Covariance(x, y) = p - q /\ p >= q BY <1>1, <1>3, <1>6, <1>7
  <1> QED BY <1>8

LEMMA NeverTogether ==
  ASSUME NEW S, IsFiniteSet(S), NEW x \in Amounts(S), NEW y \in Amounts(S), Covariance(x, y) > 0
  PROVE  \E i, j \in S : x[i] < x[j] /\ y[i] < y[j]
  <1>1. SUFFICES ASSUME \A i, j \in S : ~(x[i] < x[j] /\ y[i] < y[j]) PROVE FALSE
    OBVIOUS
  <1>2. PICK z : z = [i \in S |-> -y[i]] OBVIOUS
  <1>3. \A i \in S : x[i] \in Int /\ y[i] \in Int BY DEF Amounts
  <1>4. z \in Amounts(S) /\ \A i \in S : z[i] = -y[i] BY <1>2, <1>3 DEF Amounts
  <1>5. \A i, j \in S : x[i] < x[j] => z[i] <= z[j]
    <2>1. ASSUME NEW i \in S, NEW j \in S, x[i] < x[j] PROVE z[i] <= z[j]
      <3>1. ~(y[i] < y[j]) BY <1>1, <2>1
      <3>2. z[i] = -y[i] /\ z[j] = -y[j] /\ y[i] \in Int /\ y[j] \in Int BY <1>3, <1>4
      <3> QED BY <3>1, <3>2
    <2> QED BY <2>1
  <1>6. Covariance(x, z) >= 0 BY <1>4, <1>5, RisingTogether
  <1>7. PICK xy \in Amounts(S) :
          /\ \A i \in S : xy[i] = x[i] * y[i]
          /\ Covariance(x, y) = Cardinality(S) * SumFunction(xy) - SumFunction(x) * SumFunction(y)
    BY CovarianceIsOf
  <1>8. PICK xz \in Amounts(S) :
          /\ \A i \in S : xz[i] = x[i] * z[i]
          /\ Covariance(x, z) = Cardinality(S) * SumFunction(xz) - SumFunction(x) * SumFunction(z)
    BY <1>4, CovarianceIsOf
  <1>9. SumFunction(z) = -SumFunction(y) BY <1>4, SumNegated
  <1>10. SumFunction(xz) = -SumFunction(xy)
    <2>1. \A i \in S : xz[i] = -xy[i] BY <1>3, <1>4, <1>7, <1>8
    <2> QED BY <1>7, <1>8, <2>1, SumNegated
  <1>11. PICK n \in Nat : n = Cardinality(S) BY FS_CardinalityType
  <1>12. PICK a \in Int : a = SumFunction(x) BY SumType
  <1>13. PICK b \in Int : b = SumFunction(y) BY SumType
  <1>14. PICK c \in Int : c = SumFunction(xy) BY <1>7, SumType
  <1>15. Covariance(x, y) = n * c - a * b BY <1>7, <1>11, <1>12, <1>13, <1>14
  <1>16. Covariance(x, z) = n * (-c) - a * (-b) BY <1>8, <1>9, <1>10, <1>11, <1>12, <1>13, <1>14
  <1>17. n * (-c) - a * (-b) = -(n * c - a * b) OBVIOUS
  <1>18. n * c - a * b \in Int OBVIOUS
  <1> QED BY <1>6, <1>15, <1>16, <1>17, <1>18

LEMMA OverfittingFacts ==
  ASSUME FoldsWell, Finite(OverfittingScore)
  PROVE  /\ (\A k \in DOMAIN folds : folds[k].test.total_return >= folds[k].train.total_return) =>
              OverfittingScore = 0
         /\ (\A k \in DOMAIN folds : folds[k].test.total_return <= 0) => OverfittingScore >= 100
         /\ (\A k \in DOMAIN folds : folds[k].test.total_return < 0) => OverfittingScore > 100
  <1>1. PICK S : S = {k \in DOMAIN folds : /\ Finite(folds[k].train.total_return)
                                           /\ Finite(folds[k].test.total_return)
                                           /\ folds[k].train.total_return > 0}
    OBVIOUS
  <1>2. PICK e : e = [k \in S |-> (100 * folds[k].test.total_return) \div folds[k].train.total_return]
    OBVIOUS
  <1>3. PICK d : d = [k \in S |-> Max({0, 100 - (100 * folds[k].test.total_return) \div folds[k].train.total_return})]
    OBVIOUS
  <1>4. OverfittingScore = IF S = {} THEN NoMetric ELSE Mean(d)
    BY <1>1, <1>3, Zenon DEF OverfittingScore
  <1>5. S # {} /\ OverfittingScore = Mean(d) BY <1>4 DEF Finite
  <1>6. S \subseteq DOMAIN folds /\ IsFiniteSet(S)
    <2>1. S \subseteq DOMAIN folds BY <1>1
    <2> QED BY <2>1, FoldFacts, FS_Subset
  <1>7. ASSUME NEW k \in S
        PROVE  /\ e[k] \in Int /\ d[k] \in Int /\ d[k] >= 0 /\ d[k] >= 100 - e[k]
               /\ 100 - e[k] <= 0 => d[k] = 0
               /\ folds[k].test.total_return >= folds[k].train.total_return => e[k] >= 100
               /\ folds[k].test.total_return <= 0 => e[k] <= 0
               /\ folds[k].test.total_return < 0 => e[k] <= -1
    <2>1. PICK t \in Int : t = folds[k].train.total_return BY <1>6, FoldFacts
    <2>2. PICK u \in Int : u = folds[k].test.total_return BY <1>6, FoldFacts
    <2>3. t > 0 BY <1>1, <2>1
    <2>4. e[k] = (100 * u) \div t BY <1>2, <2>1, <2>2
    <2>5. e[k] \in Int /\ t * e[k] <= 100 * u /\ 100 * u < t * e[k] + t
      <3>1. 100 * u \in Int /\ t \in Nat \ {0} BY <2>3
      <3> QED BY <2>4, <3>1, DivFloor
    <2>6. d[k] = Max({0, 100 - e[k]}) BY <1>2, <1>3
    <2>7. d[k] \in {0, 100 - e[k]} /\ d[k] >= 0 /\ d[k] >= 100 - e[k]
      <3>1. PICK z \in Int : z = 100 - e[k] BY <2>5
      <3>2. Max({0, z}) \in {0, z} /\ Max({0, z}) >= 0 /\ Max({0, z}) >= z
        BY <3>1, GreaterOfTwo
      <3> QED BY <2>6, <3>1, <3>2
    <2>8. ASSUME u >= t PROVE e[k] >= 100
      <3>1. t * 100 <= 100 * u BY <2>3, <2>8
      <3>2. t \in Nat \ {0} /\ 100 * u \in Int BY <2>3
      <3>4. t * 100 < t * e[k] + t BY <2>5, <3>1
      <3>5. t * e[k] + t = t * (e[k] + 1) BY <2>5
      <3>6. SUFFICES ASSUME e[k] < 100 PROVE FALSE BY <2>5
      <3>7. e[k] + 1 <= 100 BY <2>5, <3>6
      <3>8. t * (e[k] + 1) <= t * 100 BY <2>5, <3>2, <3>7, TimesOrdered
      <3>9. t * (e[k] + 1) \in Int BY <2>5
      <3> QED BY <2>5, <3>4, <3>5, <3>8, <3>9
    <2>9. ASSUME u <= 0 PROVE e[k] <= 0
      <3>1. t * e[k] <= t * 0 BY <2>3, <2>5, <2>9
      <3>2. t \in Nat \ {0} BY <2>3
      <3> QED BY <2>5, <3>1, <3>2, FactorCancels
    <2>10. ASSUME u < 0 PROVE e[k] # 0 BY <2>3, <2>5, <2>10
    <2> QED BY <2>1, <2>2, <2>5, <2>7, <2>8, <2>9, <2>10
  <1>8. d \in Amounts(S) BY <1>3, <1>7 DEF Amounts
  <1>9. ASSUME \A k \in DOMAIN folds : folds[k].test.total_return >= folds[k].train.total_return
        PROVE  OverfittingScore = 0
    <2>1. \A k \in S : d[k] = 0
      <3> TAKE k \in S
      <3>1. e[k] >= 100 /\ e[k] \in Int BY <1>6, <1>7, <1>9
      <3>2. 100 - e[k] <= 0 BY <3>1
      <3> QED BY <1>7, <3>2
    <2>2. \A k \in S : 0 <= d[k] /\ d[k] <= 0 BY <2>1
    <2>3. 0 <= Mean(d) /\ Mean(d) <= 0 BY <1>5, <1>6, <1>8, <2>2, MeanBetween
    <2>4. SumFunction(d) \in Int /\ Cardinality(DOMAIN d) \in Nat \ {0}
      <3>1. DOMAIN d = S BY <1>3
      <3>2. SumFunction(d) \in Int BY <1>6, <1>8, SumType
      <3>3. Cardinality(S) \in Nat \ {0} BY <1>5, <1>6, FS_CardinalityType, FS_EmptySet
      <3> QED BY <3>1, <3>2, <3>3
    <2>5. Mean(d) \in Int BY <2>4, DivFloor DEF Mean
    <2> QED BY <1>5, <2>3, <2>5
  <1>10. ASSUME \A k \in DOMAIN folds : folds[k].test.total_return <= 0
         PROVE  OverfittingScore >= 100
    <2>1. PICK M : M = Max({d[x] : x \in S}) OBVIOUS
    <2>2. M \in Int /\ \A x \in S : M >= d[x] BY <1>5, <1>6, <1>8, <2>1, ValuesExtremes DEF Amounts
    <2>3. \A k \in S : 100 <= d[k] /\ d[k] <= M
      <3> TAKE k \in S
      <3>1. e[k] <= 0 /\ e[k] \in Int /\ d[k] >= 100 - e[k] /\ d[k] \in Int BY <1>6, <1>7, <1>10
      <3> QED BY <2>2, <3>1
    <2>4. 100 <= Mean(d) BY <1>5, <1>6, <1>8, <2>2, <2>3, MeanBetween
    <2>5. SumFunction(d) \in Int /\ Cardinality(DOMAIN d) \in Nat \ {0}
      <3>1. DOMAIN d = S BY <1>3
      <3>2. SumFunction(d) \in Int BY <1>6, <1>8, SumType
      <3>3. Cardinality(S) \in Nat \ {0} BY <1>5, <1>6, FS_CardinalityType, FS_EmptySet
      <3> QED BY <3>1, <3>2, <3>3
    <2>6. Mean(d) \in Int BY <2>5, DivFloor DEF Mean
    <2> QED BY <1>5, <2>4, <2>6
  <1>11. ASSUME \A k \in DOMAIN folds : folds[k].test.total_return < 0
         PROVE  OverfittingScore > 100
    <2>1. PICK M : M = Max({d[x] : x \in S}) OBVIOUS
    <2>2. M \in Int /\ \A x \in S : M >= d[x] BY <1>5, <1>6, <1>8, <2>1, ValuesExtremes DEF Amounts
    <2>3. \A k \in S : 101 <= d[k] /\ d[k] <= M
      <3> TAKE k \in S
      <3>1. e[k] <= -1 /\ e[k] \in Int /\ d[k] >= 100 - e[k] /\ d[k] \in Int BY <1>6, <1>7, <1>11
      <3> QED BY <2>2, <3>1
    <2>4. 101 <= Mean(d) BY <1>5, <1>6, <1>8, <2>2, <2>3, MeanBetween
    <2>5. Mean(d) \in Int
      <3>1. DOMAIN d = S BY <1>3
      <3>2. SumFunction(d) \in Int BY <1>6, <1>8, SumType
      <3>3. Cardinality(S) \in Nat \ {0} BY <1>5, <1>6, FS_CardinalityType, FS_EmptySet
      <3> QED BY <3>1, <3>2, <3>3, DivFloor DEF Mean
    <2> QED BY <1>5, <2>4, <2>5
  <1> QED BY <1>9, <1>10, <1>11

LEMMA AggregateFacts ==
  ASSUME FoldsWell, NEW metric \in {"sharpe", "total_return"}
  PROVE  Aggregate(metric).min <= Aggregate(metric).mean /\ Aggregate(metric).mean <= Aggregate(metric).max
  <1>1. PICK S : S = {k \in DOMAIN folds : Finite(folds[k].test[metric])} OBVIOUS
  <1>2. PICK v : v = [k \in S |-> folds[k].test[metric]] OBVIOUS
  <1>3. Aggregate(metric) = IF S = {} THEN [mean |-> NoMetric, min |-> NoMetric, max |-> NoMetric]
                            ELSE [mean |-> Mean(v), min |-> Lowest(v), max |-> Highest(v)]
    BY <1>1, <1>2, Zenon DEF Aggregate
  <1>4. CASE S = {} BY <1>3, <1>4 DEF NoMetric
  <1>5. CASE S # {}
    <2>1. S \subseteq DOMAIN folds BY <1>1
    <2>2. IsFiniteSet(S) BY <2>1, FoldFacts, FS_Subset
    <2>3. \A k \in S : folds[k].test[metric] \in Int BY <2>1, FoldFacts
    <2>4. v \in Amounts(S) BY <1>2, <2>3 DEF Amounts
    <2>5. Lowest(v) <= Mean(v) /\ Mean(v) <= Highest(v) BY <1>5, <2>2, <2>4, MeanOfExtremes
    <2> QED BY <1>3, <1>5, <2>5
  <1> QED BY <1>4, <1>5

LEMMA NumericFacts ==
  ASSUME FoldsWell, folds # <<>>
  PROVE  LET period == NumericStability("period")
         IN  period.min <= period.mean /\ period.mean <= period.max
  <1>1. PICK S : S = DOMAIN folds OBVIOUS
  <1>2. PICK v : v = [k \in S |-> folds[k].best_params["period"]] OBVIOUS
  <1>3. NumericStability("period") =
          [mean |-> Mean(v), min |-> Lowest(v), max |-> Highest(v), cv_defined |-> SumFunction(v) # 0]
    BY <1>1, <1>2, Zenon DEF NumericStability
  <1>4. IsFiniteSet(S) /\ S # {}
    <2>1. Len(folds) # 0 BY EmptySeq DEF FoldsWell
    <2> QED BY <1>1, <2>1, FoldFacts
  <1>5. \A k \in S : folds[k].best_params["period"] \in Int BY <1>1, FoldFacts
  <1>6. v \in Amounts(S) BY <1>2, <1>5 DEF Amounts
  <1>7. Lowest(v) <= Mean(v) /\ Mean(v) <= Highest(v) BY <1>4, <1>6, MeanOfExtremes
  <1> QED BY <1>3, <1>7

LEMMA CategoricalFacts ==
  ASSUME FoldsWell, folds # <<>>
  PROVE  CategoricalStability("source").count
           * Cardinality({folds[k].best_params.source : k \in DOMAIN folds}) >= Len(folds)
  <1>1. PICK n : n = Len(folds) OBVIOUS
  <1>2. n \in Nat \ {0} /\ DOMAIN folds = 1..n
    <2>1. Len(folds) # 0 BY EmptySeq DEF FoldsWell
    <2> QED BY <1>1, <2>1, FoldFacts
  <1>3. PICK value : value = [k \in DOMAIN folds |-> folds[k].best_params["source"]] OBVIOUS
  <1>4. PICK count :
          count = [k \in DOMAIN folds |-> Cardinality({j \in DOMAIN folds : value[j] = value[k]})]
    OBVIOUS
  <1>5. CountsEach(n, value, count) BY <1>2, <1>4 DEF CountsEach
  <1>6. PICK mode : mode = CHOOSE k \in DOMAIN folds : /\ \A j \in DOMAIN folds : count[j] <= count[k]
                                                       /\ \A j \in 1..k - 1 : count[j] < count[k]
    OBVIOUS
  <1>7. CategoricalStability("source") = [mode |-> value[mode], count |-> count[mode]]
    BY <1>3, <1>4, <1>6, Zenon DEF CategoricalStability
  <1>8. \E k \in 1..n : (\A j \in 1..n : count[j] <= count[k]) /\ (\A j \in 1..k - 1 : count[j] < count[k])
    BY <1>2, <1>5, MostFrequent
  <1>9. mode \in 1..n /\ \A j \in 1..n : count[j] <= count[mode] BY <1>2, <1>6, <1>8
  <1>10. count[mode] * Cardinality({value[j] : j \in 1..n}) >= n BY <1>2, <1>5, <1>9, MostFrequent
  <1>11. {value[j] : j \in 1..n} = {folds[k].best_params.source : k \in DOMAIN folds}
    BY <1>2, <1>3
  <1>12. CategoricalStability("source").count = count[mode] BY <1>7
  <1> QED BY <1>1, <1>10, <1>11, <1>12, Zenon

(* The five claims about the measures.                                     *)
LEMMA MeasuresFacts == ASSUME FoldsWell PROVE MeasuresAgree
  <1>1. (\A i, j \in Paired : TrainSharpe[i] < TrainSharpe[j] => TestSharpe[i] <= TestSharpe[j]) =>
          IsOosCovariance >= 0
    BY PairedFacts, RisingTogether DEF IsOosCovariance
  <1>2. ASSUME Interpretation = "generalise well"
        PROVE  \E i, j \in Paired : TrainSharpe[i] < TrainSharpe[j] /\ TestSharpe[i] < TestSharpe[j]
    <2>1. CorrelationAbove(6) BY <1>2 DEF Interpretation
    <2>2. IsOosCovariance > 0 BY <2>1 DEF CorrelationAbove
    <2> QED BY <2>2, PairedFacts, NeverTogether DEF IsOosCovariance
  <1>3. Finite(OverfittingScore) =>
          /\ (\A k \in DOMAIN folds : folds[k].test.total_return >= folds[k].train.total_return) =>
               OverfittingScore = 0
          /\ (\A k \in DOMAIN folds : folds[k].test.total_return <= 0) => OverfittingScore >= 100
          /\ (\A k \in DOMAIN folds : folds[k].test.total_return < 0) => OverfittingScore > 100
    BY OverfittingFacts
  <1>4. \A metric \in {"sharpe", "total_return"} :
          LET all == Aggregate(metric) IN all.min <= all.mean /\ all.mean <= all.max
    BY AggregateFacts, Zenon
  <1>5. folds # <<>> =>
          LET period == NumericStability("period")  source == CategoricalStability("source")
          IN  /\ period.min <= period.mean /\ period.mean <= period.max
              /\ source.count * Cardinality({folds[k].best_params.source : k \in DOMAIN folds})
                   >= Len(folds)
    BY NumericFacts, CategoricalFacts, Zenon
  <1> QED BY <1>1, <1>2, <1>3, <1>4, <1>5, Zenon DEF MeasuresAgree

(* Rows of the combined curve: their place in the curve of their fold, and *)
(* how one moves from the one before.                                      *)
CurveRow == [bar : Int, fold : Nat, equity : Int]

PlaceOf(row) == row.bar - (row.fold - 1) * BarsPerFold

MovesAsFold(before, now) ==
  /\ before.bar < now.bar
  /\ now.equity - before.equity =
       IF before.fold = now.fold
       THEN folds[now.fold].curve[PlaceOf(now)] - folds[now.fold].curve[PlaceOf(now) - 1] ELSE 0

Lengths == [k \in DOMAIN folds |-> Len(folds[k].curve)]

JoinedCurves == [rows : Seq(CurveRow), running : Int]

(* What has been joined after k folds.                                     *)
RowsWell(joined, k) ==
  /\ Len(joined) = SumFunction(Restrict(Lengths, 1..k))
  /\ \A i \in 1..Len(joined) : joined[i].fold \in 1..k /\ PlaceOf(joined[i]) \in 1..Len(folds[joined[i].fold].curve)
  /\ \A i \in 2..Len(joined) : MovesAsFold(joined[i - 1], joined[i])

JoinedWell(sofar, k) ==
  /\ sofar \in JoinedCurves
  /\ RowsWell(sofar.rows, k)
  /\ sofar.rows # <<>> => sofar.rows[Len(sofar.rows)].equity = sofar.running

LEMMA LengthFacts ==
  ASSUME FoldsWell, NEW n \in Nat, n = Len(folds)
  PROVE  /\ Lengths \in Amounts(1..n)
         /\ SumFunction(Restrict(Lengths, 1..0)) = 0
         /\ \A k \in Nat : k + 1 <= n => /\ SumFunction(Restrict(Lengths, 1..(k + 1)))
                                              = SumFunction(Restrict(Lengths, 1..k)) + Len(folds[k + 1].curve)
                                         /\ SumFunction(Restrict(Lengths, 1..k)) \in Int
  <1>1. DOMAIN folds = 1..n BY FoldFacts
  <1>2. \A k \in DOMAIN folds : Len(folds[k].curve) \in Int BY FoldFacts, LenProperties
  <1>3. Lengths \in Amounts(1..n) BY <1>1, <1>2 DEF Lengths, Amounts
  <1>4. SumFunction(Restrict(Lengths, 1..0)) = 0
    <2>1. 1..0 = {} OBVIOUS
    <2>2. SumFunction(Restrict(Lengths, {})) = 0 BY <1>3, SumOfNone
    <2> QED BY <2>1, <2>2
  <1>5. ASSUME NEW k \in Nat, k + 1 <= n
        PROVE  /\ SumFunction(Restrict(Lengths, 1..(k + 1)))
                    = SumFunction(Restrict(Lengths, 1..k)) + Len(folds[k + 1].curve)
               /\ SumFunction(Restrict(Lengths, 1..k)) \in Int
    <2>1. /\ SumFunction(Restrict(Lengths, 1..(k + 1)))
               = Lengths[k + 1] + SumFunction(Restrict(Lengths, 1..k))
          /\ Lengths[k + 1] \in Int /\ SumFunction(Restrict(Lengths, 1..k)) \in Int
      <3>1. k < n BY <1>5
      <3> QED BY <1>3, <3>1, SumUpTo
    <2>2. k + 1 \in DOMAIN folds BY <1>1, <1>5
    <2>3. Lengths[k + 1] = Len(folds[k + 1].curve) BY <2>2 DEF Lengths
    <2> QED BY <2>1, <2>3
  <1> QED BY <1>3, <1>4, <1>5

(* A curve of a fold, shifted.                                             *)
LEMMA RescaledFacts ==
  ASSUME FoldsWell, NEW k \in DOMAIN folds, NEW shift \in Int
  PROVE  /\ Rescaled(k, shift) \in Seq(CurveRow) /\ Len(Rescaled(k, shift)) = Len(folds[k].curve)
         /\ \A j \in 1..Len(folds[k].curve) :
              /\ Rescaled(k, shift)[j] = [bar |-> (k - 1) * BarsPerFold + j, fold |-> k,
                                          equity |-> folds[k].curve[j] + shift]
              /\ PlaceOf(Rescaled(k, shift)[j]) = j
  <1>1. PICK c : c = folds[k].curve OBVIOUS
  <1>2. c \in Seq(Int) BY <1>1, FoldFacts
  <1>3. PICK l \in Nat : l = Len(c) BY <1>2, LenProperties
  <1>4. DOMAIN c = 1..l /\ \A j \in 1..l : c[j] \in Int BY <1>2, <1>3, LenProperties
  <1>5. PICK q \in Int : q = (k - 1) * BarsPerFold
    <2>1. k \in Int BY FoldFacts
    <2>2. (k - 1) * BarsPerFold \in Int BY <2>1, FoldsAssumption
    <2> QED BY <2>2
  <1>6. k \in Nat BY FoldFacts
  <1>7. PICK r : r = [j \in 1..l |-> [bar |-> q + j, fold |-> k, equity |-> c[j] + shift]] OBVIOUS
  <1>8. Rescaled(k, shift) = r BY <1>1, <1>4, <1>5, <1>7, Zenon DEF Rescaled
  <1>9. r \in [1..l -> CurveRow]
    <2>1. \A j \in 1..l : q + j \in Int /\ c[j] + shift \in Int BY <1>4
    <2>2. \A j \in 1..l : [bar |-> q + j, fold |-> k, equity |-> c[j] + shift] \in CurveRow
      BY <1>6, <2>1 DEF CurveRow
    <2> QED BY <1>7, <2>2
  <1>10. r \in Seq(CurveRow) /\ Len(r) = l BY <1>9
  <1>11. \A j \in 1..l : PlaceOf(r[j]) = j
    <2> TAKE j \in 1..l
    <2>1. r[j].bar = q + j /\ r[j].fold = k BY <1>7
    <2>2. PlaceOf(r[j]) = (q + j) - q BY <1>5, <2>1 DEF PlaceOf
    <2> QED BY <2>2
  <1>12. \A j \in 1..l : r[j] = [bar |-> q + j, fold |-> k, equity |-> c[j] + shift] BY <1>7
  <1> QED BY <1>1, <1>3, <1>5, <1>8, <1>10, <1>11, <1>12

LEMMA JoinedIs ==
  ASSUME FoldsWell, NEW k \in DOMAIN folds, NEW sofar \in JoinedCurves, folds[k].curve # <<>>
  PROVE  \E shift \in Int :
           /\ Joined(sofar, k) = [rows |-> sofar.rows \o Rescaled(k, shift),
                                  running |-> folds[k].curve[Len(folds[k].curve)] + shift]
           /\ sofar.rows # <<>> => shift = sofar.running - folds[k].curve[1]
           /\ Joined(sofar, k) \in JoinedCurves
  <1>1. PICK c : c = folds[k].curve OBVIOUS
  <1>2. c \in Seq(Int) /\ c # <<>> BY <1>1, FoldFacts
  <1>3. Len(c) \in Nat \ {0} /\ DOMAIN c = 1..Len(c) BY <1>2, EmptySeq, LenProperties
  <1>4. c[1] \in Int /\ c[Len(c)] \in Int BY <1>2, <1>3
  <1>5. Head(c) = c[1] /\ Last(c) = c[Len(c)] BY <1>2, <1>3 DEF Last
  <1>6. PICK shift : shift = IF sofar.rows = <<>> THEN 0 ELSE sofar.running - c[1] OBVIOUS
  <1>7. shift \in Int BY <1>4, <1>6 DEF JoinedCurves
  <1>8. Joined(sofar, k) = [rows |-> sofar.rows \o Rescaled(k, shift), running |-> c[Len(c)] + shift]
    BY <1>1, <1>2, <1>5, <1>6, Zenon DEF Joined
  <1>9. sofar.rows \o Rescaled(k, shift) \in Seq(CurveRow)
    <2>1. sofar.rows \in Seq(CurveRow) BY DEF JoinedCurves
    <2>2. Rescaled(k, shift) \in Seq(CurveRow) BY <1>7, RescaledFacts
    <2> QED BY <2>1, <2>2, ConcatProperties
  <1>10. c[Len(c)] + shift \in Int BY <1>4, <1>7
  <1>11. Joined(sofar, k) \in JoinedCurves BY <1>8, <1>9, <1>10 DEF JoinedCurves
  <1> QED BY <1>1, <1>6, <1>7, <1>8, <1>11

LEMMA JoinedStays ==
  ASSUME FoldsWell, NEW k \in DOMAIN folds, NEW sofar \in JoinedCurves
  PROVE  Joined(sofar, k) \in JoinedCurves
  <1>1. CASE folds[k].curve = <<>> BY <1>1 DEF Joined
  <1>2. CASE folds[k].curve # <<>> BY <1>2, JoinedIs
  <1> QED BY <1>1, <1>2

(* The bars of a fold come after those of the folds before it.             *)
LEMMA BarsAscend ==
  ASSUME NEW k \in Nat, NEW row \in CurveRow, row.fold \in 1..k, PlaceOf(row) \in Int,
         PlaceOf(row) <= BarsPerFold
  PROVE  row.bar <= k * BarsPerFold
  <1>1. PICK B \in Nat : B = BarsPerFold BY FoldsAssumption
  <1>2. PICK f \in Nat : f = row.fold BY DEF CurveRow
  <1>3. row.bar \in Int BY DEF CurveRow
  <1>4. row.bar - (f - 1) * B <= B BY <1>1, <1>2 DEF PlaceOf
  <1>5. (f - 1) * B = B * f - B BY <1>1, <1>2
  <1>6. B * f <= B * k BY <1>1, <1>2, TimesOrdered
  <1>7. B * f \in Int /\ B * k \in Int /\ B * k = k * B OBVIOUS
  <1> QED BY <1>1, <1>3, <1>4, <1>5, <1>6, <1>7

LEMMA JoinedStep ==
  ASSUME FoldsWell, NEW k \in Nat, k + 1 <= Len(folds), NEW sofar, JoinedWell(sofar, k)
  PROVE  JoinedWell(Joined(sofar, k + 1), k + 1)
  <1>1. PICK p : p = k + 1 OBVIOUS
  <1>2. p \in DOMAIN folds /\ p \in Nat BY <1>1, FoldFacts
  <1>3. PICK c : c = folds[p].curve OBVIOUS
  <1>4. c \in Seq(Int) /\ Len(c) <= BarsPerFold BY <1>2, <1>3, FoldFacts
  <1>5. PICK l \in Nat : l = Len(c) BY <1>4, LenProperties
  <1>6. PICK s : s = sofar.rows OBVIOUS
  <1>7. sofar \in JoinedCurves /\ s \in Seq(CurveRow) BY <1>6 DEF JoinedWell, JoinedCurves
  <1>8. PICK m \in Nat : m = Len(s) BY <1>7, LenProperties
  <1>9. RowsWell(s, k) BY <1>6 DEF JoinedWell
  <1>10. /\ m = SumFunction(Restrict(Lengths, 1..k))
         /\ SumFunction(Restrict(Lengths, 1..p)) = m + l
    <2>1. m = SumFunction(Restrict(Lengths, 1..k)) BY <1>8, <1>9 DEF RowsWell
    <2>2. SumFunction(Restrict(Lengths, 1..(k + 1))) = SumFunction(Restrict(Lengths, 1..k)) + Len(folds[k + 1].curve)
      BY FoldFacts, LengthFacts
    <2> QED BY <1>1, <1>3, <1>5, <2>1, <2>2
  <1>11. \A i \in 1..m : /\ s[i] \in CurveRow /\ s[i].fold \in 1..k
                         /\ PlaceOf(s[i]) \in 1..Len(folds[s[i].fold].curve)
    <2>1. \A i \in 1..m : s[i] \in CurveRow BY <1>7, <1>8, ElementOfSeq
    <2> QED BY <1>8, <1>9, <2>1 DEF RowsWell
  <1>12. \A i \in 2..m : MovesAsFold(s[i - 1], s[i]) BY <1>8, <1>9 DEF RowsWell
  <1>13. CASE c = <<>>
    <2>1. Joined(sofar, p) = sofar BY <1>3, <1>13 DEF Joined
    <2>2. l = 0 BY <1>5, <1>13, EmptySeq
    <2>3. Len(s) = SumFunction(Restrict(Lengths, 1..p)) BY <1>8, <1>10, <2>2
    <2>4. \A i \in 1..Len(s) : s[i].fold \in 1..p /\ PlaceOf(s[i]) \in 1..Len(folds[s[i].fold].curve)
      <3> TAKE i \in 1..Len(s)
      <3>1. s[i].fold \in 1..k /\ PlaceOf(s[i]) \in 1..Len(folds[s[i].fold].curve) BY <1>8, <1>11
      <3>2. s[i].fold \in 1..p BY <1>1, <3>1
      <3> QED BY <3>1, <3>2
    <2>5. RowsWell(s, p) BY <1>8, <1>12, <2>3, <2>4 DEF RowsWell
    <2> QED BY <1>1, <1>6, <2>1, <2>5 DEF JoinedWell
  <1>14. CASE c # <<>>
    <2>1. PICK shift \in Int :
            /\ Joined(sofar, p) = [rows |-> s \o Rescaled(p, shift), running |-> c[l] + shift]
            /\ s # <<>> => shift = sofar.running - c[1]
            /\ Joined(sofar, p) \in JoinedCurves
      BY <1>2, <1>3, <1>5, <1>6, <1>7, <1>14, JoinedIs
    <2>2. PICK t : t = Rescaled(p, shift) OBVIOUS
    <2>3. t \in Seq(CurveRow) /\ Len(t) = l BY <1>2, <1>3, <1>5, <2>2, RescaledFacts
    <2>4. l \in Nat \ {0} /\ \A j \in 1..l : c[j] \in Int BY <1>4, <1>5, <1>14, EmptySeq, ElementOfSeq
    <2>5. PICK q \in Int : q = k * BarsPerFold BY FoldsAssumption
    <2>6. \A j \in 1..l : /\ t[j].bar = q + j /\ t[j].fold = p /\ t[j].equity = c[j] + shift
                          /\ PlaceOf(t[j]) = j
      <3>1. \A j \in 1..l : /\ t[j] = [bar |-> (p - 1) * BarsPerFold + j, fold |-> p, equity |-> c[j] + shift]
                            /\ PlaceOf(t[j]) = j
        BY <1>2, <1>3, <1>5, <2>2, RescaledFacts
      <3>2. p - 1 = k BY <1>1
      <3>3. (p - 1) * BarsPerFold = q BY <2>5, <3>2
      <3>4. \A j \in 1..l : t[j] = [bar |-> q + j, fold |-> p, equity |-> c[j] + shift]
        BY <3>1, <3>3, Zenon
      <3>5. \A j \in 1..l : PlaceOf(t[j]) = j BY <3>1, Zenon
      <3>6. ASSUME NEW j \in 1..l PROVE t[j].bar = q + j /\ t[j].fold = p /\ t[j].equity = c[j] + shift
        <4>1. PICK b : b = q + j OBVIOUS
        <4>2. PICK e : e = c[j] + shift OBVIOUS
        <4>3. t[j] = [bar |-> b, fold |-> p, equity |-> e] BY <3>4, <3>6, <4>1, <4>2, Zenon
        <4>4. t[j].bar = b /\ t[j].fold = p /\ t[j].equity = e BY <4>3
        <4> QED BY <4>1, <4>2, <4>4
      <3> QED BY <3>5, <3>6
    <2>7. PICK r : r = s \o t OBVIOUS
    <2>8. r \in Seq(CurveRow) /\ Len(r) = m + l BY <1>7, <1>8, <2>3, <2>7, ConcatProperties
    <2>9. \A i \in 1..m + l : r[i] = IF i <= m THEN s[i] ELSE t[i - m]
      BY <1>7, <1>8, <2>3, <2>7, ConcatProperties
    <2>10. \A i \in 1..m : r[i] = s[i] BY <2>9
    <2>11. \A j \in 1..l : r[m + j] = t[j]
      <3> TAKE j \in 1..l
      <3>1. m + j \in 1..m + l /\ ~(m + j <= m) /\ (m + j) - m = j OBVIOUS
      <3> QED BY <2>9, <3>1
    <2>12. \A i \in 1..m + l : i \notin 1..m => i - m \in 1..l /\ i = m + (i - m) OBVIOUS
    <2>13. \A i \in 1..m + l : r[i].fold \in 1..p /\ PlaceOf(r[i]) \in 1..Len(folds[r[i].fold].curve)
      <3> TAKE i \in 1..m + l
      <3>1. CASE i \in 1..m
        <4>1. r[i] = s[i] BY <2>10, <3>1
        <4>2. s[i].fold \in 1..p BY <1>1, <1>11, <3>1
        <4> QED BY <1>11, <3>1, <4>1, <4>2
      <3>2. CASE i \notin 1..m
        <4>1. PICK j \in 1..l : r[i] = t[j]
          <5>1. i - m \in 1..l /\ i = m + (i - m) BY <2>12, <3>2
          <5> QED BY <2>11, <5>1
        <4>2. t[j].fold = p /\ PlaceOf(t[j]) = j BY <2>6
        <4>3. p \in 1..p BY <1>1, <1>2
        <4> QED BY <1>3, <1>5, <4>1, <4>2, <4>3
      <3> QED BY <3>1, <3>2
    <2>14. ASSUME NEW i \in 2..m + l PROVE MovesAsFold(r[i - 1], r[i])
      <3>1. CASE i <= m
        <4>1. i \in 2..m /\ i \in 1..m /\ i - 1 \in 1..m BY <3>1
        <4>2. r[i] = s[i] /\ r[i - 1] = s[i - 1] BY <2>10, <4>1
        <4> QED BY <1>12, <4>1, <4>2
      <3>2. CASE i = m + 1
        <4>1. m \in 1..m /\ 1 \in 1..l /\ i - 1 = m BY <2>4, <3>2
        <4>2. r[i - 1] = s[m] /\ r[i] = t[1] BY <2>10, <2>11, <3>2, <4>1
        <4>3. s[m] \in CurveRow /\ s[m].fold \in 1..k /\ PlaceOf(s[m]) \in 1..Len(folds[s[m].fold].curve)
          BY <1>11, <4>1
        <4>4. s[m].bar <= q
          <5>1. s[m].fold \in DOMAIN folds BY <4>3, FoldFacts
          <5>2. Len(folds[s[m].fold].curve) <= BarsPerFold /\ Len(folds[s[m].fold].curve) \in Nat
            BY <5>1, FoldFacts, LenProperties
          <5>3. PlaceOf(s[m]) \in Int /\ PlaceOf(s[m]) <= BarsPerFold BY <4>3, <5>2, FoldsAssumption
          <5> QED BY <2>5, <4>3, <5>3, BarsAscend
        <4>5. t[1].bar = q + 1 /\ t[1].fold = p /\ t[1].equity = c[1] + shift BY <2>6, <4>1
        <4>6. s # <<>> BY <1>8, <4>1, EmptySeq
        <4>7. s[m].equity = sofar.running BY <1>6, <1>8, <4>6 DEF JoinedWell
        <4>8. shift = s[m].equity - c[1] BY <2>1, <4>6, <4>7
        <4>9. s[m].bar \in Int /\ s[m].equity \in Int /\ c[1] \in Int BY <2>4, <4>1, <4>3 DEF CurveRow
        <4>10. s[m].fold # t[1].fold BY <1>1, <4>3, <4>5
        <4>11. s[m].bar < t[1].bar BY <4>4, <4>5, <4>9
        <4>12. t[1].equity - s[m].equity = 0 BY <4>5, <4>8, <4>9
        <4> QED BY <4>2, <4>10, <4>11, <4>12 DEF MovesAsFold
      <3>3. CASE i > m + 1
        <4>1. PICK j \in 2..l : i = m + j
          <5>1. i - m \in 2..l /\ i = m + (i - m) BY <3>3
          <5> QED BY <5>1
        <4>2. PICK h \in 1..l : h = j - 1 OBVIOUS
        <4>3. i - 1 = m + h /\ j \in 1..l BY <4>1, <4>2
        <4>4. r[i - 1] = t[h] /\ r[i] = t[j] BY <2>11, <4>1, <4>3
        <4>5. t[h].bar = q + h /\ t[j].bar = q + j /\ t[h].fold = p /\ t[j].fold = p
              /\ t[h].equity = c[h] + shift /\ t[j].equity = c[j] + shift /\ PlaceOf(t[j]) = j
          BY <2>6, <4>3
        <4>6. c[h] \in Int /\ c[j] \in Int BY <2>4, <4>3
        <4>7. t[h].bar < t[j].bar BY <4>2, <4>5
        <4>8. t[j].equity - t[h].equity = c[j] - c[h] BY <4>5, <4>6
        <4>9. c[j] - c[h] = folds[t[j].fold].curve[PlaceOf(t[j])] - folds[t[j].fold].curve[PlaceOf(t[j]) - 1]
          BY <1>3, <4>2, <4>5
        <4>10. t[h].fold = t[j].fold BY <4>5
        <4> QED BY <4>4, <4>7, <4>8, <4>9, <4>10 DEF MovesAsFold
      <3> QED BY <3>1, <3>2, <3>3
    <2>15. r[m + l].equity = c[l] + shift
      <3>1. l \in 1..l BY <2>4
      <3> QED BY <2>6, <2>11, <3>1
    <2>16. RowsWell(r, p) BY <1>10, <2>8, <2>13, <2>14 DEF RowsWell
    <2>17. Joined(sofar, p).rows = r /\ Joined(sofar, p).running = c[l] + shift BY <2>1, <2>2, <2>7
    <2> QED BY <1>1, <2>1, <2>8, <2>15, <2>16, <2>17 DEF JoinedWell
  <1> QED BY <1>13, <1>14

(* The folds joined one after the other.                                   *)
Joining(D, g) ==
  g = [s \in D |-> IF s = {} THEN [rows |-> <<>>, running |-> 0]
                   ELSE Joined(g[s \ {Max(s)}], [k \in DOMAIN folds |-> k][Max(s)])]

Joins == CHOOSE g : Joining(SUBSET DOMAIN [k \in DOMAIN folds |-> k], g)

LEMMA ConcatenatedIsLast == Concatenated = Joins[DOMAIN [k \in DOMAIN folds |-> k]].rows
  BY Zenon DEF Concatenated, FoldLeft, MapThenFoldSet, Joins, Joining

LEMMA JoinSteps ==
  ASSUME FoldsWell
  PROVE  /\ Joins[{}] = [rows |-> <<>>, running |-> 0]
         /\ \A m \in Nat : m + 1 <= Len(folds) => Joins[1..(m + 1)] = Joined(Joins[1..m], m + 1)
  <1>1. PICK n \in Nat : n = Len(folds) BY FoldFacts
  <1>2. DOMAIN folds = 1..n BY <1>1, FoldFacts
  <1>3. PICK D : D = SUBSET (1..n) OBVIOUS
  <1>4. PICK id : id = [k \in DOMAIN folds |-> k] OBVIOUS
  <1>5. DOMAIN id = 1..n /\ \A k \in 1..n : id[k] = k BY <1>2, <1>4
  <1>6. PICK base : base = [rows |-> <<>>, running |-> 0] OBVIOUS
  <1>7. base \in JoinedCurves BY <1>6 DEF JoinedCurves
  <1>8. PICK F : F = [i \in 1..n |-> [c \in JoinedCurves |-> Joined(c, i)]] OBVIOUS
  <1>9. F \in [1..n -> [JoinedCurves -> JoinedCurves]]
    <2>1. \A i \in 1..n, c \in JoinedCurves : Joined(c, i) \in JoinedCurves BY <1>2, JoinedStays
    <2> QED BY <1>8, <2>1
  <1>10. \A i \in 1..n, c \in JoinedCurves : F[i][c] = Joined(c, i) BY <1>8
  <1>11. PICK g \in [SUBSET (1..n) -> JoinedCurves] : IsFold(g, n, base, F)
    BY <1>7, <1>9, FoldExists, Zenon
  <1>12. \A s \in D : s # {} => Max(s) \in 1..n /\ s \ {Max(s)} \in D
    <2> SUFFICES ASSUME NEW s \in SUBSET (1..n), s # {}
                 PROVE  Max(s) \in 1..n /\ s \ {Max(s)} \in SUBSET (1..n)
      BY <1>3
    <2>1. Max(s) \in s /\ s \ {Max(s)} \in SUBSET (1..n) BY SmallerSets
    <2> QED BY <2>1
  <1>13. g \in [D -> JoinedCurves] BY <1>3, <1>11
  <1>14. \A s \in D : g[s] = IF s = {} THEN base ELSE Joined(g[s \ {Max(s)}], id[Max(s)])
    <2>1. \A s \in D : g[s] = IF s = {} THEN base ELSE F[Max(s)][g[s \ {Max(s)}]]
      BY <1>3, <1>11, Zenon DEF IsFold
    <2>2. ASSUME NEW s \in D, s # {}
          PROVE  F[Max(s)][g[s \ {Max(s)}]] = Joined(g[s \ {Max(s)}], id[Max(s)])
      <3>1. PICK x : x = Max(s) OBVIOUS
      <3>2. PICK y : y = g[s \ {Max(s)}] OBVIOUS
      <3>3. x \in 1..n /\ y \in JoinedCurves BY <1>12, <1>13, <2>2, <3>1, <3>2
      <3>4. F[x][y] = Joined(y, x) /\ id[x] = x BY <1>5, <1>10, <3>3
      <3> QED BY <3>1, <3>2, <3>4, Zenon
    <2> QED BY <2>1, <2>2, Zenon
  <1>15. g = [s \in D |-> IF s = {} THEN base ELSE Joined(g[s \ {Max(s)}], id[Max(s)])]
    <2>1. g = [s \in D |-> g[s]] BY <1>13
    <2> QED BY <1>14, <2>1, Zenon
  <1>16. Joining(D, g) BY <1>4, <1>6, <1>15, Zenon DEF Joining
  <1>17. D = SUBSET DOMAIN [k \in DOMAIN folds |-> k] BY <1>3, <1>4, <1>5
  <1>18. PICK G : G = Joins OBVIOUS
  <1>19. Joining(D, G)
    <2>1. G = CHOOSE h : Joining(D, h) BY <1>17, <1>18, Zenon DEF Joins
    <2>2. \E h : Joining(D, h) BY <1>16, Zenon
    <2> QED BY <2>1, <2>2, Zenon
  <1>20. G = [s \in D |-> IF s = {} THEN base ELSE Joined(G[s \ {Max(s)}], id[Max(s)])]
    BY <1>4, <1>6, <1>19, Zenon DEF Joining
  <1>21. \A s \in D : G[s] = IF s = {} THEN base ELSE Joined(G[s \ {Max(s)}], id[Max(s)])
    BY <1>20, Zenon
  <1>22. G[{}] = base
    <2>1. {} \in D BY <1>3
    <2> QED BY <1>21, <2>1, Zenon
  <1>23. ASSUME NEW m \in Nat, m + 1 <= n PROVE G[1..(m + 1)] = Joined(G[1..m], m + 1)
    <2>1. PICK s : s = 1..(m + 1) OBVIOUS
    <2>2. s \in D /\ s # {} /\ Max(s) = m + 1 /\ s \ {m + 1} = 1..m BY <1>3, <1>23, <2>1, FirstPlaces
    <2>3. G[s] = Joined(G[s \ {Max(s)}], id[Max(s)]) BY <1>21, <2>2, Zenon
    <2>4. id[m + 1] = m + 1
      <3>1. m + 1 \in 1..n BY <1>23
      <3> QED BY <1>5, <3>1
    <2>5. G[s] = Joined(G[1..m], m + 1) BY <2>2, <2>3, <2>4, Zenon
    <2> QED BY <2>1, <2>5, Zenon
  <1> QED BY <1>1, <1>6, <1>18, <1>22, <1>23, Zenon

(* By induction over the folds joined so far.                              *)
LEMMA ConcatenatedFacts ==
  ASSUME FoldsWell
  PROVE  Concatenated \in Seq(CurveRow) /\ RowsWell(Concatenated, Len(folds))
  <1>1. PICK n \in Nat : n = Len(folds) BY FoldFacts
  <1>2. DOMAIN folds = 1..n BY <1>1, FoldFacts
  <1>3. PICK N : N = {m \in Nat : m <= n => JoinedWell(Joins[1..m], m)} OBVIOUS
  <1>4. 0 \in N
    <2>1. 1..0 = {} OBVIOUS
    <2>2. Joins[1..0] = [rows |-> <<>>, running |-> 0] BY <2>1, JoinSteps
    <2>3. PICK j : j = Joins[1..0] OBVIOUS
    <2>4. j = [rows |-> <<>>, running |-> 0] BY <2>2, <2>3
    <2>5. j \in JoinedCurves BY <2>4 DEF JoinedCurves
    <2>6. SumFunction(Restrict(Lengths, 1..0)) = 0 BY <1>1, LengthFacts
    <2>7. j.rows = <<>> BY <2>4
    <2>8. Len(j.rows) = 0 BY <2>7
    <2>9. RowsWell(j.rows, 0)
      <3>1. \A i : i \notin 1..Len(j.rows) /\ i \notin 2..Len(j.rows) BY <2>8
      <3> QED BY <2>6, <2>8, <3>1 DEF RowsWell
    <2>10. JoinedWell(j, 0) BY <2>5, <2>7, <2>9 DEF JoinedWell
    <2> QED BY <1>3, <2>3, <2>10
  <1>5. ASSUME NEW m \in Nat, m \in N PROVE m + 1 \in N
    <2>1. ASSUME m + 1 <= n PROVE JoinedWell(Joins[1..(m + 1)], m + 1)
      <3>1. JoinedWell(Joins[1..m], m) BY <1>3, <1>5, <2>1
      <3>2. JoinedWell(Joined(Joins[1..m], m + 1), m + 1) BY <1>1, <2>1, <3>1, JoinedStep
      <3>3. Joins[1..(m + 1)] = Joined(Joins[1..m], m + 1) BY <1>1, <2>1, JoinSteps
      <3> QED BY <3>2, <3>3
    <2> QED BY <1>3, <2>1
  <1>6. n \in N BY <1>4, <1>5, NatSetInduction
  <1>7. JoinedWell(Joins[1..n], n) BY <1>3, <1>6
  <1>8. Concatenated = Joins[1..n].rows
    <2>1. DOMAIN [k \in DOMAIN folds |-> k] = 1..n BY <1>2
    <2> QED BY <2>1, ConcatenatedIsLast
  <1> QED BY <1>1, <1>7, <1>8 DEF JoinedWell, JoinedCurves

(* A curve that is in order is not reordered, and no row of it is dropped. *)
LEMMA CombinedIsConcatenated ==
  ASSUME FoldsWell
  PROVE  CombinedTestEquityCurve = Concatenated
  <1>1. PICK c : c = Concatenated OBVIOUS
  <1>2. PICK m \in Nat : m = Len(c) BY <1>1, ConcatenatedFacts, LenProperties
  <1>3. DOMAIN c = 1..m /\ c = [i \in 1..m |-> c[i]] BY <1>1, <1>2, ConcatenatedFacts, LenProperties
  <1>4. \A i \in 1..m : c[i].bar \in Int
    <2>1. \A i \in 1..m : c[i] \in CurveRow BY <1>1, <1>2, ConcatenatedFacts, ElementOfSeq
    <2> QED BY <2>1 DEF CurveRow
  <1>5. \A i \in 2..m : c[i - 1].bar < c[i].bar
    BY <1>1, <1>2, ConcatenatedFacts DEF RowsWell, MovesAsFold
  <1>6. \A i, j \in 1..m : i < j => c[i].bar < c[j].bar
    <2>1. PICK N : N = {d \in Nat : \A i \in 1..m : i + (d + 1) <= m => c[i].bar < c[i + (d + 1)].bar}
      OBVIOUS
    <2>2. ASSUME NEW i \in 1..m, i + 1 <= m PROVE c[i].bar < c[i + 1].bar
      <3>1. i + 1 \in 2..m /\ (i + 1) - 1 = i BY <2>2
      <3> QED BY <1>5, <3>1
    <2>3. 0 \in N BY <2>1, <2>2
    <2>4. ASSUME NEW d \in Nat, d \in N PROVE d + 1 \in N
      <3>1. PICK e \in Nat : e = d + 1 OBVIOUS
      <3>2. ASSUME NEW i \in 1..m, i + (e + 1) <= m PROVE c[i].bar < c[i + (e + 1)].bar
        <4>1. PICK j : j = i + e OBVIOUS
        <4>2. j \in 1..m /\ j + 1 <= m /\ j = i + (d + 1) /\ j + 1 = i + (e + 1) /\ j + 1 \in 1..m
          BY <3>1, <3>2, <4>1
        <4>3. c[i].bar < c[j].bar BY <2>1, <2>4, <4>2
        <4>4. c[j].bar < c[j + 1].bar BY <2>2, <4>2
        <4> QED BY <1>4, <4>2, <4>3, <4>4
      <3>3. e \in N BY <2>1, <3>2
      <3> QED BY <3>1, <3>3
    <2>5. Nat \subseteq N BY <2>3, <2>4, NatSetInduction
    <2>6. ASSUME NEW i \in 1..m, NEW j \in 1..m, i < j PROVE c[i].bar < c[j].bar
      <3>1. PICK d \in Nat : j = i + (d + 1)
        <4>1. j - i - 1 \in Nat /\ j = i + ((j - i - 1) + 1) BY <2>6
        <4> QED BY <4>1
      <3>2. d \in N BY <2>5
      <3> QED BY <2>1, <3>1, <3>2
    <2> QED BY <2>6
  <1>7. PICK lasts : lasts = {i \in DOMAIN c : ~(\E j \in i + 1..Len(c) : c[j].bar = c[i].bar)} OBVIOUS
  <1>8. CombinedTestEquityCurve =
          [n \in 1..Cardinality(lasts) |->
             c[CHOOSE i \in lasts : Cardinality({j \in lasts : c[j].bar <= c[i].bar}) = n]]
    BY <1>1, <1>7 DEF CombinedTestEquityCurve
  <1>9. lasts = 1..m
    <2>1. ASSUME NEW i \in 1..m, NEW j \in i + 1..m PROVE c[j].bar # c[i].bar
      <3>1. j \in 1..m /\ i < j OBVIOUS
      <3>2. c[i].bar < c[j].bar BY <1>6, <3>1
      <3> QED BY <1>4, <3>1, <3>2
    <2> QED BY <1>2, <1>3, <1>7, <2>1
  <1>10. Cardinality(lasts) = m
    <2>1. Cardinality(1..m) = IF 1 > m THEN 0 ELSE m - 1 + 1 BY FS_Interval
    <2> QED BY <1>9, <2>1
  <1>11. ASSUME NEW i \in 1..m PROVE Cardinality({j \in lasts : c[j].bar <= c[i].bar}) = i
    <2>1. {j \in lasts : c[j].bar <= c[i].bar} = 1..i
      <3>1. ASSUME NEW j \in 1..m PROVE c[j].bar <= c[i].bar <=> j <= i
        <4>1. CASE j < i BY <1>4, <1>6, <4>1
        <4>2. CASE j = i BY <1>4, <4>2
        <4>3. CASE i < j
          <5>1. c[i].bar < c[j].bar BY <1>6, <4>3
          <5> QED BY <1>4, <4>3, <5>1
        <4> QED BY <4>1, <4>2, <4>3
      <3> QED BY <1>9, <3>1
    <2>2. Cardinality(1..i) = IF 1 > i THEN 0 ELSE i - 1 + 1 BY FS_Interval
    <2>3. PICK S : S = 1..i OBVIOUS
    <2>4. Cardinality(S) = i BY <2>2, <2>3
    <2>5. {j \in lasts : c[j].bar <= c[i].bar} = S BY <2>1, <2>3
    <2> QED BY <2>4, <2>5, Zenon
  <1>12. ASSUME NEW n \in 1..m
         PROVE  (CHOOSE i \in lasts : Cardinality({j \in lasts : c[j].bar <= c[i].bar}) = n) = n
    <2>1. n \in lasts /\ Cardinality({j \in lasts : c[j].bar <= c[n].bar}) = n BY <1>9, <1>11
    <2>2. \A i \in lasts : Cardinality({j \in lasts : c[j].bar <= c[i].bar}) = n => i = n BY <1>9, <1>11
    <2> QED BY <2>1, <2>2, Zenon
  <1>13. CombinedTestEquityCurve = [n \in 1..m |-> c[n]]
    <2>1. CombinedTestEquityCurve =
            [n \in 1..m |-> c[CHOOSE i \in lasts : Cardinality({j \in lasts : c[j].bar <= c[i].bar}) = n]]
      BY <1>8, <1>10, Zenon
    <2>2. \A n \in 1..m : c[CHOOSE i \in lasts : Cardinality({j \in lasts : c[j].bar <= c[i].bar}) = n] = c[n]
      BY <1>12, Zenon
    <2> QED BY <2>1, <2>2, Zenon
  <1> QED BY <1>1, <1>3, <1>13

LEMMA AccountFacts == ASSUME FoldsWell PROVE OneAccount
  <1>1. PICK c : c = CombinedTestEquityCurve OBVIOUS
  <1>2. RowsWell(c, Len(folds)) BY <1>1, CombinedIsConcatenated, ConcatenatedFacts
  <1>3. Len(c) = SumFunction([k \in DOMAIN folds |-> Len(folds[k].curve)])
    <2>1. PICK n \in Nat : n = Len(folds) BY FoldFacts
    <2>2. Len(c) = SumFunction(Restrict(Lengths, 1..n)) BY <1>2, <2>1 DEF RowsWell
    <2>3. Lengths \in Amounts(1..n) BY <2>1, LengthFacts
    <2>4. Restrict(Lengths, 1..n) = Lengths BY <2>3, SumOfNone
    <2> QED BY <2>2, <2>4 DEF Lengths
  <1>4. \A i \in 2..Len(c) :
          LET before == c[i-1]  now == c[i]
              curve == folds[now.fold].curve
              j == now.bar - (now.fold - 1) * BarsPerFold
          IN  /\ before.bar < now.bar
              /\ now.equity - before.equity =
                   IF before.fold = now.fold THEN curve[j] - curve[j-1] ELSE 0
    <2>1. \A i \in 2..Len(c) : MovesAsFold(c[i - 1], c[i]) BY <1>2 DEF RowsWell
    <2> QED BY <2>1, Zenon DEF MovesAsFold, PlaceOf
  <1> QED BY <1>1, <1>3, <1>4, Zenon DEF OneAccount

(* What a walk-forward study reports of its folds, whatever they yield:    *)
(* combined_test_equity_curve is one account that traded them in turn, and *)
(* aggregate_metrics, parameter_stability, is_oos_correlation and          *)
(* overfitting_score (WalkForwardResult, WalkForwardValidator) do not      *)
(* contradict what every fold shows.                                       *)
THEOREM StudyReportsCorrect == FoldsSpec => []StudySound
<1>1. FoldsInit => FoldsWell BY DEF FoldsInit, FoldsWell
<1>2. FoldsWell /\ [RunFold]_folds => FoldsWell' BY DEF RunFold, FoldsWell
<1>3. FoldsWell => StudySound BY AccountFacts, MeasuresFacts DEF StudySound
<1> QED BY <1>1, <1>2, <1>3, PTL DEF FoldsSpec

----------------------------------------------------------------------------
(* What is made of a finished run (Diagnosis).  The four analysers of the  *)
(* positions: ratios of the same equity, each rounded on its own.          *)

(* A finished run, of rows as they can be.                                 *)
RunWell == rows \in Seq(RunBars)

LEMMA RunFacts ==
  ASSUME RunWell
  PROVE  /\ Len(rows) \in Nat /\ DOMAIN rows = 1..Len(rows) /\ IsFiniteSet(DOMAIN rows)
         /\ \A i \in DOMAIN rows :
              /\ rows[i] \in RunBars /\ rows[i].equity \in Nat /\ rows[i].values \in [Symbols -> Int]
              /\ rows[i].price \in Nat \ {0} /\ rows[i].ret \in Int /\ rows[i].realised_vol \in Nat
  <1>1. Len(rows) \in Nat /\ DOMAIN rows = 1..Len(rows) /\ \A i \in 1..Len(rows) : rows[i] \in RunBars
    BY LenProperties, ElementOfSeq DEF RunWell
  <1>2. IsFiniteSet(1..Len(rows)) BY <1>1, FS_Interval
  <1> QED BY <1>1, <1>2, DiagnosisAssumption

LEMMA SizeIs ==
  ASSUME NEW x \in Int
  PROVE  /\ SizeOf(x) = (IF x >= 0 THEN x ELSE -x) /\ SizeOf(x) \in Nat
         /\ Positive(x) = (IF x >= 0 THEN x ELSE 0) /\ Positive(x) \in Nat
         /\ x <= SizeOf(x) /\ -x <= SizeOf(x)
  <1>1. PICK y \in Int : y = -x OBVIOUS
  <1>2. x + y = 0 BY <1>1, NegativeIs
  <1>3. SizeOf(x) = IF x >= y THEN x ELSE y BY <1>1, GreaterOfTwo DEF SizeOf
  <1>4. Positive(x) = IF x >= 0 THEN x ELSE 0 BY GreaterOfTwo DEF Positive
  <1>5. SizeOf(x) = IF x >= 0 THEN x ELSE y BY <1>2, <1>3
  <1>6. SizeOf(x) \in Nat /\ x <= SizeOf(x) /\ y <= SizeOf(x) BY <1>2, <1>5
  <1>7. Positive(x) \in Nat BY <1>4
  <1> QED BY <1>1, <1>4, <1>5, <1>6, <1>7

(* The equity a row is measured by is one of the run's, and not 0.         *)
LEMMA EquityFacts ==
  ASSUME RunWell
  PROVE  /\ Defined \in SUBSET DOMAIN rows /\ IsFiniteSet(Defined)
         /\ \A i \in Defined : EquityAt(i) \in Nat \ {0}
         /\ \A i \in DOMAIN rows : rows[i].equity # 0 => i \in Defined /\ EquityAt(i) = rows[i].equity
         /\ NoValue \in Int /\ NoValue < -1000
  <1>1. Defined \in SUBSET DOMAIN rows /\ IsFiniteSet(Defined)
    BY RunFacts, FS_Subset DEF Defined
  <1>2. NoValue \in Int /\ NoValue < -1000 BY DEF NoValue
  <1>3. ASSUME NEW i \in DOMAIN rows
        PROVE  /\ i \in Defined => EquityAt(i) \in Nat \ {0}
               /\ rows[i].equity # 0 => i \in Defined /\ EquityAt(i) = rows[i].equity
    <2>1. PICK known : known = {j \in 1..i : rows[j].equity # 0} OBVIOUS
    <2>2. i \in Nat \ {0} /\ 1..i \subseteq DOMAIN rows BY RunFacts
    <2>3. known \in SUBSET (1..i) BY <2>1
    <2>4. known # {} => Max(known) \in known BY <2>2, <2>3, SmallerSets
    <2>5. EquityAt(i) = IF known = {} THEN NoValue ELSE rows[Max(known)].equity
      BY <2>1 DEF EquityAt
    <2>6. ASSUME i \in Defined PROVE EquityAt(i) \in Nat \ {0}
      <3>1. known # {} BY <2>5, <2>6 DEF Defined
      <3>2. PICK m : m = Max(known) OBVIOUS
      <3>3. m \in DOMAIN rows /\ rows[m].equity # 0 BY <2>1, <2>2, <2>4, <3>1, <3>2
      <3>4. rows[m].equity \in Nat BY <3>3, RunFacts
      <3> QED BY <2>5, <3>1, <3>2, <3>3, <3>4
    <2>7. ASSUME rows[i].equity # 0 PROVE i \in Defined /\ EquityAt(i) = rows[i].equity
      <3>1. i \in known BY <2>1, <2>2, <2>7
      <3>2. known \subseteq Int /\ \A y \in known : i >= y BY <2>2, <2>3
      <3>3. Max(known) = i BY <3>1, <3>2, ExtremeIs
      <3>4. EquityAt(i) = rows[i].equity BY <2>5, <3>1, <3>3
      <3>5. rows[i].equity \in Nat BY RunFacts
      <3>6. EquityAt(i) # NoValue BY <1>2, <3>4, <3>5
      <3> QED BY <3>4, <3>6 DEF Defined
    <2> QED BY <2>6, <2>7
  <1> QED BY <1>1, <1>2, <1>3

LEMMA PerEquityFacts ==
  ASSUME RunWell, NEW i \in Defined, NEW e \in Nat \ {0}, e = EquityAt(i), NEW x \in Int
  PROVE  /\ PerEquity(x, i) = (100 * x) \div e /\ PerEquity(x, i) \in Int
         /\ e * PerEquity(x, i) <= 100 * x /\ 100 * x <= e * PerEquity(x, i) + e - 1
         /\ x >= 0 => PerEquity(x, i) >= 0
         /\ x = 0 => PerEquity(x, i) = 0
  <1>1. PerEquity(x, i) = (100 * x) \div e BY DEF PerEquity
  <1>2. PICK q \in Int : q = (100 * x) \div e OBVIOUS
  <1>3. 100 * x \in Int OBVIOUS
  <1>4. e * q <= 100 * x /\ 100 * x < e * q + e BY <1>2, <1>3, DivFloor
  <1>5. e * q \in Int OBVIOUS
  <1>6. e * q <= 100 * x /\ 100 * x <= e * q + e - 1 BY <1>3, <1>4, <1>5
  <1>7. x >= 0 => q >= 0
    <2>1. 0 \div e = 0 OBVIOUS
    <2>2. x >= 0 => e * 0 <= 100 * x BY <1>3
    <2>3. ASSUME x >= 0, q < 0 PROVE FALSE
      <3>1. e * (q + 1) <= e * 0 BY <2>3, TimesOrdered
      <3>2. e * (q + 1) = e * q + e OBVIOUS
      <3> QED BY <1>3, <1>5, <1>6, <2>3, <3>1, <3>2
    <2> QED BY <2>3
  <1>8. x = 0 => q = 0
    <2>1. 0 \div e = 0 OBVIOUS
    <2> QED BY <1>2, <2>1
  <1> QED BY <1>1, <1>2, <1>6, <1>7, <1>8

(* Rounding each of some amounts loses less than one for each of them.     *)
LEMMA SumOfFloors ==
  ASSUME NEW S, IsFiniteSet(S), NEW e \in Nat \ {0}, NEW f \in Amounts(S), NEW g \in Amounts(S),
         NEW low \in Int, \A x \in S : 100 * f[x] + low <= e * g[x] /\ e * g[x] <= 100 * f[x] + e - 1,
         NEW n \in Nat, n = Cardinality(S)
  PROVE  /\ e * SumFunction(g) <= 100 * SumFunction(f) + n * (e - 1)
         /\ 100 * SumFunction(f) + n * low <= e * SumFunction(g)
         /\ SumFunction(f) \in Int /\ SumFunction(g) \in Int
  <1>1. \A x \in S : f[x] \in Int /\ g[x] \in Int BY DEF Amounts
  <1>2. PICK a : a = [x \in S |-> e * g[x]] OBVIOUS
  <1>3. PICK b : b = [x \in S |-> 100 * f[x] + (e - 1)] OBVIOUS
  <1>4. PICK c : c = [x \in S |-> 100 * f[x] + low] OBVIOUS
  <1>5. a \in Amounts(S) /\ b \in Amounts(S) /\ c \in Amounts(S) BY <1>1, <1>2, <1>3, <1>4 DEF Amounts
  <1>6. \A x \in S : c[x] <= a[x] /\ a[x] <= b[x]
    <2> SUFFICES ASSUME NEW x \in S PROVE c[x] <= a[x] /\ a[x] <= b[x]
      OBVIOUS
    <2>1. 100 * f[x] + low <= e * g[x] /\ e * g[x] <= 100 * f[x] + e - 1 OBVIOUS
    <2>2. e * g[x] \in Int /\ 100 * f[x] \in Int BY <1>1
    <2> QED BY <1>2, <1>3, <1>4, <2>1, <2>2
  <1>7. SumFunction(a) = e * SumFunction(g) BY <1>2, <1>5, SumScaled
  <1>8. SumFunction(f) \in Int /\ SumFunction(g) \in Int BY SumType
  <1>9. SumFunction(b) = 100 * SumFunction(f) + n * (e - 1)
    <2>1. \A x \in S : b[x] = 100 * f[x] + 0 * f[x] + 0 * f[x] + (e - 1) BY <1>1, <1>3
    <2>2. e - 1 \in Int OBVIOUS
    <2>3. SumFunction(b) = 100 * SumFunction(f) + 0 * SumFunction(f) + 0 * SumFunction(f)
                           + Cardinality(S) * (e - 1)
      BY <1>5, <2>1, <2>2, SumCombined
    <2> QED BY <1>8, <2>3
  <1>10. SumFunction(c) = 100 * SumFunction(f) + n * low
    <2>1. \A x \in S : c[x] = 100 * f[x] + 0 * f[x] + 0 * f[x] + low BY <1>1, <1>4
    <2>2. SumFunction(c) = 100 * SumFunction(f) + 0 * SumFunction(f) + 0 * SumFunction(f)
                           + Cardinality(S) * low
      BY <1>5, <2>1, SumCombined
    <2> QED BY <1>8, <2>2
  <1>11. SumFunction(c) <= SumFunction(a) /\ SumFunction(a) <= SumFunction(b)
    <2>1. SumFunction(c) <= SumFunction(a) BY <1>5, <1>6, SumMonotone
    <2>2. SumFunction(a) <= SumFunction(b) BY <1>5, <1>6, SumMonotone
    <2> QED BY <2>1, <2>2
  <1> QED BY <1>7, <1>8, <1>9, <1>10, <1>11

(* What is held of each symbol, and its weight: the weights add up to the  *)
(* gross exposure, and but for rounding to the leverage.                   *)
Sizes(i) == [s \in Symbols |-> SizeOf(rows[i].values[s])]
Weights(i) == [s \in Symbols |-> Weight(i, s)]

LEMMA HeldFacts ==
  ASSUME RunWell, NEW i \in Defined
  PROVE  /\ IsFiniteSet(Symbols) /\ Symbols # {}
         /\ Cardinality(Symbols) \in Nat \ {0}
         /\ rows[i].values \in Amounts(Symbols)
         /\ Sizes(i) \in Amounts(Symbols)
         /\ \A s \in Symbols :
              /\ Sizes(i)[s] >= 0 /\ Sizes(i)[s] = SizeOf(rows[i].values[s])
              /\ Sizes(i)[s] * Sizes(i)[s] = rows[i].values[s] * rows[i].values[s]
              /\ Sizes(i)[s] = 0 <=> rows[i].values[s] = 0
         /\ GrossHeld(i) = SumFunction(Sizes(i)) /\ GrossHeld(i) \in Nat
         /\ Weights(i) \in Amounts(Symbols)
         /\ \A s \in Symbols : Weights(i)[s] = Weight(i, s) /\ Weight(i, s) >= 0 /\ Weight(i, s) \in Int
  <1>1. IsFiniteSet(Symbols) /\ Symbols # {} BY DiagnosisAssumption
  <1>2. Cardinality(Symbols) \in Nat \ {0} BY <1>1, FS_CardinalityType, FS_EmptySet
  <1>3. rows[i].values \in [Symbols -> Int] BY EquityFacts, RunFacts
  <1>4. PICK v \in [Symbols -> Int] : v = rows[i].values BY <1>3
  <1>5. \A s \in Symbols : v[s] \in Int BY <1>4
  <1>6. \A s \in Symbols : /\ Sizes(i)[s] = SizeOf(v[s]) /\ Sizes(i)[s] \in Nat
                           /\ Sizes(i)[s] = IF v[s] >= 0 THEN v[s] ELSE -v[s]
    BY <1>4, <1>5, SizeIs DEF Sizes
  <1>7. ASSUME NEW s \in Symbols
        PROVE  /\ Sizes(i)[s] * Sizes(i)[s] = v[s] * v[s]
               /\ Sizes(i)[s] = 0 <=> v[s] = 0
    <2>1. PICK x \in Int : x = v[s] BY <1>5
    <2>2. PICK y \in Int : y = Sizes(i)[s] BY <1>6
    <2>3. y = IF x >= 0 THEN x ELSE -x BY <1>6, <2>1, <2>2
    <2>4. x + y = 0 \/ y = x BY <2>3, NegativeIs
    <2>5. y * y = x * x
      <3>1. CASE y = x BY <3>1
      <3>2. CASE x + y = 0
        <4>1. y = 0 - x BY <3>2
        <4>2. (0 - x) * (0 - x) = x * x OBVIOUS
        <4> QED BY <4>1, <4>2
      <3> QED BY <2>4, <3>1, <3>2
    <2>6. y = 0 <=> x = 0 BY <2>4
    <2> QED BY <2>1, <2>2, <2>5, <2>6
  <1>8. Sizes(i) \in Amounts(Symbols) BY <1>6 DEF Amounts, Sizes
  <1>9. GrossHeld(i) = SumFunction(Sizes(i)) BY DEF GrossHeld, Sizes
  <1>10. SumFunction(Sizes(i)) >= 0 /\ SumFunction(Sizes(i)) \in Int
    BY <1>1, <1>6, <1>8, SumOfNaturals, SumType
  <1>11. PICK e \in Nat \ {0} : e = EquityAt(i) BY EquityFacts
  <1>12. \A s \in Symbols : Weight(i, s) \in Int /\ Weight(i, s) >= 0
    <2> SUFFICES ASSUME NEW s \in Symbols PROVE Weight(i, s) \in Int /\ Weight(i, s) >= 0
      OBVIOUS
    <2>1. PICK x \in Nat : x = SizeOf(v[s]) BY <1>6
    <2>2. PerEquity(x, i) \in Int /\ PerEquity(x, i) >= 0 BY <1>11, <2>1, PerEquityFacts
    <2> QED BY <1>4, <2>1, <2>2 DEF Weight
  <1>13. Weights(i) \in Amounts(Symbols) /\ \A s \in Symbols : Weights(i)[s] = Weight(i, s)
    BY <1>12 DEF Weights, Amounts
  <1>14. v \in Amounts(Symbols) BY DEF Amounts
  <1> QED BY <1>1, <1>2, <1>4, <1>6, <1>7, <1>8, <1>9, <1>10, <1>12, <1>13, <1>14

(* Leverage and the weights: rounded once, and once for each symbol.       *)
LEMMA LeverageFacts ==
  ASSUME RunWell, NEW i \in Defined
  PROVE  /\ GrossLeverage(i) \in Nat /\ SumFunction(Weights(i)) \in Nat
         /\ SumFunction(Weights(i)) <= GrossLeverage(i)
         /\ GrossLeverage(i) < SumFunction(Weights(i)) + Cardinality(Symbols)
         /\ \A s \in Symbols : Weight(i, s) <= GrossLeverage(i)
  <1>1. PICK n \in Nat \ {0} : n = Cardinality(Symbols) BY HeldFacts
  <1>2. PICK e \in Nat \ {0} : e = EquityAt(i) BY EquityFacts
  <1>3. PICK t \in Nat : t = GrossHeld(i) BY HeldFacts
  <1>4. PICK a \in Amounts(Symbols) : a = Sizes(i) BY HeldFacts
  <1>5. PICK w \in Amounts(Symbols) : w = Weights(i) BY HeldFacts
  <1>6. t = SumFunction(a) /\ IsFiniteSet(Symbols) BY <1>3, <1>4, HeldFacts
  <1>7. \A s \in Symbols : 100 * a[s] + (1 - e) <= e * w[s] /\ e * w[s] <= 100 * a[s] + e - 1
    <2> SUFFICES ASSUME NEW s \in Symbols
                 PROVE  100 * a[s] + (1 - e) <= e * w[s] /\ e * w[s] <= 100 * a[s] + e - 1
      OBVIOUS
    <2>1. PICK x \in Int : x = a[s] BY <1>4 DEF Amounts
    <2>2. PICK y \in Int : y = w[s] BY <1>5 DEF Amounts
    <2>3. x = SizeOf(rows[i].values[s]) /\ y = Weight(i, s) BY <1>4, <1>5, <2>1, <2>2, HeldFacts
    <2>4. y = PerEquity(x, i) BY <2>3 DEF Weight
    <2>5. e * y <= 100 * x /\ 100 * x <= e * y + e - 1 BY <1>2, <2>4, PerEquityFacts
    <2>6. e * y \in Int OBVIOUS
    <2> QED BY <2>1, <2>2, <2>5, <2>6
  <1>8. PICK l \in Int : l = 1 - e OBVIOUS
  <1>9. /\ 100 * SumFunction(a) + n * l <= e * SumFunction(w)
        /\ SumFunction(a) \in Int /\ SumFunction(w) \in Int
    <2>1. \A s \in Symbols : 100 * a[s] + l <= e * w[s] /\ e * w[s] <= 100 * a[s] + e - 1
      BY <1>7, <1>8
    <2> QED BY <1>1, <1>6, <2>1, SumOfFloors
  <1>10. e * SumFunction(w) <= 100 * SumFunction(a)
    <2>1. PICK f : f = [s \in Symbols |-> e * w[s]] OBVIOUS
    <2>2. PICK g : g = [s \in Symbols |-> 100 * a[s]] OBVIOUS
    <2>3. \A s \in Symbols : a[s] \in Int /\ w[s] \in Int BY DEF Amounts
    <2>4. f \in Amounts(Symbols) /\ g \in Amounts(Symbols) BY <2>1, <2>2, <2>3 DEF Amounts
    <2>5. SumFunction(f) = e * SumFunction(w) BY <1>6, <2>1, <2>4, SumScaled
    <2>6. SumFunction(g) = 100 * SumFunction(a) BY <1>6, <2>2, <2>4, SumScaled
    <2>7. \A s \in Symbols : f[s] <= g[s]
      <3> SUFFICES ASSUME NEW s \in Symbols PROVE e * w[s] <= 100 * a[s]
        BY <2>1, <2>2
      <3>1. PICK x \in Int : x = a[s] BY <2>3
      <3>2. PICK y \in Int : y = w[s] BY <2>3
      <3>3. x = SizeOf(rows[i].values[s]) /\ y = Weight(i, s) BY <1>4, <1>5, <3>1, <3>2, HeldFacts
      <3>4. y = PerEquity(x, i) BY <3>3 DEF Weight
      <3> QED BY <1>2, <3>1, <3>2, <3>4, PerEquityFacts
    <2> QED BY <1>6, <2>4, <2>5, <2>6, <2>7, SumMonotone
  <1>11. PICK q \in Int : q = SumFunction(w) BY <1>9
  <1>12. PICK g \in Int : g = GrossLeverage(i) /\ g = PerEquity(t, i)
    BY <1>2, <1>3, PerEquityFacts DEF GrossLeverage
  <1>13. e * g <= 100 * t /\ 100 * t <= e * g + e - 1 /\ g >= 0
    <2>1. t \in Int /\ t >= 0 OBVIOUS
    <2> QED BY <1>2, <1>12, <2>1, PerEquityFacts
  <1>14. q >= 0
    <2>1. \A s \in Symbols : w[s] >= 0 BY <1>5, HeldFacts
    <2> QED BY <1>6, <1>11, <2>1, SumOfNaturals
  <1>15. q <= g
    <2>1. ASSUME g + 1 <= q PROVE FALSE
      <3>1. e * (g + 1) <= e * q BY <2>1, TimesOrdered
      <3>2. e * (g + 1) = e * g + e OBVIOUS
      <3>3. e * g \in Int /\ e * q \in Int OBVIOUS
      <3>4. e * q <= 100 * t BY <1>6, <1>10, <1>11
      <3> QED BY <1>13, <3>1, <3>2, <3>3, <3>4
    <2> QED BY <2>1
  <1>16. g < q + n
    <2>1. ASSUME q + n <= g PROVE FALSE
      <3>1. e * (q + n) <= e * g BY <2>1, TimesOrdered
      <3>2. e * (q + n) = e * q + e * n OBVIOUS
      <3>3. n * l = n - e * n BY <1>8
      <3>4. e * g \in Int /\ e * q \in Int /\ e * n \in Int OBVIOUS
      <3>5. 100 * t + n - e * n <= e * q BY <1>6, <1>9, <1>11, <3>3, <3>4
      <3> QED BY <1>13, <3>1, <3>2, <3>4, <3>5
    <2> QED BY <2>1
  <1>17. ASSUME NEW s \in Symbols PROVE Weight(i, s) <= q
    <2>1. \A x \in Symbols : w[x] >= 0 BY <1>5, HeldFacts
    <2>2. w[s] <= SumFunction(w) BY <1>6, <2>1, ElementOfSum
    <2> QED BY <1>5, <1>11, <2>2, HeldFacts
  <1>18. \A s \in Symbols : Weight(i, s) \in Int BY HeldFacts
  <1>19. \A s \in Symbols : Weight(i, s) <= g BY <1>15, <1>17, <1>18
  <1> QED BY <1>1, <1>5, <1>11, <1>12, <1>13, <1>14, <1>15, <1>16, <1>19

(* ExposureAnalyzer rounds each long and short position, LeverageAnalyzer  *)
(* the sum.                                                                *)
LEMMA ExposureFacts ==
  ASSUME RunWell, NEW i \in Defined
  PROVE  /\ GrossExposure(i) = SumFunction(Weights(i))
         /\ NetExposure(i) \in Int /\ NetLeverage(i) \in Int
         /\ SizeOf(NetExposure(i) - NetLeverage(i)) <= Cardinality(Symbols)
  <1>1. PICK n \in Nat \ {0} : n = Cardinality(Symbols) BY HeldFacts
  <1>2. PICK e \in Nat \ {0} : e = EquityAt(i) BY EquityFacts
  <1>3. PICK v \in Amounts(Symbols) : v = rows[i].values BY HeldFacts
  <1>4. IsFiniteSet(Symbols) BY HeldFacts
  <1>5. \A s \in Symbols : v[s] \in Int BY DEF Amounts
  <1>6. PICK p : p = [s \in Symbols |-> PerEquity(Positive(v[s]), i)] OBVIOUS
  <1>7. PICK m : m = [s \in Symbols |-> PerEquity(Positive(-v[s]), i)] OBVIOUS
  <1>8. Long(i) = SumFunction(p) /\ Short(i) = SumFunction(m) BY <1>3, <1>6, <1>7 DEF Long, Short
  <1>9. ASSUME NEW s \in Symbols
        PROVE  /\ p[s] \in Int /\ m[s] \in Int /\ p[s] + m[s] = Weight(i, s)
               /\ 100 * v[s] + (1 - e) <= e * (p[s] - m[s])
               /\ e * (p[s] - m[s]) <= 100 * v[s] + e - 1
    <2>1. PICK x \in Int : x = v[s] BY <1>5
    <2>2. PICK y \in Int : y = -x OBVIOUS
    <2>3. x + y = 0 BY <2>2, NegativeIs
    <2>4. PICK px \in Nat : px = Positive(x) BY SizeIs
    <2>5. PICK py \in Nat : py = Positive(y) BY SizeIs
    <2>6. px = (IF x >= 0 THEN x ELSE 0) /\ py = (IF y >= 0 THEN y ELSE 0) BY <2>4, <2>5, SizeIs
    <2>7. PICK z \in Nat : z = SizeOf(x) BY SizeIs
    <2>8. z = IF x >= 0 THEN x ELSE y BY <2>2, <2>7, SizeIs
    <2>9. PICK a \in Int : a = PerEquity(px, i) BY <1>2, PerEquityFacts
    <2>10. PICK b \in Int : b = PerEquity(py, i) BY <1>2, PerEquityFacts
    <2>11. /\ e * a <= 100 * px /\ 100 * px <= e * a + e - 1 /\ (px = 0 => a = 0)
      BY <1>2, <2>9, PerEquityFacts
    <2>12. /\ e * b <= 100 * py /\ 100 * py <= e * b + e - 1 /\ (py = 0 => b = 0)
      BY <1>2, <2>10, PerEquityFacts
    <2>13. p[s] = a /\ m[s] = b
      BY <1>6, <1>7, <2>1, <2>2, <2>4, <2>5, <2>9, <2>10
    <2>14. Weight(i, s) = PerEquity(z, i) BY <1>3, <2>1, <2>7 DEF Weight
    <2>15. a + b = Weight(i, s)
      <3>1. CASE x >= 0
        <4>1. py = 0 /\ px = z BY <2>3, <2>6, <2>8, <3>1
        <4> QED BY <2>9, <2>12, <2>14, <4>1
      <3>2. CASE x < 0
        <4>1. px = 0 /\ py = z BY <2>3, <2>6, <2>8, <3>2
        <4> QED BY <2>10, <2>11, <2>14, <4>1
      <3> QED BY <3>1, <3>2
    <2>16. px - py = x BY <2>3, <2>6
    <2>17. e * (a - b) = e * a - e * b /\ e * a \in Int /\ e * b \in Int OBVIOUS
    <2>18. 100 * x + (1 - e) <= e * (a - b) /\ e * (a - b) <= 100 * x + e - 1
      <3>1. 100 * px - 100 * py = 100 * x BY <2>16
      <3> QED BY <2>11, <2>12, <2>17, <3>1
    <2> QED BY <2>1, <2>13, <2>15, <2>18
  <1>10. p \in Amounts(Symbols) /\ m \in Amounts(Symbols) BY <1>6, <1>7, <1>9 DEF Amounts
  <1>11. SumFunction(p) \in Int /\ SumFunction(m) \in Int BY <1>4, <1>10, SumType
  <1>12. GrossExposure(i) = SumFunction(Weights(i))
    <2>1. PICK w \in Amounts(Symbols) : w = Weights(i) BY HeldFacts
    <2>2. \A s \in Symbols : w[s] = p[s] + m[s] BY <1>9, <2>1, HeldFacts
    <2>3. SumFunction(w) = SumFunction(p) + SumFunction(m) BY <1>4, <1>10, <2>2, SumPlus
    <2> QED BY <1>8, <2>1, <2>3 DEF GrossExposure
  <1>13. PICK d : d = [s \in Symbols |-> p[s] - m[s]] OBVIOUS
  <1>14. d \in Amounts(Symbols) BY <1>9, <1>13 DEF Amounts
  <1>15. SumFunction(p) = SumFunction(d) + SumFunction(m)
    <2>1. \A s \in Symbols : p[s] = d[s] + m[s] BY <1>9, <1>13
    <2> QED BY <1>4, <1>10, <1>14, <2>1, SumPlus
  <1>16. PICK l \in Int : l = 1 - e OBVIOUS
  <1>17. /\ e * SumFunction(d) <= 100 * SumFunction(v) + n * (e - 1)
         /\ 100 * SumFunction(v) + n * l <= e * SumFunction(d)
         /\ SumFunction(v) \in Int /\ SumFunction(d) \in Int
    <2>1. \A s \in Symbols : 100 * v[s] + l <= e * d[s] /\ e * d[s] <= 100 * v[s] + e - 1
      BY <1>9, <1>13, <1>16
    <2> QED BY <1>1, <1>4, <1>14, <2>1, SumOfFloors
  <1>18. PICK x \in Int : x = SumFunction(v) BY <1>17
  <1>19. PICK t \in Int : t = SumFunction(d) BY <1>17
  <1>20. NetExposure(i) = t BY <1>8, <1>11, <1>15, <1>19 DEF NetExposure
  <1>21. PICK q \in Int : q = PerEquity(x, i) BY <1>2, PerEquityFacts
  <1>22. NetLeverage(i) = q BY <1>3, <1>18, <1>21 DEF NetLeverage
  <1>23. e * q <= 100 * x /\ 100 * x <= e * q + e - 1 BY <1>2, <1>21, PerEquityFacts
  <1>24. e * q \in Int /\ e * t \in Int /\ e * n \in Int OBVIOUS
  <1>25. e * t <= 100 * x + e * n - n /\ 100 * x + n - e * n <= e * t
    <2>1. n * (e - 1) = e * n - n /\ n * l = n - e * n BY <1>16
    <2> QED BY <1>17, <1>18, <1>19, <1>24, <2>1
  <1>26. t - q <= n
    <2>1. ASSUME q + n + 1 <= t PROVE FALSE
      <3>1. e * (q + n + 1) <= e * t BY <2>1, TimesOrdered
      <3>2. e * (q + n + 1) = e * q + e * n + e OBVIOUS
      <3> QED BY <1>23, <1>24, <1>25, <3>1, <3>2
    <2> QED BY <2>1
  <1>27. q - t <= n
    <2>1. ASSUME t + n + 1 <= q PROVE FALSE
      <3>1. e * (t + n + 1) <= e * q BY <2>1, TimesOrdered
      <3>2. e * (t + n + 1) = e * t + e * n + e OBVIOUS
      <3> QED BY <1>23, <1>24, <1>25, <3>1, <3>2
    <2> QED BY <2>1
  <1>28. SizeOf(t - q) <= n
    <2>1. PICK y \in Int : y = t - q OBVIOUS
    <2>2. PICK z \in Int : z = -y OBVIOUS
    <2>3. y + z = 0 BY <2>2, NegativeIs
    <2>4. SizeOf(y) = IF y >= 0 THEN y ELSE z BY <2>2, SizeIs
    <2>5. SizeOf(y) <= n BY <1>26, <1>27, <2>1, <2>3, <2>4
    <2> QED BY <2>1, <2>5
  <1> QED BY <1>1, <1>12, <1>20, <1>22, <1>28

(* Concentration: the weights weighed by the heaviest, and the values by   *)
(* how many there are (by Chebyshev's inequality).                         *)
LEMMA HhiFacts ==
  ASSUME RunWell, NEW i \in Defined
  PROVE  /\ MaxWeight(i) \in Nat /\ MaxWeight(i) <= GrossLeverage(i)
         /\ MaxWeight(i) * MaxWeight(i) <= Hhi(i) /\ Hhi(i) <= MaxWeight(i) * GrossLeverage(i)
         /\ Hhi(i) \in Int
  <1>1. IsFiniteSet(Symbols) /\ Symbols # {} BY HeldFacts
  <1>2. PICK w \in Amounts(Symbols) : w = Weights(i) BY HeldFacts
  <1>3. \A s \in Symbols : w[s] \in Nat /\ w[s] = Weight(i, s) BY <1>2, HeldFacts
  <1>4. PICK q \in Nat : q = SumFunction(w) BY <1>2, LeverageFacts
  <1>5. PICK g \in Nat : g = GrossLeverage(i) BY LeverageFacts
  <1>6. q <= g BY <1>2, <1>4, <1>5, LeverageFacts
  <1>7. MaxWeight(i) = Max({w[s] : s \in Symbols}) BY <1>3 DEF MaxWeight
  <1>8. w \in [Symbols -> Int] BY DEF Amounts
  <1>9. PICK x \in Symbols : MaxWeight(i) = w[x] BY <1>1, <1>7, <1>8, ValuesExtremes
  <1>10. \A s \in Symbols : w[s] <= w[x] BY <1>1, <1>3, <1>7, <1>8, <1>9, ValuesExtremes
  <1>11. PICK m \in Nat : m = w[x] BY <1>3
  <1>12. PICK h : h = [s \in Symbols |-> w[s] * w[s]] OBVIOUS
  <1>13. h \in Amounts(Symbols) /\ \A s \in Symbols : h[s] >= 0 /\ h[s] \in Int
    <2>1. \A s \in Symbols : w[s] * w[s] \in Nat BY <1>3, NatTimes
    <2> QED BY <1>12, <2>1 DEF Amounts
  <1>14. Hhi(i) = SumFunction(h)
    <2>1. h = [s \in Symbols |-> Weight(i, s) * Weight(i, s)] BY <1>3, <1>12
    <2> QED BY <2>1 DEF Hhi
  <1>15. h[x] <= SumFunction(h) /\ SumFunction(h) \in Int BY <1>1, <1>13, ElementOfSum
  <1>16. m * m <= SumFunction(h) BY <1>11, <1>12, <1>15
  <1>17. SumFunction(h) <= m * q
    <2>1. PICK k : k = [s \in Symbols |-> m * w[s]] OBVIOUS
    <2>2. k \in Amounts(Symbols) BY <1>3, <2>1 DEF Amounts
    <2>3. SumFunction(k) = m * q BY <1>1, <1>4, <2>1, <2>2, SumScaled
    <2>4. \A s \in Symbols : h[s] <= k[s]
      <3> SUFFICES ASSUME NEW s \in Symbols PROVE w[s] * w[s] <= m * w[s]
        BY <1>12, <2>1
      <3>1. PICK y \in Nat : y = w[s] BY <1>3
      <3>2. y <= m BY <1>10, <1>11, <3>1
      <3>3. y * y <= m * y BY <3>2, NatTimesOrdered
      <3> QED BY <3>1, <3>3
    <2> QED BY <1>1, <1>13, <2>2, <2>3, <2>4, SumMonotone
  <1>18. m * q <= m * g BY <1>6, TimesOrdered
  <1>19. m <= g BY <1>3, <1>5, <1>11, LeverageFacts
  <1>20. m * q \in Int /\ m * g \in Int OBVIOUS
  <1> QED BY <1>5, <1>9, <1>11, <1>14, <1>15, <1>16, <1>17, <1>18, <1>19, <1>20

LEMMA SquaresFacts ==
  ASSUME NEW S, IsFiniteSet(S), NEW a \in Amounts(S), \A s \in S : a[s] >= 0,
         NEW b \in Amounts(S), \A s \in S : b[s] = a[s] * a[s],
         NEW n \in Nat, n = Cardinality({s \in S : a[s] # 0})
  PROVE  /\ SumFunction(b) <= SumFunction(a) * SumFunction(a)
         /\ SumFunction(a) * SumFunction(a) <= n * SumFunction(b)
  <1>1. \A s \in S : a[s] \in Int /\ a[s] \in Nat /\ b[s] \in Int BY DEF Amounts
  <1>2. PICK t \in Int : t = SumFunction(a) BY SumType
  <1>3. PICK q \in Int : q = SumFunction(b) BY SumType
  <1>4. \A s \in S : a[s] <= t BY <1>2, ElementOfSum
  <1>5. q <= t * t
    <2>1. PICK k : k = [s \in S |-> t * a[s]] OBVIOUS
    <2>2. k \in Amounts(S) BY <1>1, <2>1 DEF Amounts
    <2>3. SumFunction(k) = t * t BY <1>2, <2>1, <2>2, SumScaled
    <2>4. \A s \in S : b[s] <= k[s]
      <3> SUFFICES ASSUME NEW s \in S PROVE a[s] * a[s] <= t * a[s]
        BY <2>1
      <3>1. PICK y \in Nat : y = a[s] BY <1>1
      <3>2. y <= t /\ t \in Nat BY <1>4, <3>1
      <3>3. y * y <= t * y BY <3>2, NatTimesOrdered
      <3> QED BY <3>1, <3>3
    <2> QED BY <1>3, <2>2, <2>3, <2>4, SumMonotone
  <1>6. PICK U : U = {s \in S : a[s] # 0} OBVIOUS
  <1>7. U \in SUBSET S /\ IsFiniteSet(U) BY <1>6, FS_Subset
  <1>8. PICK c : c = Restrict(a, U) OBVIOUS
  <1>9. PICK d : d = Restrict(b, U) OBVIOUS
  <1>10. c \in Amounts(U) /\ d \in Amounts(U) BY <1>1, <1>7, <1>8, <1>9 DEF Restrict, Amounts
  <1>11. \A s \in U : c[s] = a[s] /\ d[s] = c[s] * c[s] BY <1>7, <1>8, <1>9 DEF Restrict
  <1>12. SumFunction(c) = t
    <2>1. \A s \in S \ U : a[s] = 0 BY <1>6
    <2> QED BY <1>2, <1>7, <1>8, <2>1, SumSupport
  <1>13. SumFunction(d) = q
    <2>1. \A s \in S \ U : b[s] = 0
      <3> SUFFICES ASSUME NEW s \in S, s \notin U PROVE b[s] = 0
        OBVIOUS
      <3>1. a[s] = 0 BY <1>6
      <3>2. 0 * 0 = 0 OBVIOUS
      <3> QED BY <3>1, <3>2
    <2> QED BY <1>3, <1>7, <1>9, <2>1, SumSupport
  <1>14. Concordant(U, c, c)
    <2> SUFFICES ASSUME NEW i \in U, NEW j \in U PROVE (c[i] - c[j]) * (c[i] - c[j]) >= 0
      BY DEF Concordant
    <2>1. c[i] \in Int /\ c[j] \in Int BY <1>10 DEF Amounts
    <2> QED BY <2>1, ProductSign
  <1>15. n * q >= t * t BY <1>6, <1>7, <1>10, <1>11, <1>12, <1>13, <1>14, Chebyshev
  <1>16. n * q \in Int /\ t * t \in Int OBVIOUS
  <1> QED BY <1>2, <1>3, <1>5, <1>15, <1>16

LEMMA ConcentrationFacts ==
  ASSUME RunWell, NEW i \in Defined, NumPositions(i) > 0
  PROVE  10000 \div NumPositions(i) <= ConcentrationHhi(i) /\ ConcentrationHhi(i) <= 10000
  <1>1. PICK a \in Amounts(Symbols) : a = Sizes(i) BY HeldFacts
  <1>2. \A s \in Symbols : /\ a[s] >= 0 /\ a[s] * a[s] = rows[i].values[s] * rows[i].values[s]
                           /\ (a[s] = 0 <=> rows[i].values[s] = 0) /\ a[s] \in Int
    BY <1>1, HeldFacts DEF Amounts
  <1>3. PICK b : b = [s \in Symbols |-> a[s] * a[s]] OBVIOUS
  <1>4. b \in Amounts(Symbols) BY <1>2, <1>3 DEF Amounts
  <1>5. IsFiniteSet(Symbols) BY HeldFacts
  <1>6. PICK t \in Nat : t = SumFunction(a) /\ t = GrossHeld(i) BY <1>1, HeldFacts
  <1>7. PICK q \in Int : q = SumFunction(b) BY <1>4, <1>5, SumType
  <1>8. {s \in Symbols : rows[i].values[s] # 0} = {s \in Symbols : a[s] # 0} BY <1>2
  <1>9. PICK U : U = {s \in Symbols : a[s] # 0} OBVIOUS
  <1>10. IsFiniteSet(U) BY <1>5, <1>9, FS_Subset
  <1>11. PICK n \in Nat : n = Cardinality(U) /\ n = NumPositions(i)
    BY <1>8, <1>9, <1>10, FS_CardinalityType DEF NumPositions
  <1>12. n > 0 /\ U # {}
    <2>1. n > 0 BY <1>11
    <2>2. Cardinality({}) = 0 BY FS_EmptySet
    <2>3. U = {} => n = 0 BY <1>11, <2>2, Zenon
    <2> QED BY <2>1, <2>3
  <1>13. q <= t * t /\ t * t <= n * q
    BY <1>2, <1>3, <1>4, <1>5, <1>6, <1>7, <1>9, <1>11, SquaresFacts
  <1>14. t > 0
    <2>1. PICK s \in Symbols : a[s] # 0 BY <1>9, <1>12
    <2>2. a[s] <= t BY <1>2, <1>5, <1>6, ElementOfSum
    <2> QED BY <1>2, <2>1, <2>2
  <1>15. PICK d \in Nat : d = t * t BY NatTimes
  <1>16. d > 0
    <2>1. 1 * t <= t * t BY <1>14, NatTimesOrdered
    <2> QED BY <1>14, <1>15, <2>1
  <1>17. ConcentrationHhi(i) = (10000 * q) \div d
    <2>1. [s \in Symbols |-> rows[i].values[s] * rows[i].values[s]] = b BY <1>2, <1>3
    <2> QED BY <1>6, <1>7, <1>14, <1>15, <2>1 DEF ConcentrationHhi
  <1>18. PICK k \in Int : k = 10000 \div n BY <1>12
  <1>19. n * k <= 10000 /\ k >= 0
    <2>1. 10000 \in Int /\ n \in Nat \ {0} BY <1>12
    <2>2. n * k <= 10000 BY <1>18, <2>1, DivFloor
    <2>3. k >= 0 BY <1>12, <1>18
    <2> QED BY <2>2, <2>3
  <1>20. d * k <= 10000 * q
    <2>1. q >= 0
      <3>1. ASSUME q + 1 <= 0 PROVE FALSE
        <4>1. n * (q + 1) <= n * 0 BY <3>1, TimesOrdered
        <4>2. n * (q + 1) = n * q + n /\ n * q \in Int OBVIOUS
        <4> QED BY <1>12, <1>13, <1>15, <1>16, <4>1, <4>2
      <3> QED BY <3>1
    <2>2. k * d <= k * (n * q)
      <3>1. n * q \in Int /\ k \in Nat BY <1>19
      <3> QED BY <1>13, <1>15, <3>1, TimesOrdered
    <2>3. q * (n * k) <= q * 10000
      <3>1. q \in Nat /\ n * k \in Int BY <2>1
      <3> QED BY <1>19, <3>1, TimesOrdered
    <2>4. k * (n * q) = q * (n * k) OBVIOUS
    <2>5. k * d \in Int /\ q * (n * k) \in Int OBVIOUS
    <2>6. k * d = d * k /\ q * 10000 = 10000 * q OBVIOUS
    <2> QED BY <2>2, <2>3, <2>4, <2>5, <2>6
  <1>21. 10000 * q <= d * 10000 BY <1>13, <1>15
  <1>22. k <= (10000 * q) \div d /\ (10000 * q) \div d <= 10000
    <2>1. 10000 * q \in Int /\ d \in Nat \ {0} BY <1>16
    <2> QED BY <1>20, <1>21, <2>1, QuotientBetween
  <1> QED BY <1>11, <1>17, <1>18, <1>22

(* What the leverage changes by is turned over, while the equity stays.    *)
LEMMA TurnoverIsChange ==
  ASSUME RunWell, NEW i \in Defined, i - 1 \in Defined
  PROVE  SizeOf(GrossLeverage(i) - GrossLeverage(i - 1)) < DailyTurnover(i) + Cardinality(Symbols)
  <1>1. PICK w \in Amounts(Symbols) : w = Weights(i) BY HeldFacts
  <1>2. PICK u \in Amounts(Symbols) : u = Weights(i - 1) BY HeldFacts
  <1>3. \A s \in Symbols : w[s] \in Int /\ w[s] = Weight(i, s) BY <1>1, HeldFacts DEF Amounts
  <1>4. \A s \in Symbols : u[s] \in Int /\ u[s] = Weight(i - 1, s) BY <1>2, HeldFacts DEF Amounts
  <1>5. IsFiniteSet(Symbols) BY HeldFacts
  <1>6. PICK n \in Nat \ {0} : n = Cardinality(Symbols) BY HeldFacts
  <1>7. PICK c : c = [s \in Symbols |-> SizeOf(w[s] - u[s])] OBVIOUS
  <1>8. PICK x : x = [s \in Symbols |-> u[s] + c[s]] OBVIOUS
  <1>9. PICK y : y = [s \in Symbols |-> w[s] + c[s]] OBVIOUS
  <1>10. ASSUME NEW s \in Symbols
         PROVE  c[s] \in Int /\ w[s] <= u[s] + c[s] /\ u[s] <= w[s] + c[s]
    <2>1. PICK z \in Int : z = w[s] - u[s] BY <1>3, <1>4
    <2>2. PICK k \in Int : k = -z OBVIOUS
    <2>3. z + k = 0 BY <2>2, NegativeIs
    <2>4. SizeOf(z) \in Nat /\ z <= SizeOf(z) /\ k <= SizeOf(z) BY <2>2, SizeIs
    <2>5. c[s] = SizeOf(z) BY <1>7, <2>1
    <2> QED BY <1>3, <1>4, <2>1, <2>3, <2>4, <2>5
  <1>11. c \in Amounts(Symbols) /\ x \in Amounts(Symbols) /\ y \in Amounts(Symbols)
    BY <1>3, <1>4, <1>7, <1>8, <1>9, <1>10 DEF Amounts
  <1>12. PICK t \in Int : t = SumFunction(c) BY <1>5, <1>11, SumType
  <1>13. DailyTurnover(i) = t
    <2>1. c = [s \in Symbols |-> SizeOf(Weight(i, s) - Weight(i - 1, s))] BY <1>3, <1>4, <1>7
    <2> QED BY <1>12, <2>1 DEF DailyTurnover
  <1>14. PICK a \in Nat : a = SumFunction(w) BY <1>1, LeverageFacts
  <1>15. PICK b \in Nat : b = SumFunction(u) BY <1>2, LeverageFacts
  <1>16. a <= b + t
    <2>1. SumFunction(x) = b + t BY <1>5, <1>8, <1>11, <1>12, <1>15, SumPlus
    <2>2. \A s \in Symbols : w[s] <= x[s] BY <1>8, <1>10
    <2> QED BY <1>5, <1>11, <1>14, <2>1, <2>2, SumMonotone
  <1>17. b <= a + t
    <2>1. SumFunction(y) = a + t BY <1>5, <1>9, <1>11, <1>12, <1>14, SumPlus
    <2>2. \A s \in Symbols : u[s] <= y[s] BY <1>9, <1>10
    <2> QED BY <1>5, <1>11, <1>15, <2>1, <2>2, SumMonotone
  <1>18. PICK g \in Nat : g = GrossLeverage(i) /\ a <= g /\ g < a + n
    BY <1>1, <1>6, <1>14, LeverageFacts
  <1>19. PICK h \in Nat : h = GrossLeverage(i - 1) /\ b <= h /\ h < b + n
    BY <1>2, <1>6, <1>15, LeverageFacts
  <1>20. g - h < t + n /\ h - g < t + n BY <1>16, <1>17, <1>18, <1>19
  <1>21. SizeOf(g - h) < t + n
    <2>1. PICK z \in Int : z = g - h OBVIOUS
    <2>2. PICK k \in Int : k = -z OBVIOUS
    <2>3. z + k = 0 BY <2>2, NegativeIs
    <2>4. SizeOf(z) = IF z >= 0 THEN z ELSE k BY <2>2, SizeIs
    <2>5. SizeOf(z) < t + n BY <1>20, <2>1, <2>3, <2>4
    <2> QED BY <2>1, <2>5
  <1> QED BY <1>6, <1>13, <1>18, <1>19, <1>21

LEMMA PositionFacts == ASSUME RunWell PROVE PositionsAgree
  <1>1. ASSUME NEW i \in Defined
        PROVE  SizeOf(GrossExposure(i) - GrossLeverage(i)) <= Cardinality(Symbols)
    <2>1. PICK n \in Nat \ {0} : n = Cardinality(Symbols) BY HeldFacts
    <2>2. PICK a \in Nat : a = SumFunction(Weights(i)) BY LeverageFacts
    <2>3. PICK g \in Nat : g = GrossLeverage(i) /\ a <= g /\ g < a + n
      BY <2>1, <2>2, LeverageFacts
    <2>4. PICK z \in Int : z = a - g OBVIOUS
    <2>5. PICK k \in Int : k = -z OBVIOUS
    <2>6. z + k = 0 BY <2>5, NegativeIs
    <2>7. SizeOf(z) = IF z >= 0 THEN z ELSE k BY <2>5, SizeIs
    <2>8. SizeOf(z) <= n BY <2>3, <2>4, <2>6, <2>7
    <2> QED BY <2>1, <2>2, <2>3, <2>4, <2>8, ExposureFacts
  <1> QED BY <1>1, ExposureFacts, HhiFacts, ConcentrationFacts, TurnoverIsChange DEF PositionsAgree


----------------------------------------------------------------------------
(* The drawdown events: each as it was found, and all that were found up   *)
(* to a row.                                                               *)

----------------------------------------------------------------------------
(* Drawdowns: how far a row is under the peak before it.                   *)
Depth(i) == Drawdown(RawEquity, i)

LEMMA DrawdownIs ==
  ASSUME NEW n \in Nat, NEW f \in [1..n -> Nat], NEW i \in 1..n
  PROVE  Drawdown(f, i) \in Int
  <1>1. PICK g : g = [j \in 1..i |-> f[j]] OBVIOUS
  <1>2. 1..i \subseteq 1..n /\ 1..i # {} /\ IsFiniteSet(1..i)
    <2>1. IsFiniteSet(1..i) BY FS_Interval
    <2> QED BY <2>1
  <1>3. g \in [1..i -> Int] /\ {f[j] : j \in 1..i} = {g[j] : j \in 1..i} BY <1>1, <1>2
  <1>4. Max({g[j] : j \in 1..i}) \in {g[j] : j \in 1..i} BY <1>2, <1>3, ValuesExtremes
  <1>5. PICK p \in Nat : p = PeakTo(f, i) BY <1>1, <1>2, <1>3, <1>4 DEF PeakTo
  <1>6. PICK x \in Int : x = 10000 * (f[i] - p) OBVIOUS
  <1>7. p # 0 => x \div p \in Int OBVIOUS
  <1> QED BY <1>5, <1>6, <1>7 DEF Drawdown

LEMMA FallsFacts ==
  ASSUME RunWell
  PROVE  \A i \in DOMAIN rows : /\ Depth(i) \in Int /\ InDrawdown(i) \in BOOLEAN
                                /\ (InDrawdown(i) <=> Depth(i) < -10)
  <1>1. PICK n \in Nat : n = Len(rows) BY RunFacts
  <1>2. DOMAIN rows = 1..n BY <1>1, RunFacts
  <1>3. RawEquity \in [1..n -> Nat] BY <1>2, RunFacts DEF RawEquity
  <1>4. \A i \in 1..n : Depth(i) \in Int BY <1>3, DrawdownIs DEF Depth
  <1> QED BY <1>2, <1>4 DEF InDrawdown, Depth

(* An event lasts up to its end, an open one over the last row.            *)
Events == [start : Nat \ {0}, trough : Nat, end : Nat, depth : Int]
Until(event) == IF event.end = 0 THEN Len(rows) + 1 ELSE event.end

EventWell(event) ==
  /\ event \in Events /\ event.start < Until(event) /\ Until(event) <= Len(rows) + 1
  /\ event.trough \in event.start..Until(event) - 1 /\ Depth(event.trough) = event.depth
  /\ \A i \in event.start..Until(event) - 1 : InDrawdown(i) /\ event.depth <= Depth(i)

LEMMA EventFacts ==
  ASSUME RunWell, NEW start \in DOMAIN rows, NEW end \in Nat,
         end # 0 => end \in DOMAIN rows /\ start < end /\ ~InDrawdown(end),
         \A i \in start..(IF end = 0 THEN Len(rows) ELSE end - 1) : InDrawdown(i)
  PROVE  EventWell(EventOf(start, end)) /\ EventOf(start, end).start = start /\ EventOf(start, end).end = end
  <1>1. PICK n \in Nat : n = Len(rows) BY RunFacts
  <1>2. DOMAIN rows = 1..n BY <1>1, RunFacts
  <1>3. PICK last \in Nat : last = IF end = 0 THEN n ELSE end BY <1>1
  <1>4. start \in 1..last /\ last <= n BY <1>2, <1>3
  <1>5. PICK S : S = start..last OBVIOUS
  <1>6. S \subseteq 1..n /\ S # {} /\ IsFiniteSet(S) BY <1>4, <1>5, FS_Interval
  <1>7. \A i \in S : Depth(i) \in Int BY <1>2, <1>6, FallsFacts
  <1>8. PICK f : f = [i \in S |-> Depth(i)] OBVIOUS
  <1>9. f \in [S -> Int] /\ \A i \in S : f[i] = Depth(i) BY <1>7, <1>8
  <1>10. PICK depth \in Int : depth = Min({f[i] : i \in S}) BY <1>6, <1>9, ValuesExtremes
  <1>11. depth \in {f[i] : i \in S} /\ \A i \in S : depth <= Depth(i)
    <2>1. depth \in {f[i] : i \in S} BY <1>6, <1>9, <1>10, ValuesExtremes
    <2>2. \A i \in S : depth <= f[i] BY <1>6, <1>9, <1>10, ValuesExtremes
    <2> QED BY <1>9, <2>1, <2>2
  <1>12. PICK T : T = {i \in S : Depth(i) = depth} OBVIOUS
  <1>13. T # {} /\ T \subseteq Int /\ IsFiniteSet(T)
    <2>1. T \subseteq S BY <1>12
    <2>2. IsFiniteSet(T) BY <1>6, <2>1, FS_Subset
    <2> QED BY <1>6, <1>9, <1>11, <1>12, <2>1, <2>2
  <1>14. PICK trough \in S : trough = Min(T) /\ Depth(trough) = depth BY <1>12, <1>13, LeastIn
  <1>15. PICK e : e = EventOf(start, end) OBVIOUS
  <1>16. e = [start |-> start, trough |-> trough, end |-> end, depth |-> depth]
    <2>1. {Drawdown(RawEquity, i) : i \in S} = {f[i] : i \in S} BY <1>9 DEF Depth
    <2>2. T = {i \in S : Drawdown(RawEquity, i) = depth} BY <1>12 DEF Depth
    <2>3. S = start..IF end = 0 THEN Len(rows) ELSE end BY <1>1, <1>3, <1>5
    <2> QED BY <1>10, <1>14, <1>15, <2>1, <2>2, <2>3 DEF EventOf
  <1>17. e.start = start /\ e.trough = trough /\ e.end = end /\ e.depth = depth BY <1>16
  <1>18. e \in Events
    <2>1. start \in Nat \ {0} /\ trough \in Nat BY <1>2, <1>6
    <2> QED BY <1>16, <2>1 DEF Events
  <1>19. PICK u \in Nat : u = Until(e) /\ u = (IF end = 0 THEN n + 1 ELSE end)
    BY <1>1, <1>17 DEF Until
  <1>20. start < u /\ u <= n + 1 BY <1>2, <1>19
  <1>21. \A i \in start..u - 1 : InDrawdown(i) /\ i \in S
    <2> SUFFICES ASSUME NEW i \in start..u - 1 PROVE InDrawdown(i) /\ i \in S
      OBVIOUS
    <2>1. i \in start..(IF end = 0 THEN Len(rows) ELSE end - 1) BY <1>1, <1>19
    <2>2. i \in S BY <1>3, <1>5, <1>19
    <2> QED BY <2>1, <2>2
  <1>22. trough \in start..u - 1
    <2>1. trough \in start..last BY <1>5
    <2>2. ASSUME end # 0, trough = end PROVE FALSE
      <3>1. Depth(end) = depth /\ ~InDrawdown(end) /\ end \in DOMAIN rows BY <1>14, <2>2
      <3>2. ~(Depth(end) < -10) BY <3>1, FallsFacts
      <3>3. start \in start..u - 1 BY <1>2, <1>20
      <3>4. InDrawdown(start) /\ start \in S BY <1>21, <3>3
      <3>5. Depth(start) < -10 BY <3>4, FallsFacts
      <3>6. depth <= Depth(start) /\ Depth(start) \in Int BY <1>7, <1>11, <3>4
      <3> QED BY <3>1, <3>2, <3>5, <3>6
    <2> QED BY <1>3, <1>19, <2>1, <2>2
  <1>23. EventWell(e)
    BY <1>1, <1>11, <1>14, <1>17, <1>18, <1>19, <1>20, <1>21, <1>22 DEF EventWell
  <1> QED BY <1>15, <1>17, <1>23

(* The events one after the other.                                         *)
EventsWell(events) ==
  /\ events \in Seq(Events)
  /\ \A k \in DOMAIN events : EventWell(events[k])
  /\ \A k, l \in DOMAIN events : k < l => events[k].end # 0 /\ events[k].end <= events[l].start

LEMMA OneMoreEvent ==
  ASSUME NEW events, EventsWell(events), NEW event, EventWell(event),
         \A k \in DOMAIN events : events[k].end # 0 /\ events[k].end <= event.start
  PROVE  /\ EventsWell(Append(events, event)) /\ Len(events) \in Nat
         /\ Len(Append(events, event)) = Len(events) + 1
         /\ DOMAIN Append(events, event) = 1..Len(events) + 1 /\ DOMAIN events = 1..Len(events)
         /\ \A k \in DOMAIN events : Append(events, event)[k] = events[k]
         /\ Append(events, event)[Len(events) + 1] = event
  <1>1. events \in Seq(Events) /\ event \in Events BY DEF EventsWell, EventWell
  <1>2. PICK m \in Nat : m = Len(events) /\ DOMAIN events = 1..m BY <1>1, LenProperties
  <1>3. PICK s : s = Append(events, event) OBVIOUS
  <1>4. /\ s \in Seq(Events) /\ Len(s) = m + 1 /\ s[m + 1] = event
        /\ \A k \in 1..m : s[k] = events[k]
    BY <1>1, <1>2, <1>3, AppendProperties
  <1>5. DOMAIN s = 1..m + 1 BY <1>4, LenProperties
  <1>6. \A k \in DOMAIN s : EventWell(s[k])
    <2> SUFFICES ASSUME NEW k \in 1..m + 1 PROVE EventWell(s[k])
      BY <1>5
    <2>1. k = m + 1 \/ k \in 1..m OBVIOUS
    <2>2. k \in 1..m => s[k] = events[k] /\ EventWell(events[k]) BY <1>2, <1>4, Zenon DEF EventsWell
    <2> QED BY <1>4, <2>1, <2>2, Zenon
  <1>7. ASSUME NEW k \in DOMAIN s, NEW l \in DOMAIN s, k < l
        PROVE  s[k].end # 0 /\ s[k].end <= s[l].start
    <2>1. k \in 1..m /\ l \in 1..m + 1 BY <1>5, <1>7
    <2>2. s[k] = events[k] BY <1>4, <2>1
    <2>3. CASE l = m + 1 BY <1>2, <1>4, <2>1, <2>2, <2>3
    <2>4. CASE l \in 1..m
      <3>1. s[l] = events[l] BY <1>4, <2>4
      <3>2. events[k].end # 0 /\ events[k].end <= events[l].start
        BY <1>2, <1>7, <2>1, <2>4, Zenon DEF EventsWell
      <3> QED BY <2>2, <3>1, <3>2
    <2> QED BY <2>1, <2>3, <2>4
  <1>8. EventsWell(s) BY <1>4, <1>6, <1>7 DEF EventsWell
  <1> QED BY <1>2, <1>3, <1>4, <1>5, <1>8

(* The rows scanned one after the other.                                   *)
ScanStates == [start : Nat, events : Seq(Events)]

ScanWell(c, m) ==
  /\ c \in ScanStates /\ c.start \in 0..m
  /\ \A i \in c.start..m : c.start # 0 => InDrawdown(i)
  /\ EventsWell(c.events)
  /\ \A k \in DOMAIN c.events : /\ c.events[k].end # 0 /\ c.events[k].end <= m
                                /\ c.start # 0 => c.events[k].end <= c.start
  /\ \A i \in 1..m : InDrawdown(i) => \/ c.start # 0 /\ c.start <= i
                                      \/ \E k \in DOMAIN c.events : Covers(c.events[k], i)

LEMMA ScanStep ==
  ASSUME RunWell, NEW m \in Nat, m + 1 \in DOMAIN rows, NEW c, ScanWell(c, m)
  PROVE  ScanWell(Scan(c, m + 1), m + 1)
  <1>1. PICK n \in Nat : n = Len(rows) /\ DOMAIN rows = 1..n BY RunFacts
  <1>2. PICK i \in 1..n : i = m + 1 BY <1>1
  <1>3. PICK start \in 0..m : start = c.start BY DEF ScanWell
  <1>4. PICK events \in Seq(Events) : events = c.events BY DEF ScanWell, ScanStates
  <1>5. c = [start |-> start, events |-> events] BY <1>3, <1>4 DEF ScanWell, ScanStates
  <1>6. /\ EventsWell(events)
        /\ \A k \in DOMAIN events : /\ events[k].end # 0 /\ events[k].end <= m
                                    /\ start # 0 => events[k].end <= start
        /\ \A j \in start..m : start # 0 => InDrawdown(j)
        /\ \A j \in 1..m : InDrawdown(j) => \/ start # 0 /\ start <= j
                                            \/ \E k \in DOMAIN events : Covers(events[k], j)
    BY <1>3, <1>4 DEF ScanWell
  <1>7. \A k \in DOMAIN events : events[k].end \in Nat
    <2>1. \A k \in DOMAIN events : events[k] \in Events BY <1>6, Zenon DEF EventsWell, EventWell
    <2> QED BY <2>1 DEF Events
  <1>8. i = m + 1 /\ i \in Nat \ {0} BY <1>2
  <1>9. ASSUME InDrawdown(i), start = 0 PROVE ScanWell(Scan(c, i), i)
    <2>1. PICK d : d = Scan(c, i) OBVIOUS
    <2>2. d = [start |-> i, events |-> events] BY <1>5, <1>9, <2>1 DEF Scan
    <2>3. d.start = i /\ d.events = events BY <2>2
    <2>4. d \in ScanStates BY <1>8, <2>2 DEF ScanStates
    <2>5. \A j \in d.start..i : InDrawdown(j)
      <3>1. \A j \in i..i : j = i BY <1>8
      <3> QED BY <1>9, <2>3, <3>1
    <2>6. \A k \in DOMAIN events : events[k].end # 0 /\ events[k].end <= i BY <1>6, <1>7, <1>8
    <2>7. ASSUME NEW j \in 1..i, InDrawdown(j)
          PROVE  i <= j \/ \E k \in DOMAIN events : Covers(events[k], j)
      <3>1. j = i \/ j \in 1..m BY <1>8
      <3>2. j \in 1..m => \E k \in DOMAIN events : Covers(events[k], j) BY <1>6, <1>9, <2>7
      <3> QED BY <1>8, <3>1, <3>2
    <2>8. d.start \in 0..i /\ d.start # 0 BY <1>8, <2>3
    <2>9. ScanWell(d, i) BY <1>6, <2>3, <2>4, <2>5, <2>6, <2>7, <2>8 DEF ScanWell
    <2> QED BY <2>1, <2>9
  <1>10. ASSUME ~InDrawdown(i), start # 0 PROVE ScanWell(Scan(c, i), i)
    <2>1. PICK e : e = EventOf(start, i) OBVIOUS
    <2>2. start \in DOMAIN rows /\ start < i /\ i \in DOMAIN rows BY <1>1, <1>2, <1>10
    <2>3. \A j \in start..i - 1 : InDrawdown(j)
      <3>1. i - 1 = m BY <1>8
      <3> QED BY <1>6, <1>10, <3>1
    <2>4. EventWell(e) /\ e.start = start /\ e.end = i
      <3>1. i # 0 BY <1>8
      <3>2. \A j \in start..(IF i = 0 THEN Len(rows) ELSE i - 1) : InDrawdown(j) BY <2>3, <3>1
      <3> QED BY <1>8, <1>10, <2>1, <2>2, <3>2, EventFacts
    <2>5. PICK d : d = Scan(c, i) OBVIOUS
    <2>6. PICK s : s = Append(events, e) OBVIOUS
    <2>7. d = [start |-> 0, events |-> s] BY <1>5, <1>10, <2>1, <2>5, <2>6 DEF Scan
    <2>8. d.start = 0 /\ d.events = s BY <2>7
    <2>9. PICK l \in Nat : l = Len(events) BY <1>6, <2>4, <1>10, OneMoreEvent
    <2>10. /\ EventsWell(s) /\ DOMAIN s = 1..l + 1 /\ DOMAIN events = 1..l
           /\ \A k \in 1..l : s[k] = events[k]
           /\ s[l + 1] = e
      <3>1. \A k \in DOMAIN events : events[k].end # 0 /\ events[k].end <= e.start
        BY <1>6, <1>10, <2>4
      <3> HIDE DEF EventsWell, EventWell
      <3> QED BY <1>6, <2>4, <2>6, <2>9, <3>1, OneMoreEvent
    <2>11. d \in ScanStates
      <3>1. s \in Seq(Events) BY <2>10 DEF EventsWell
      <3> QED BY <2>7, <3>1 DEF ScanStates
    <2>12. \A k \in DOMAIN s : s[k].end # 0 /\ s[k].end <= i
      <3> SUFFICES ASSUME NEW k \in 1..l + 1 PROVE s[k].end # 0 /\ s[k].end <= i
        BY <2>10
      <3>1. k = l + 1 \/ k \in 1..l OBVIOUS
      <3>2. k \in 1..l => events[k].end # 0 /\ events[k].end <= m /\ events[k].end \in Nat
        BY <1>6, <1>7, <2>10
      <3> QED BY <1>8, <2>4, <2>10, <3>1, <3>2
    <2>13. ASSUME NEW j \in 1..i, InDrawdown(j)
           PROVE  \E k \in DOMAIN s : Covers(s[k], j)
      <3>1. j \in 1..m /\ j < i BY <1>8, <1>10, <2>13
      <3>2. CASE start <= j
        <4>1. Covers(e, j) BY <2>4, <3>1, <3>2 DEF Covers
        <4>2. l + 1 \in DOMAIN s BY <2>10
        <4> QED BY <2>10, <4>1, <4>2
      <3>3. CASE ~(start <= j)
        <4>1. PICK k \in DOMAIN events : Covers(events[k], j) BY <1>6, <2>13, <3>1, <3>3
        <4>2. k \in DOMAIN s /\ s[k] = events[k] BY <2>10
        <4> QED BY <4>1, <4>2
      <3> QED BY <3>2, <3>3
    <2>14. ScanWell(d, i)
      <3>1. d.start \in 0..i BY <1>8, <2>8
      <3> QED BY <2>8, <2>10, <2>11, <2>12, <2>13, <3>1 DEF ScanWell
    <2> QED BY <2>5, <2>14
  <1>11. ASSUME InDrawdown(i), start # 0 PROVE ScanWell(Scan(c, i), i)
    <2>1. Scan(c, i) = c BY <1>5, <1>11 DEF Scan
    <2>2. \A j \in start..i : InDrawdown(j)
      <3> SUFFICES ASSUME NEW j \in start..i PROVE InDrawdown(j)
        OBVIOUS
      <3>1. j = i \/ j \in start..m BY <1>8
      <3> QED BY <1>6, <1>11, <3>1
    <2>3. \A k \in DOMAIN events : events[k].end # 0 /\ events[k].end <= i BY <1>6, <1>7, <1>8
    <2>4. ASSUME NEW j \in 1..i, InDrawdown(j)
          PROVE  start <= j \/ \E k \in DOMAIN events : Covers(events[k], j)
      <3>1. j = i \/ j \in 1..m BY <1>8
      <3>2. start <= i BY <1>8
      <3> QED BY <1>6, <2>4, <3>1, <3>2
    <2>5. start \in 0..i /\ c \in ScanStates BY <1>8 DEF ScanWell
    <2>6. ScanWell(c, i) BY <1>3, <1>4, <1>6, <1>11, <2>2, <2>3, <2>4, <2>5 DEF ScanWell
    <2> QED BY <2>1, <2>6
  <1>12. ASSUME ~InDrawdown(i), start = 0 PROVE ScanWell(Scan(c, i), i)
    <2>1. Scan(c, i) = c BY <1>5, <1>12 DEF Scan
    <2>2. \A k \in DOMAIN events : events[k].end # 0 /\ events[k].end <= i BY <1>6, <1>7, <1>8
    <2>3. ASSUME NEW j \in 1..i, InDrawdown(j)
          PROVE  \E k \in DOMAIN events : Covers(events[k], j)
      <3>1. j \in 1..m BY <1>8, <1>12, <2>3
      <3> QED BY <1>6, <1>12, <2>3, <3>1
    <2>4. start \in 0..i /\ c \in ScanStates BY <1>8 DEF ScanWell
    <2>5. ScanWell(c, i) BY <1>3, <1>4, <1>6, <1>12, <2>2, <2>3, <2>4 DEF ScanWell
    <2> QED BY <2>1, <2>5
  <1> QED BY <1>8, <1>9, <1>10, <1>11, <1>12

Scanning(D, g) ==
  g = [s \in D |-> IF s = {} THEN [start |-> 0, events |-> <<>>]
                   ELSE Scan(g[s \ {Max(s)}], [i \in DOMAIN rows |-> i][Max(s)])]

Scans == CHOOSE g : Scanning(SUBSET DOMAIN [i \in DOMAIN rows |-> i], g)

LEMMA AllDrawdownsAre ==
  LET c == Scans[DOMAIN [i \in DOMAIN rows |-> i]]
  IN  AllDrawdowns = IF c.start = 0 THEN c.events ELSE Append(c.events, EventOf(c.start, 0))
  BY Zenon DEF AllDrawdowns, FoldLeft, MapThenFoldSet, Scans, Scanning

(* Whatever rows a scan goes through, it holds events of some rows.        *)
AnyEvents == {EventOf(a, b) : a \in 0..Len(rows), b \in 0..Len(rows)}
AnyScans == [start : 0..Len(rows), events : Seq(AnyEvents)]

LEMMA ScanStays ==
  ASSUME RunWell, NEW c \in AnyScans, NEW i \in DOMAIN rows
  PROVE  Scan(c, i) \in AnyScans
  <1>1. PICK n \in Nat : n = Len(rows) /\ DOMAIN rows = 1..n BY RunFacts
  <1>2. PICK start \in 0..n : start = c.start BY <1>1 DEF AnyScans
  <1>3. PICK events \in Seq(AnyEvents) : events = c.events BY DEF AnyScans
  <1>4. c = [start |-> start, events |-> events] BY <1>2, <1>3 DEF AnyScans
  <1>5. i \in 0..n BY <1>1
  <1>6. [start |-> i, events |-> events] \in AnyScans BY <1>1, <1>5 DEF AnyScans
  <1>7. [start |-> 0, events |-> Append(events, EventOf(start, i))] \in AnyScans
    <2>1. EventOf(start, i) \in AnyEvents BY <1>1, <1>5 DEF AnyEvents
    <2>2. Append(events, EventOf(start, i)) \in Seq(AnyEvents) BY <2>1, AppendProperties
    <2>3. 0 \in 0..n OBVIOUS
    <2> QED BY <1>1, <2>2, <2>3 DEF AnyScans
  <1>8. \/ Scan(c, i) = c \/ Scan(c, i) = [start |-> i, events |-> events]
        \/ Scan(c, i) = [start |-> 0, events |-> Append(events, EventOf(start, i))]
    BY <1>4 DEF Scan
  <1> QED BY <1>6, <1>7, <1>8

LEMMA ScanSteps ==
  ASSUME RunWell
  PROVE  /\ Scans[{}] = [start |-> 0, events |-> <<>>]
         /\ \A m \in Nat : m + 1 <= Len(rows) => Scans[1..(m + 1)] = Scan(Scans[1..m], m + 1)
  <1>1. PICK n \in Nat : n = Len(rows) BY RunFacts
  <1>2. DOMAIN rows = 1..n BY <1>1, RunFacts
  <1>3. PICK D : D = SUBSET (1..n) OBVIOUS
  <1>4. PICK id : id = [i \in DOMAIN rows |-> i] OBVIOUS
  <1>5. DOMAIN id = 1..n /\ \A k \in 1..n : id[k] = k BY <1>2, <1>4
  <1>6. PICK base : base = [start |-> 0, events |-> <<>>] OBVIOUS
  <1>7. base \in AnyScans
    <2>1. <<>> \in Seq(AnyEvents) /\ 0 \in 0..n BY EmptySeq
    <2> QED BY <1>1, <1>6, <2>1 DEF AnyScans
  <1>8. PICK F : F = [i \in 1..n |-> [c \in AnyScans |-> Scan(c, i)]] OBVIOUS
  <1>9. F \in [1..n -> [AnyScans -> AnyScans]]
    <2>1. \A i \in 1..n, c \in AnyScans : Scan(c, i) \in AnyScans BY <1>2, ScanStays
    <2> QED BY <1>8, <2>1
  <1>10. \A i \in 1..n, c \in AnyScans : F[i][c] = Scan(c, i) BY <1>8
  <1>11. PICK g \in [SUBSET (1..n) -> AnyScans] : IsFold(g, n, base, F)
    BY <1>7, <1>9, FoldExists, Zenon
  <1>12. \A s \in D : s # {} => Max(s) \in 1..n /\ s \ {Max(s)} \in D
    <2> SUFFICES ASSUME NEW s \in SUBSET (1..n), s # {}
                 PROVE  Max(s) \in 1..n /\ s \ {Max(s)} \in SUBSET (1..n)
      BY <1>3
    <2>1. Max(s) \in s /\ s \ {Max(s)} \in SUBSET (1..n) BY SmallerSets
    <2> QED BY <2>1
  <1>13. g \in [D -> AnyScans] BY <1>3, <1>11
  <1>14. \A s \in D : g[s] = IF s = {} THEN base ELSE Scan(g[s \ {Max(s)}], id[Max(s)])
    <2>1. \A s \in D : g[s] = IF s = {} THEN base ELSE F[Max(s)][g[s \ {Max(s)}]]
      BY <1>3, <1>11, Zenon DEF IsFold
    <2>2. ASSUME NEW s \in D, s # {}
          PROVE  F[Max(s)][g[s \ {Max(s)}]] = Scan(g[s \ {Max(s)}], id[Max(s)])
      <3>1. PICK x : x = Max(s) OBVIOUS
      <3>2. PICK y : y = g[s \ {Max(s)}] OBVIOUS
      <3>3. x \in 1..n /\ y \in AnyScans BY <1>12, <1>13, <2>2, <3>1, <3>2
      <3>4. F[x][y] = Scan(y, x) /\ id[x] = x BY <1>5, <1>10, <3>3
      <3> QED BY <3>1, <3>2, <3>4, Zenon
    <2> QED BY <2>1, <2>2, Zenon
  <1>15. g = [s \in D |-> IF s = {} THEN base ELSE Scan(g[s \ {Max(s)}], id[Max(s)])]
    <2>1. g = [s \in D |-> g[s]] BY <1>13
    <2> QED BY <1>14, <2>1, Zenon
  <1>16. Scanning(D, g) BY <1>4, <1>6, <1>15, Zenon DEF Scanning
  <1>17. D = SUBSET DOMAIN [i \in DOMAIN rows |-> i] BY <1>3, <1>4, <1>5
  <1>18. PICK G : G = Scans OBVIOUS
  <1>19. Scanning(D, G)
    <2>1. G = CHOOSE h : Scanning(D, h) BY <1>17, <1>18, Zenon DEF Scans
    <2>2. \E h : Scanning(D, h) BY <1>16, Zenon
    <2> QED BY <2>1, <2>2, Zenon
  <1>20. G = [s \in D |-> IF s = {} THEN base ELSE Scan(G[s \ {Max(s)}], id[Max(s)])]
    BY <1>4, <1>6, <1>19, Zenon DEF Scanning
  <1>21. \A s \in D : G[s] = IF s = {} THEN base ELSE Scan(G[s \ {Max(s)}], id[Max(s)])
    BY <1>20, Zenon
  <1>22. G[{}] = base
    <2>1. {} \in D BY <1>3
    <2> QED BY <1>21, <2>1, Zenon
  <1>23. ASSUME NEW m \in Nat, m + 1 <= n PROVE G[1..(m + 1)] = Scan(G[1..m], m + 1)
    <2>1. PICK s : s = 1..(m + 1) OBVIOUS
    <2>2. s \in D /\ s # {} /\ Max(s) = m + 1 /\ s \ {m + 1} = 1..m BY <1>3, <1>23, <2>1, FirstPlaces
    <2>3. G[s] = Scan(G[s \ {Max(s)}], id[Max(s)]) BY <1>21, <2>2, Zenon
    <2>4. id[m + 1] = m + 1
      <3>1. m + 1 \in 1..n BY <1>23
      <3> QED BY <1>5, <3>1
    <2>5. G[s] = Scan(G[1..m], m + 1) BY <2>2, <2>3, <2>4, Zenon
    <2> QED BY <2>1, <2>5, Zenon
  <1> QED BY <1>1, <1>6, <1>18, <1>22, <1>23, Zenon

(* The events found, the open one last, cover the rows under water.        *)
DrawdownsWell(events) ==
  /\ EventsWell(events)
  /\ \A k \in DOMAIN events : events[k].end = 0 => k = Len(events)
  /\ \A i \in DOMAIN rows : InDrawdown(i) => \E k \in DOMAIN events : Covers(events[k], i)

LEMMA DrawdownsFound == ASSUME RunWell PROVE DrawdownsWell(AllDrawdowns)
  <1>1. PICK n \in Nat : n = Len(rows) /\ DOMAIN rows = 1..n BY RunFacts
  <1>2. PICK N : N = {m \in Nat : m <= n => ScanWell(Scans[1..m], m)} OBVIOUS
  <1>3. 0 \in N
    <2>1. PICK c : c = Scans[1..0] OBVIOUS
    <2>2. 1..0 = {} OBVIOUS
    <2>3. c = [start |-> 0, events |-> <<>>] BY <2>1, <2>2, ScanSteps
    <2>4. c.start = 0 /\ c.events = <<>> BY <2>3
    <2>5. <<>> \in Seq(Events) /\ DOMAIN <<>> = {} BY EmptySeq
    <2>6. EventsWell(c.events) BY <2>4, <2>5 DEF EventsWell
    <2>7. c \in ScanStates BY <2>3, <2>5 DEF ScanStates
    <2>8. ScanWell(c, 0) BY <2>2, <2>4, <2>5, <2>6, <2>7 DEF ScanWell
    <2> QED BY <1>2, <2>1, <2>8
  <1>4. ASSUME NEW m \in Nat, m \in N PROVE m + 1 \in N
    <2>1. ASSUME m + 1 <= n PROVE ScanWell(Scans[1..(m + 1)], m + 1)
      <3>1. ScanWell(Scans[1..m], m) BY <1>2, <1>4, <2>1
      <3>2. Scans[1..(m + 1)] = Scan(Scans[1..m], m + 1) BY <1>1, <2>1, ScanSteps
      <3>3. m + 1 \in DOMAIN rows BY <1>1, <2>1
      <3>4. PICK c : c = Scans[1..m] OBVIOUS
      <3>5. ScanWell(Scan(c, m + 1), m + 1) BY <3>1, <3>3, <3>4, ScanStep
      <3> QED BY <3>2, <3>4, <3>5
    <2> QED BY <1>2, <2>1
  <1>5. Nat \subseteq N BY <1>3, <1>4, NatSetInduction
  <1>6. PICK c : c = Scans[1..n] OBVIOUS
  <1>7. ScanWell(c, n) BY <1>2, <1>5, <1>6
  <1>8. AllDrawdowns = IF c.start = 0 THEN c.events ELSE Append(c.events, EventOf(c.start, 0))
    <2>1. DOMAIN [i \in DOMAIN rows |-> i] = 1..n BY <1>1
    <2> QED BY <1>6, <2>1, AllDrawdownsAre
  <1>9. PICK events : events = c.events OBVIOUS
  <1>10. PICK start \in 0..n : start = c.start BY <1>7 DEF ScanWell
  <1>11. /\ EventsWell(events)
         /\ \A k \in DOMAIN events : events[k].end # 0 /\ (start # 0 => events[k].end <= start)
         /\ \A i \in start..n : start # 0 => InDrawdown(i)
         /\ \A i \in 1..n : InDrawdown(i) => \/ start # 0 /\ start <= i
                                             \/ \E k \in DOMAIN events : Covers(events[k], i)
    BY <1>7, <1>9, <1>10 DEF ScanWell
  <1>12. ASSUME start = 0 PROVE DrawdownsWell(AllDrawdowns)
    <2>1. AllDrawdowns = events BY <1>8, <1>9, <1>10, <1>12
    <2> QED BY <1>1, <1>11, <1>12, <2>1 DEF DrawdownsWell
  <1>13. ASSUME start # 0 PROVE DrawdownsWell(AllDrawdowns)
    <2>1. PICK e : e = EventOf(start, 0) OBVIOUS
    <2>2. PICK s : s = Append(events, e) OBVIOUS
    <2>3. AllDrawdowns = s BY <1>8, <1>9, <1>10, <1>13, <2>1, <2>2
    <2>4. start \in DOMAIN rows BY <1>1, <1>13
    <2>5. EventWell(e) /\ e.start = start /\ e.end = 0
      <3>1. \A i \in start..(IF 0 = 0 THEN Len(rows) ELSE 0 - 1) : InDrawdown(i) BY <1>1, <1>11, <1>13
      <3> QED BY <2>1, <2>4, <3>1, EventFacts
    <2>6. PICK l \in Nat : l = Len(events) BY <1>11, <1>13, <2>5, OneMoreEvent
    <2>7. /\ EventsWell(s) /\ DOMAIN s = 1..l + 1 /\ DOMAIN events = 1..l /\ Len(s) = l + 1
          /\ \A k \in 1..l : s[k] = events[k]
          /\ s[l + 1] = e
      <3>1. \A k \in DOMAIN events : events[k].end # 0 /\ events[k].end <= e.start
        BY <1>11, <1>13, <2>5
      <3> HIDE DEF EventsWell, EventWell
      <3> QED BY <1>11, <2>2, <2>5, <2>6, <3>1, OneMoreEvent
    <2>8. \A k \in DOMAIN s : s[k].end = 0 => k = Len(s)
      <3> SUFFICES ASSUME NEW k \in 1..l + 1, s[k].end = 0 PROVE k = l + 1
        BY <2>7
      <3>1. k \in 1..l => events[k].end # 0 /\ s[k] = events[k] BY <1>11, <2>7
      <3> QED BY <3>1
    <2>9. \A i \in DOMAIN rows : InDrawdown(i) => \E k \in DOMAIN s : Covers(s[k], i)
      <3> SUFFICES ASSUME NEW i \in 1..n, InDrawdown(i) PROVE \E k \in DOMAIN s : Covers(s[k], i)
        BY <1>1
      <3>1. CASE start <= i
        <4>1. Covers(e, i) BY <2>5, <3>1 DEF Covers
        <4>2. l + 1 \in DOMAIN s BY <2>7
        <4> QED BY <2>7, <4>1, <4>2
      <3>2. CASE ~(start <= i)
        <4>1. PICK k \in DOMAIN events : Covers(events[k], i) BY <1>11, <3>2
        <4>2. k \in DOMAIN s /\ s[k] = events[k] BY <2>7
        <4> QED BY <4>1, <4>2
      <3> QED BY <3>1, <3>2
    <2> QED BY <2>3, <2>7, <2>8, <2>9 DEF DrawdownsWell
  <1> QED BY <1>12, <1>13

LEMMA CoversFacts ==
  ASSUME RunWell, NEW events, DrawdownsWell(events)
  PROVE  /\ \A k \in DOMAIN events : /\ events[k].start \in DOMAIN rows /\ InDrawdown(events[k].start)
                                     /\ events[k].depth \in Int /\ events[k].trough \in DOMAIN rows
                                     /\ Depth(events[k].trough) = events[k].depth
                                     /\ Covers(events[k], events[k].trough)
                                     /\ events[k].depth <= Depth(events[k].start)
         /\ \A k \in DOMAIN events : \A i \in DOMAIN rows :
              Covers(events[k], i) => InDrawdown(i) /\ events[k].depth <= Depth(i)
         /\ \A k, l \in DOMAIN events : \A i \in DOMAIN rows :
              Covers(events[k], i) /\ Covers(events[l], i) => k = l
  <1>1. PICK n \in Nat : n = Len(rows) /\ DOMAIN rows = 1..n BY RunFacts
  <1>2. ASSUME NEW k \in DOMAIN events
        PROVE  /\ events[k].start \in DOMAIN rows /\ InDrawdown(events[k].start)
               /\ events[k].depth \in Int /\ events[k].trough \in DOMAIN rows
               /\ Depth(events[k].trough) = events[k].depth
               /\ Covers(events[k], events[k].trough)
               /\ events[k].depth <= Depth(events[k].start)
               /\ events[k].start \in Nat /\ events[k].end \in Nat
               /\ \A i \in DOMAIN rows : Covers(events[k], i) =>
                    InDrawdown(i) /\ events[k].depth <= Depth(i)
    <2>1. PICK e : e = events[k] OBVIOUS
    <2>2. EventWell(e) BY <2>1, Zenon DEF DrawdownsWell, EventsWell
    <2>3. e.start \in Nat \ {0} /\ e.trough \in Nat /\ e.end \in Nat /\ e.depth \in Int
      BY <2>2 DEF EventWell, Events
    <2>4. PICK u \in Nat : u = Until(e) /\ u = (IF e.end = 0 THEN n + 1 ELSE e.end)
      BY <1>1, <2>3 DEF Until
    <2>5. /\ e.start < u /\ u <= n + 1 /\ e.trough \in e.start..u - 1 /\ Depth(e.trough) = e.depth
          /\ \A i \in e.start..u - 1 : InDrawdown(i) /\ e.depth <= Depth(i)
      BY <1>1, <2>2, <2>4 DEF EventWell
    <2>6. e.start \in e.start..u - 1 /\ e.start \in 1..n BY <2>3, <2>5
    <2>7. e.trough \in 1..n BY <2>3, <2>5
    <2>8. \A i \in 1..n : Covers(e, i) <=> i \in e.start..u - 1
      BY <2>3, <2>4, <2>5 DEF Covers
    <2>9. Covers(e, e.trough) BY <2>5, <2>7, <2>8
    <2> QED BY <1>1, <2>1, <2>3, <2>5, <2>6, <2>7, <2>8, <2>9
  <1>3. ASSUME NEW k \in DOMAIN events, NEW l \in DOMAIN events, NEW i \in DOMAIN rows,
               Covers(events[k], i), Covers(events[l], i), k < l
        PROVE  FALSE
    <2>1. events[k].end # 0 /\ events[k].end <= events[l].start
      BY <1>3, Zenon DEF DrawdownsWell, EventsWell
    <2>2. i \in Nat BY <1>1
    <2>3. i < events[k].end /\ events[l].start <= i BY <1>3, <2>1 DEF Covers
    <2> QED BY <1>2, <2>1, <2>2, <2>3
  <1>4. DOMAIN events \subseteq Nat
    <2>1. events \in Seq(Events) BY DEF DrawdownsWell, EventsWell
    <2> QED BY <2>1, LenProperties
  <1>5. ASSUME NEW k \in DOMAIN events, NEW l \in DOMAIN events, NEW i \in DOMAIN rows,
               Covers(events[k], i), Covers(events[l], i)
        PROVE  k = l
    <2>1. k < l \/ l < k \/ k = l BY <1>4
    <2> QED BY <1>3, <1>5, <2>1
  <1> QED BY <1>2, <1>5

(* The first of the events by depth is as deep as the curve ever fell.     *)
LEMMA DeepestFirst ==
  ASSUME RunWell, NEW events, DrawdownsWell(events), NEW n \in Nat \ {0}, n = Len(events),
         NEW depths, depths = [k \in DOMAIN events |-> events[k].depth]
  PROVE  events[Ordered(depths, 1)].depth = Min({Depth(i) : i \in DOMAIN rows})
  <1>1. DOMAIN events = 1..n
    <2>1. events \in Seq(Events) BY DEF DrawdownsWell, EventsWell
    <2> QED BY <2>1, LenProperties
  <1>2. \A k \in 1..n : events[k].depth \in Int BY <1>1, CoversFacts
  <1>3. depths \in [1..n -> Int] BY <1>1, <1>2
  <1>4. 1 \in 1..n OBVIOUS
  <1>5. \A k \in 1..n : Ordered(depths, k) \in 1..n BY <1>3, OrderedFacts
  <1>6. \A k, l \in 1..n : k < l => depths[Ordered(depths, k)] <= depths[Ordered(depths, l)]
    BY <1>3, OrderedFacts
  <1>7. PICK o \in 1..n : o = Ordered(depths, 1) BY <1>4, <1>5
  <1>8. \A k \in 1..n : depths[o] <= depths[k]
    <2> SUFFICES ASSUME NEW k \in 1..n PROVE depths[o] <= depths[k]
      OBVIOUS
    <2>1. PICK b : b = [j \in 1..n |-> Ordered(depths, j)] OBVIOUS
    <2>2. b \in Bijection(1..n, 1..n) BY <1>3, <2>1, OrderedFacts
    <2>3. PICK j \in 1..n : b[j] = k BY <2>2 DEF Bijection, Surjection
    <2>4. Ordered(depths, j) = k BY <2>1, <2>3
    <2>5. j = 1 \/ 1 < j OBVIOUS
    <2>6. 1 < j => depths[Ordered(depths, 1)] <= depths[Ordered(depths, j)] BY <1>4, <1>6
    <2>7. depths[o] \in Int BY <1>3
    <2> QED BY <1>7, <2>4, <2>5, <2>6, <2>7
  <1>9. PICK d \in Int : d = events[o].depth BY <1>2
  <1>10. \A k \in 1..n : d <= events[k].depth BY <1>1, <1>8, <1>9
  <1>11. PICK S : S = {Depth(i) : i \in DOMAIN rows} OBVIOUS
  <1>12. S \subseteq Int BY <1>11, FallsFacts
  <1>13. d \in S
    <2>1. events[o].trough \in DOMAIN rows /\ Depth(events[o].trough) = d BY <1>1, <1>9, CoversFacts
    <2> QED BY <1>11, <2>1
  <1>14. \A y \in S : d <= y
    <2> SUFFICES ASSUME NEW i \in DOMAIN rows PROVE d <= Depth(i)
      BY <1>11
    <2>1. Depth(i) \in Int BY FallsFacts
    <2>2. CASE InDrawdown(i)
      <3>1. PICK k \in 1..n : Covers(events[k], i) BY <1>1, <2>2 DEF DrawdownsWell
      <3>2. events[k].depth <= Depth(i) BY <1>1, <3>1, CoversFacts
      <3> QED BY <1>2, <1>10, <2>1, <3>2
    <2>3. CASE ~InDrawdown(i)
      <3>1. PICK j \in DOMAIN rows : j = events[o].start /\ InDrawdown(j) /\ d <= Depth(j)
        BY <1>1, <1>9, CoversFacts
      <3>2. Depth(j) < -10 /\ Depth(j) \in Int /\ ~(Depth(i) < -10) BY <2>3, <3>1, FallsFacts
      <3> QED BY <2>1, <3>1, <3>2
    <2> QED BY <2>2, <2>3
  <1>15. Min(S) = d BY <1>12, <1>13, <1>14, ExtremeIs
  <1> QED BY <1>7, <1>9, <1>11, <1>15

LEMMA DrawdownsFacts == ASSUME RunWell PROVE DrawdownsPartition
  <1>1. PICK events : events = AllDrawdowns OBVIOUS
  <1>2. DrawdownsWell(events) BY <1>1, DrawdownsFound
  <1>3. PICK n \in Nat : n = Len(events) /\ DOMAIN events = 1..n
    <2>1. events \in Seq(Events) BY <1>2 DEF DrawdownsWell, EventsWell
    <2> QED BY <2>1, LenProperties
  <1>4. ASSUME NEW i \in DOMAIN rows
        PROVE  Cardinality({k \in DOMAIN events : Covers(events[k], i)})
                 = IF InDrawdown(i) THEN 1 ELSE 0
    <2>1. PICK C : C = {k \in DOMAIN events : Covers(events[k], i)} OBVIOUS
    <2>2. CASE InDrawdown(i)
      <3>1. PICK k \in DOMAIN events : Covers(events[k], i) BY <1>2, <2>2 DEF DrawdownsWell
      <3>2. \A l \in C : l = k BY <1>2, <2>1, <3>1, CoversFacts
      <3>3. C = {k} BY <2>1, <3>1, <3>2
      <3>4. Cardinality(C) = 1 BY <3>3, FS_Singleton
      <3> QED BY <2>1, <2>2, <3>4
    <2>3. CASE ~InDrawdown(i)
      <3>1. \A k \in DOMAIN events : ~Covers(events[k], i) BY <1>2, <2>3, CoversFacts
      <3>2. C = {} BY <2>1, <3>1
      <3>3. Cardinality(C) = 0 BY <3>2, FS_EmptySet
      <3> QED BY <2>1, <2>3, <3>3
    <2> QED BY <2>2, <2>3
  <1>5. ASSUME NEW k \in DOMAIN events
        PROVE  Covers(events[k], events[k].trough) /\ (events[k].end = 0 => k = Len(events))
    <2>1. Covers(events[k], events[k].trough) BY <1>2, CoversFacts
    <2>2. events[k].end = 0 => k = Len(events) BY <1>2 DEF DrawdownsWell
    <2> QED BY <2>1, <2>2
  <1>6. ASSUME FindDrawdowns # <<>>
        PROVE  FindDrawdowns[1].depth = Min({Drawdown(RawEquity, i) : i \in DOMAIN rows})
    <2>1. PICK depths : depths = [k \in DOMAIN events |-> events[k].depth] OBVIOUS
    <2>2. PICK l \in Int : l = Min({TopN, n})
      <3>1. TopN \in Int BY DiagnosisAssumption
      <3> QED BY <3>1, LesserOfTwo
    <2>3. FindDrawdowns = [k \in 1..l |-> events[Ordered(depths, k)]]
      BY <1>1, <1>3, <2>1, <2>2 DEF FindDrawdowns
    <2>4. l >= 1
      <3>1. ASSUME ~(l >= 1) PROVE FALSE
        <4>1. 1..l = {} BY <3>1
        <4>2. PICK r : r = FindDrawdowns OBVIOUS
        <4>3. r = [k \in {} |-> events[Ordered(depths, k)]] BY <2>3, <4>1, <4>2
        <4>4. r = <<>> BY <4>3
        <4> QED BY <1>6, <4>2, <4>4
      <3> QED BY <3>1
    <2>5. n # 0
      <3>1. TopN \in Nat BY DiagnosisAssumption
      <3>2. l = IF TopN <= n THEN TopN ELSE n BY <2>2, <3>1, LesserOfTwo
      <3> QED BY <2>4, <3>1, <3>2
    <2>6. FindDrawdowns[1] = events[Ordered(depths, 1)] BY <2>3, <2>4
    <2>7. events[Ordered(depths, 1)].depth = Min({Depth(i) : i \in DOMAIN rows})
      BY <1>2, <1>3, <2>1, <2>5, DeepestFirst
    <2> QED BY <2>6, <2>7 DEF Depth
  <1>7. ASSUME \A i \in DOMAIN rows : rows[i].equity # 0, NEW i \in DrawdownRows PROVE InDrawdown(i)
    <2>1. \A j \in DOMAIN rows : j \in Defined /\ EquityAt(j) = rows[j].equity BY <1>7, EquityFacts
    <2>2. KnownEquity = RawEquity BY <2>1 DEF KnownEquity, RawEquity
    <2>3. i \in DOMAIN rows /\ Drawdown(KnownEquity, i) < -200 BY EquityFacts DEF DrawdownRows
    <2>4. Depth(i) < -200 /\ Depth(i) \in Int BY <2>2, <2>3, FallsFacts DEF Depth
    <2>5. Depth(i) < -10 BY <2>4
    <2> QED BY <2>3, <2>5, FallsFacts
  <1>8. \A i \in DOMAIN rows :
          Cardinality({k \in DOMAIN events : Covers(events[k], i)}) = IF InDrawdown(i) THEN 1 ELSE 0
    BY <1>4
  <1> QED BY <1>1, <1>5, <1>6, <1>7, <1>8, Zenon DEF DrawdownsPartition


----------------------------------------------------------------------------
(* The transitions: the rows at which a regime changes, one after the      *)
(* other.                                                                  *)

(* The looks at a row: two, one for each kind of regime.                   *)
LEMMA LooksFacts ==
  ASSUME NEW n \in Nat, n = Len(rows)
  PROVE  /\ Looks \in SUBSET Nat /\ IsFiniteSet(Looks)
         /\ \A p \in Looks : RowAt(p) \in 2..n /\ ColumnAt(p) \in {"vol", "trend"}
         /\ \A p, q \in Looks : p < q /\ ColumnAt(p) = ColumnAt(q) => RowAt(p) < RowAt(q)
         /\ \A column \in {"vol", "trend"} : \A i \in 2..n :
              \E p \in Looks : RowAt(p) = i /\ ColumnAt(p) = column
  <1>1. Looks = 2..(2 * n - 1) BY DEF Looks
  <1>2. Looks \in SUBSET Nat BY <1>1
  <1>3. IsFiniteSet(Looks) BY <1>1, FS_Interval
  <1>4. \A p \in Looks : RowAt(p) \in 2..n BY <1>1 DEF RowAt
  <1>5. \A p \in Looks : ColumnAt(p) \in {"vol", "trend"} BY DEF ColumnAt
  <1>6. ASSUME NEW p \in Looks, NEW q \in Looks, p < q, ColumnAt(p) = ColumnAt(q)
        PROVE  RowAt(p) < RowAt(q)
    <2>1. p \in Nat /\ q \in Nat BY <1>2
    <2>2. p % 2 = 0 <=> q % 2 = 0 BY <1>6 DEF ColumnAt
    <2> QED BY <1>6, <2>1, <2>2 DEF RowAt
  <1>7. ASSUME NEW column \in {"vol", "trend"}, NEW i \in 2..n
        PROVE  \E p \in Looks : RowAt(p) = i /\ ColumnAt(p) = column
    <2>1. PICK p \in Nat : p = IF column = "vol" THEN 2 * (i - 1) ELSE 2 * (i - 1) + 1 OBVIOUS
    <2>2. p \in Looks BY <1>1, <2>1
    <2>3. RowAt(p) = i BY <2>1 DEF RowAt
    <2>4. p % 2 = 0 <=> column = "vol" BY <2>1
    <2>5. ColumnAt(p) = column BY <2>4 DEF ColumnAt
    <2> QED BY <2>2, <2>3, <2>5
  <1> QED BY <1>2, <1>3, <1>4, <1>5, <1>6, <1>7

(* The rows at which a kind of regime changes, in the order of the rows.   *)
Moves(column) == {i \in 2..Len(rows) : Changes(column, i)}
PathAlong(column, m, at) ==
  /\ TransitionsOf(column) = [k \in 1..m |-> Observed(column, at[k])]
  /\ \A k, l \in 1..m : k < l => at[k] < at[l]
  /\ \A i \in Moves(column) : \E k \in 1..m : at[k] = i

LEMMA PathFacts ==
  ASSUME RunWell, NEW column \in {"vol", "trend"}
  PROVE  \E m \in Nat : \E at \in [1..m -> Moves(column)] : PathAlong(column, m, at)
  <1>1. PICK n \in Nat : n = Len(rows) BY RunFacts
  <1>2. PICK s : s = [p \in Looks |-> Observed(ColumnAt(p), RowAt(p))] OBVIOUS
  <1>3. PICK A : A = {p \in Looks : Changes(ColumnAt(p), RowAt(p))} OBVIOUS
  <1>4. A \in SUBSET Nat /\ IsFiniteSet(A)
    <2>1. Looks \in SUBSET Nat /\ IsFiniteSet(Looks) BY <1>1, LooksFacts
    <2> QED BY <1>3, <2>1, FS_Subset
  <1>5. PICK a \in Nat : a = Cardinality(A) BY <1>4, SelectFacts
  <1>6. PICK t : t = Transitions OBVIOUS
  <1>7. t = Select(s, A) BY <1>2, <1>3, <1>6 DEF Transitions
  <1>8. DOMAIN t = 1..a BY <1>4, <1>5, <1>7, SelectFacts
  <1>9. \A k \in 1..a : Nth(A, k) \in A /\ t[k] = s[Nth(A, k)] BY <1>4, <1>5, <1>7, SelectFacts
  <1>10. \A i \in A : \E k \in 1..a : Nth(A, k) = i BY <1>4, <1>5, SelectFacts
  <1>11. \A k, l \in 1..a : k < l => Nth(A, k) < Nth(A, l) BY <1>4, <1>5, SelectFacts
  <1>12. PICK B : B = {k \in DOMAIN t : t[k].regime_type = column} OBVIOUS
  <1>13. \A k \in 1..a : t[k] = Observed(ColumnAt(Nth(A, k)), RowAt(Nth(A, k)))
    BY <1>2, <1>3, <1>9
  <1>14. B = {k \in 1..a : ColumnAt(Nth(A, k)) = column}
    BY <1>8, <1>12, <1>13 DEF Observed
  <1>15. B \in SUBSET Nat /\ IsFiniteSet(B)
    <2>1. IsFiniteSet(1..a) BY FS_Interval
    <2> QED BY <1>14, <2>1, FS_Subset
  <1>16. PICK m \in Nat : m = Cardinality(B) BY <1>15, SelectFacts
  <1>17. TransitionsOf(column) = Select(t, B) BY <1>6, <1>12 DEF TransitionsOf
  <1>18. Select(t, B) = [k \in 1..m |-> t[Nth(B, k)]] BY <1>15, <1>16, SelectFacts
  <1>19. \A k \in 1..m : Nth(B, k) \in B BY <1>15, <1>16, SelectFacts
  <1>20. \A i \in B : \E k \in 1..m : Nth(B, k) = i BY <1>15, <1>16, SelectFacts
  <1>21. \A k, l \in 1..m : k < l => Nth(B, k) < Nth(B, l) BY <1>15, <1>16, SelectFacts
  <1>22. PICK at : at = [k \in 1..m |-> RowAt(Nth(A, Nth(B, k)))] OBVIOUS
  <1>23. \A k \in 1..m : /\ Nth(B, k) \in 1..a /\ Nth(A, Nth(B, k)) \in A
                         /\ ColumnAt(Nth(A, Nth(B, k))) = column
    BY <1>9, <1>14, <1>19
  <1>24. \A k \in 1..m : at[k] \in Moves(column)
    <2> SUFFICES ASSUME NEW k \in 1..m PROVE at[k] \in Moves(column)
      OBVIOUS
    <2>1. PICK p \in A : p = Nth(A, Nth(B, k)) /\ ColumnAt(p) = column /\ at[k] = RowAt(p)
      BY <1>22, <1>23
    <2>2. RowAt(p) \in 2..n BY <1>1, <1>3, LooksFacts
    <2>3. Changes(column, RowAt(p)) BY <1>3, <2>1
    <2> QED BY <1>1, <2>1, <2>2, <2>3 DEF Moves
  <1>25. at \in [1..m -> Moves(column)] BY <1>22, <1>24
  <1>26. TransitionsOf(column) = [k \in 1..m |-> Observed(column, at[k])]
    <2>1. \A k \in 1..m : t[Nth(B, k)] = Observed(column, at[k]) BY <1>13, <1>22, <1>23
    <2> QED BY <1>17, <1>18, <2>1
  <1>27. ASSUME NEW k \in 1..m, NEW l \in 1..m, k < l PROVE at[k] < at[l]
    <2>1. PICK x \in 1..a : x = Nth(B, k) BY <1>23
    <2>2. PICK y \in 1..a : y = Nth(B, l) BY <1>23
    <2>3. x < y BY <1>21, <1>27, <2>1, <2>2
    <2>4. PICK p \in A : p = Nth(A, x) BY <1>9
    <2>5. PICK q \in A : q = Nth(A, y) BY <1>9
    <2>6. p < q BY <1>11, <2>3, <2>4, <2>5
    <2>7. ColumnAt(p) = column /\ ColumnAt(q) = column BY <1>23, <2>1, <2>2, <2>4, <2>5
    <2>8. RowAt(p) < RowAt(q) BY <1>1, <1>3, <2>6, <2>7, LooksFacts
    <2> QED BY <1>22, <2>1, <2>2, <2>4, <2>5, <2>8
  <1>28. ASSUME NEW i \in Moves(column) PROVE \E k \in 1..m : at[k] = i
    <2>1. i \in 2..n /\ Changes(column, i) BY <1>1 DEF Moves
    <2>2. PICK p \in Looks : RowAt(p) = i /\ ColumnAt(p) = column BY <1>1, <2>1, LooksFacts
    <2>3. p \in A BY <1>3, <2>1, <2>2
    <2>4. PICK x \in 1..a : Nth(A, x) = p BY <1>10, <2>3
    <2>5. x \in B BY <1>14, <2>2, <2>4
    <2>6. PICK k \in 1..m : Nth(B, k) = x BY <1>20, <2>5
    <2> QED BY <1>22, <2>2, <2>4, <2>6
  <1>29. PathAlong(column, m, at) BY <1>26, <1>27, <1>28, Zenon DEF PathAlong
  <1> QED BY <1>25, <1>29

(* The mean of some numbers is between two of them.                        *)
LEMMA MeanIsBetween ==
  ASSUME NEW S, IsFiniteSet(S), S # {}, NEW f \in Amounts(S)
  PROVE  MeanOf(f) \in Int /\ \E x, y \in S : f[x] <= MeanOf(f) /\ MeanOf(f) <= f[y]
  <1>1. f \in [S -> Int] BY DEF Amounts
  <1>2. PICK low : low = Min({f[x] : x \in S}) OBVIOUS
  <1>3. PICK high : high = Max({f[x] : x \in S}) OBVIOUS
  <1>4. low \in Int /\ low \in {f[x] : x \in S} BY <1>1, <1>2, ValuesExtremes
  <1>5. high \in Int /\ high \in {f[x] : x \in S} BY <1>1, <1>3, ValuesExtremes
  <1>6. \A x \in S : low <= f[x] BY <1>1, <1>2, ValuesExtremes
  <1>7. \A x \in S : high >= f[x] BY <1>1, <1>3, ValuesExtremes
  <1>8. \A x \in S : low <= f[x] /\ f[x] <= high BY <1>1, <1>4, <1>5, <1>6, <1>7
  <1>9. PICK n \in Nat : n = Cardinality(S) BY FS_CardinalityType
  <1>10. n # 0 BY <1>9, FS_EmptySet
  <1>11. PICK s \in Int : s = SumFunction(f) BY SumType
  <1>12. n * low <= s /\ s <= n * high BY <1>4, <1>5, <1>8, <1>9, <1>11, SumBetween
  <1>13. low <= s \div n /\ s \div n <= high /\ s \div n \in Int
    BY <1>4, <1>5, <1>10, <1>12, QuotientBetween
  <1>14. DOMAIN f = S BY <1>1
  <1>15. MeanOf(f) = s \div n BY <1>9, <1>11, <1>14 DEF MeanOf
  <1>16. PICK x \in S : f[x] = low BY <1>4
  <1>17. PICK y \in S : f[y] = high BY <1>5
  <1> QED BY <1>13, <1>15, <1>16, <1>17

(* No return is less than all of the price.                                *)
LEMMA ForwardReturns ==
  ASSUME RunWell, NEW h \in Nat, NEW i \in DOMAIN rows
  PROVE  /\ i + h <= Len(rows) => ForwardReturn(h, i) \in Int /\ ForwardReturn(h, i) >= -100
         /\ ForwardReturn(h, i) # NoValue <=> i + h <= Len(rows)
  <1>1. PICK n \in Nat : n = Len(rows) /\ DOMAIN rows = 1..n BY RunFacts
  <1>2. ASSUME i + h <= n
        PROVE  ForwardReturn(h, i) \in Int /\ ForwardReturn(h, i) >= -100
    <2>1. i + h \in 1..n BY <1>1, <1>2
    <2>2. PICK p \in Nat \ {0} : p = rows[i].price BY RunFacts
    <2>3. PICK q \in Nat \ {0} : q = rows[i + h].price BY <1>1, <2>1, RunFacts
    <2>4. PICK d \in Int : d = 100 * (q - p) OBVIOUS
    <2>5. PICK x \in Int : x = d \div p BY <2>2, <2>4, DivFloor
    <2>6. d < p * x + p BY <2>2, <2>4, <2>5, DivFloor
    <2>7. ForwardReturn(h, i) = x BY <1>1, <1>2, <2>2, <2>3, <2>4, <2>5 DEF ForwardReturn
    <2>8. ASSUME x <= -101 PROVE FALSE
      <3>1. p * x <= p * (-101) BY <2>8, TimesOrdered
      <3>2. p * x \in Int OBVIOUS
      <3> QED BY <2>4, <2>6, <3>1, <3>2
    <2> QED BY <2>7, <2>8
  <1>3. ~(i + h <= n) => ForwardReturn(h, i) = NoValue BY <1>1 DEF ForwardReturn
  <1>4. NoValue < -1000 /\ NoValue \in Int BY EquityFacts
  <1>5. i + h <= n => ForwardReturn(h, i) # NoValue BY <1>2, <1>4
  <1> QED BY <1>1, <1>2, <1>3, <1>5

(* The averages of a set of rows: one for every horizon that two of the    *)
(* rows have.                                                              *)
LEMMA AverageFacts ==
  ASSUME RunWell, NEW S \in SUBSET DOMAIN rows, NEW h \in Nat, Average(h, Known(h, S)) # NoValue
  PROVE  /\ \A k \in 0..h : Average(k, Known(k, S)) # NoValue
         /\ \E i, j \in Known(h, DOMAIN rows) :
              ForwardReturn(h, i) <= Average(h, Known(h, S))
              /\ Average(h, Known(h, S)) <= ForwardReturn(h, j)
  <1>1. PICK n \in Nat : n = Len(rows) /\ DOMAIN rows = 1..n BY RunFacts
  <1>2. IsFiniteSet(S)
    <2>1. IsFiniteSet(1..n) BY FS_Interval
    <2> QED BY <1>1, <2>1, FS_Subset
  <1>3. \A k \in Nat : Known(k, S) = {i \in S : i + k <= n} BY <1>1, ForwardReturns DEF Known
  <1>4. ASSUME NEW k \in Nat, Cardinality(Known(k, S)) >= 2
        PROVE  /\ Average(k, Known(k, S)) # NoValue
               /\ \E i, j \in Known(k, S) : /\ ForwardReturn(k, i) <= Average(k, Known(k, S))
                                            /\ Average(k, Known(k, S)) <= ForwardReturn(k, j)
    <2>1. PICK K : K = Known(k, S) OBVIOUS
    <2>2. K \subseteq S /\ \A i \in K : i + k <= n BY <1>3, <2>1
    <2>3. IsFiniteSet(K) BY <1>2, <2>2, FS_Subset
    <2>4. K # {}
      <3>1. ASSUME K = {} PROVE FALSE
        <4>1. Cardinality(K) = 0 BY <3>1, FS_EmptySet
        <4> QED BY <1>4, <2>1, <4>1
      <3> QED BY <3>1
    <2>5. PICK f : f = [i \in K |-> ForwardReturn(k, i)] OBVIOUS
    <2>6. \A i \in K : ForwardReturn(k, i) \in Int /\ ForwardReturn(k, i) >= -100
      BY <1>1, <2>2, ForwardReturns
    <2>7. f \in Amounts(K) BY <2>5, <2>6 DEF Amounts
    <2>8. PICK a \in Int : a = MeanOf(f) /\ \E x, y \in K : f[x] <= a /\ a <= f[y]
      BY <2>3, <2>4, <2>7, MeanIsBetween
    <2>9. PICK x \in K, y \in K : f[x] <= a /\ a <= f[y] BY <2>8
    <2>10. a >= -100 BY <2>5, <2>6, <2>9
    <2>11. Cardinality(K) \in Nat /\ Cardinality(K) >= 2 BY <1>4, <2>1, <2>3, FS_CardinalityType
    <2>12. Average(k, K) = a BY <2>5, <2>8, <2>11 DEF Average
    <2>13. a # NoValue BY <2>10, EquityFacts
    <2> QED BY <2>1, <2>5, <2>9, <2>12, <2>13
  <1>5. IsFiniteSet(Known(h, S)) /\ Cardinality(Known(h, S)) \in Nat
    <2>1. Known(h, S) \subseteq S BY DEF Known
    <2>2. IsFiniteSet(Known(h, S)) BY <1>2, <2>1, FS_Subset
    <2> QED BY <2>2, FS_CardinalityType
  <1>6. Cardinality(Known(h, S)) >= 2 BY <1>5 DEF Average
  <1>7. ASSUME NEW k \in 0..h PROVE Average(k, Known(k, S)) # NoValue
    <2>1. Known(h, S) \subseteq Known(k, S) /\ Known(k, S) \subseteq S
      <3>1. \A i \in S : i \in Int BY <1>1
      <3>2. Known(h, S) = {i \in S : i + h <= n} BY <1>3
      <3>3. Known(k, S) = {i \in S : i + k <= n} BY <1>3
      <3> QED BY <3>1, <3>2, <3>3
    <2>2. IsFiniteSet(Known(k, S)) BY <1>2, <2>1, FS_Subset
    <2>3. Cardinality(Known(h, S)) <= Cardinality(Known(k, S)) /\ Cardinality(Known(k, S)) \in Nat
      BY <2>1, <2>2, FS_Subset, FS_CardinalityType
    <2>4. Cardinality(Known(k, S)) >= 2 BY <1>5, <1>6, <2>3
    <2> QED BY <1>4, <2>4
  <1>8. Known(h, S) \subseteq Known(h, DOMAIN rows) BY DEF Known
  <1> QED BY <1>4, <1>6, <1>7, <1>8

(* The moves of a kind of regime from one to another.                      *)
MovesOf(column, from, to) ==
  {i \in Moves(column) : rows[i - 1][column] = from /\ rows[i][column] = to}

LEMMA MovesFacts ==
  ASSUME RunWell, NEW column, NEW n \in Nat, n = Len(rows)
  PROVE  /\ Moves(column) \in SUBSET (2..n) /\ IsFiniteSet(Moves(column))
         /\ \A i \in 2..n : i \in Moves(column) <=> rows[i][column] # rows[i - 1][column]
         /\ \A from, to : MovesOf(column, from, to) \in SUBSET Moves(column)
  <1>1. Moves(column) \in SUBSET (2..n) BY DEF Moves
  <1>2. IsFiniteSet(2..n) BY FS_Interval
  <1>3. IsFiniteSet(Moves(column)) BY <1>1, <1>2, FS_Subset
  <1>4. \A i \in 2..n : i \in Moves(column) <=> rows[i][column] # rows[i - 1][column]
    BY DEF Moves, Changes
  <1>5. \A from, to : MovesOf(column, from, to) \in SUBSET Moves(column) BY DEF MovesOf
  <1> QED BY <1>1, <1>3, <1>4, <1>5

LEMMA FrequencyCounts ==
  ASSUME RunWell, NEW column \in {"vol", "trend"}, NEW from, NEW to
  PROVE  Frequency(column, from, to) = Cardinality(MovesOf(column, from, to))
  <1>1. PICK m \in Nat : \E at \in [1..m -> Moves(column)] : PathAlong(column, m, at) BY PathFacts
  <1>2. PICK at \in [1..m -> Moves(column)] : PathAlong(column, m, at) BY <1>1
  <1>3. PICK path : path = TransitionsOf(column) OBVIOUS
  <1>4. path = [k \in 1..m |-> Observed(column, at[k])] BY <1>2, <1>3 DEF PathAlong
  <1>5. PICK F : F = {k \in DOMAIN path : path[k].from = from /\ path[k].to = to} OBVIOUS
  <1>6. F = {k \in 1..m : rows[at[k] - 1][column] = from /\ rows[at[k]][column] = to}
    BY <1>4, <1>5 DEF Observed
  <1>7. PICK M : M = MovesOf(column, from, to) OBVIOUS
  <1>8. M = {i \in Moves(column) : rows[i - 1][column] = from /\ rows[i][column] = to}
    BY <1>7 DEF MovesOf
  <1>9. F \in SUBSET (1..m) BY <1>6
  <1>10. IsFiniteSet(F)
    <2>1. IsFiniteSet(1..m) BY FS_Interval
    <2> QED BY <1>9, <2>1, FS_Subset
  <1>11. PICK b : b = [k \in F |-> at[k]] OBVIOUS
  <1>12. b \in [F -> M] BY <1>6, <1>8, <1>11
  <1>13. ASSUME NEW k \in F, NEW l \in F, b[k] = b[l] PROVE k = l
    <2>1. at[k] = at[l] BY <1>11, <1>13
    <2>2. k \in 1..m /\ l \in 1..m BY <1>9
    <2>3. at[k] \in Int /\ at[l] \in Int
      <3>1. PICK n \in Nat : n = Len(rows) BY RunFacts
      <3>2. Moves(column) \subseteq Int BY <3>1, MovesFacts
      <3> QED BY <2>2, <3>2
    <2>4. k < l => at[k] < at[l] BY <1>2, <2>2 DEF PathAlong
    <2>5. l < k => at[l] < at[k] BY <1>2, <2>2 DEF PathAlong
    <2> QED BY <2>1, <2>2, <2>3, <2>4, <2>5
  <1>14. ASSUME NEW i \in M PROVE \E k \in F : b[k] = i
    <2>1. i \in Moves(column) BY <1>8
    <2>2. PICK k \in 1..m : at[k] = i BY <1>2, <2>1 DEF PathAlong
    <2>3. k \in F BY <1>6, <1>8, <2>2
    <2> QED BY <1>11, <2>2, <2>3
  <1>15. Cardinality(F) = Cardinality(M) BY <1>10, <1>12, <1>13, <1>14, NumberedCount
  <1>16. Frequency(column, from, to) = Cardinality(F) BY <1>3, <1>5 DEF Frequency
  <1> QED BY <1>7, <1>15, <1>16

(* Between two moves nothing changes.                                      *)
LEMMA StaysBetween ==
  ASSUME RunWell, NEW column, NEW n \in Nat, n = Len(rows), NEW i \in 1..n, NEW j \in i..n,
         \A x \in Moves(column) : ~(i < x /\ x <= j)
  PROVE  rows[j][column] = rows[i][column]
  <1> DEFINE D == {d \in Nat : i + d <= j => rows[i + d][column] = rows[i][column]}
  <1>1. 0 \in D OBVIOUS
  <1>2. ASSUME NEW d \in Nat, d \in D PROVE d + 1 \in D
    <2>1. ASSUME i + (d + 1) <= j
          PROVE  rows[i + (d + 1)][column] = rows[i][column]
      <3>1. PICK x \in 2..n : x = i + (d + 1) /\ x - 1 = i + d BY <2>1
      <3>2. i < x /\ x <= j BY <2>1, <3>1
      <3>3. x \notin Moves(column) BY <3>2
      <3>4. rows[x][column] = rows[x - 1][column] BY <3>3, MovesFacts
      <3>5. rows[i + d][column] = rows[i][column] BY <1>2, <2>1
      <3> QED BY <3>1, <3>4, <3>5
    <2> QED BY <2>1
  <1>3. Nat \subseteq D
    <2>1. \A d \in Nat : d \in D => d + 1 \in D BY <1>2
    <2> HIDE DEF D
    <2> QED BY <1>1, <2>1, NatSetInduction
  <1>4. PICK d \in Nat : d = j - i /\ i + d = j OBVIOUS
  <1>5. d \in D BY <1>3
  <1> QED BY <1>4, <1>5

LEMMA PathJoins ==
  ASSUME RunWell, NEW column \in {"vol", "trend"}, NEW k \in 2..Len(TransitionsOf(column))
  PROVE  TransitionsOf(column)[k].from = TransitionsOf(column)[k - 1].to
  <1>1. PICK m \in Nat : \E at \in [1..m -> Moves(column)] : PathAlong(column, m, at) BY PathFacts
  <1>2. PICK at \in [1..m -> Moves(column)] : PathAlong(column, m, at) BY <1>1
  <1>3. PICK n \in Nat : n = Len(rows) BY RunFacts
  <1>4. PICK path : path = TransitionsOf(column) OBVIOUS
  <1>5. path = [l \in 1..m |-> Observed(column, at[l])] BY <1>2, <1>4 DEF PathAlong
  <1>6. Len(path) = m BY <1>5
  <1>7. k \in 1..m /\ k - 1 \in 1..m BY <1>4, <1>6
  <1>8. Moves(column) \subseteq 2..n BY <1>3, MovesFacts
  <1>9. PICK j \in 2..n : j = at[k] BY <1>7, <1>8
  <1>10. PICK i \in 2..n : i = at[k - 1] BY <1>7, <1>8
  <1>11. i < j BY <1>2, <1>7, <1>9, <1>10 DEF PathAlong
  <1>12. ASSUME NEW x \in Moves(column), i < x, x <= j - 1 PROVE FALSE
    <2>1. PICK l \in 1..m : at[l] = x BY <1>2 DEF PathAlong
    <2>2. x \in 2..n BY <1>8
    <2>3. k < l => j < x BY <1>2, <1>7, <1>9, <2>1 DEF PathAlong
    <2>4. l < k - 1 => x < i BY <1>2, <1>7, <1>10, <2>1 DEF PathAlong
    <2>5. l = k \/ l = k - 1 \/ k < l \/ l < k - 1 BY <1>7
    <2> QED BY <1>9, <1>10, <1>12, <2>1, <2>2, <2>3, <2>4, <2>5
  <1>13. i \in 1..n /\ j - 1 \in i..n BY <1>11
  <1>14. \A x \in Moves(column) : ~(i < x /\ x <= j - 1) BY <1>12
  <1>15. rows[j - 1][column] = rows[i][column] BY <1>3, <1>13, <1>14, StaysBetween
  <1>16. path[k].from = rows[j - 1][column] BY <1>5, <1>7, <1>9 DEF Observed
  <1>17. path[k - 1].to = rows[i][column] BY <1>5, <1>7, <1>10 DEF Observed
  <1> QED BY <1>4, <1>15, <1>16, <1>17

(* Up to any row, a regime was left as often as entered, but for the first *)
(* and the last.                                                           *)
LeavesBy(column, r, j) == {i \in Moves(column) : i <= j /\ rows[i - 1][column] = r}
EntersBy(column, r, j) == {i \in Moves(column) : i <= j /\ rows[i][column] = r}

LEMMA RegimesBalance ==
  ASSUME RunWell, NEW column, NEW r, NEW n \in Nat \ {0}, n = Len(rows)
  PROVE  Cardinality(LeavesBy(column, r, n)) + (IF rows[n][column] = r THEN 1 ELSE 0)
           = Cardinality(EntersBy(column, r, n)) + (IF rows[1][column] = r THEN 1 ELSE 0)
  <1> DEFINE L(j) == LeavesBy(column, r, j)
             E(j) == EntersBy(column, r, j)
             D == {d \in Nat : d + 1 <= n =>
                     Cardinality(L(d + 1)) + (IF rows[d + 1][column] = r THEN 1 ELSE 0)
                       = Cardinality(E(d + 1)) + (IF rows[1][column] = r THEN 1 ELSE 0)}
  <1>1. Moves(column) \subseteq 2..n BY MovesFacts
  <1>2. \A j \in 1..n : /\ IsFiniteSet(L(j)) /\ Cardinality(L(j)) \in Nat
                        /\ IsFiniteSet(E(j)) /\ Cardinality(E(j)) \in Nat
    <2> SUFFICES ASSUME NEW j \in 1..n
                 PROVE  /\ IsFiniteSet(L(j)) /\ Cardinality(L(j)) \in Nat
                        /\ IsFiniteSet(E(j)) /\ Cardinality(E(j)) \in Nat
      OBVIOUS
    <2>1. L(j) \subseteq Moves(column) /\ E(j) \subseteq Moves(column) BY DEF LeavesBy, EntersBy
    <2>2. IsFiniteSet(Moves(column)) BY MovesFacts
    <2>3. IsFiniteSet(L(j)) /\ IsFiniteSet(E(j)) BY <2>1, <2>2, FS_Subset
    <2> QED BY <2>3, FS_CardinalityType
  <1>3. 0 \in D
    <2>1. L(1) = {} /\ E(1) = {} BY <1>1 DEF LeavesBy, EntersBy
    <2>2. Cardinality(L(1)) = Cardinality(E(1)) BY <2>1
    <2> QED BY <2>2
  <1>4. ASSUME NEW d \in Nat, d \in D PROVE d + 1 \in D
    <2>1. ASSUME (d + 1) + 1 <= n
          PROVE  Cardinality(L((d + 1) + 1)) + (IF rows[(d + 1) + 1][column] = r THEN 1 ELSE 0)
                   = Cardinality(E((d + 1) + 1)) + (IF rows[1][column] = r THEN 1 ELSE 0)
      <3>1. PICK j \in 1..n : j = d + 1 BY <2>1
      <3>2. PICK x \in 2..n : x = j + 1 /\ x = (d + 1) + 1 /\ x - 1 = j BY <2>1, <3>1
      <3>3. PICK here : here = rows[j][column] /\ here = rows[x - 1][column] BY <3>2
      <3>4. PICK next : next = rows[x][column] OBVIOUS
      <3>5. PICK Lj : Lj = L(j) OBVIOUS
      <3>6. PICK Ej : Ej = E(j) OBVIOUS
      <3>7. IsFiniteSet(Lj) /\ Cardinality(Lj) \in Nat /\ IsFiniteSet(Ej) /\ Cardinality(Ej) \in Nat
        BY <1>2, <3>5, <3>6
      <3>8. Cardinality(Lj) + (IF here = r THEN 1 ELSE 0)
              = Cardinality(Ej) + (IF rows[1][column] = r THEN 1 ELSE 0)
        <4>1. Cardinality(L(d + 1)) + (IF rows[d + 1][column] = r THEN 1 ELSE 0)
                = Cardinality(E(d + 1)) + (IF rows[1][column] = r THEN 1 ELSE 0)
          BY <1>4, <2>1
        <4>2. L(d + 1) = Lj /\ E(d + 1) = Ej BY <3>1, <3>5, <3>6
        <4>3. rows[d + 1][column] = here BY <3>1, <3>3
        <4> HIDE DEF L, E
        <4> QED BY <4>1, <4>2, <4>3
      <3>9. x \in Moves(column) <=> next # here BY <3>3, <3>4, MovesFacts
      <3>10. x \notin Lj /\ x \notin Ej BY <3>2, <3>5, <3>6 DEF LeavesBy, EntersBy
      <3>11. \A i \in Moves(column) : i <= x <=> (i <= j \/ i = x) BY <1>1, <3>2
      <3>12. L(x) = IF x \in Moves(column) /\ here = r THEN Lj \cup {x} ELSE Lj
        BY <3>2, <3>3, <3>5, <3>11 DEF LeavesBy
      <3>13. E(x) = IF x \in Moves(column) /\ next = r THEN Ej \cup {x} ELSE Ej
        BY <3>2, <3>4, <3>6, <3>11 DEF EntersBy
      <3>14. Cardinality(Lj \cup {x}) = Cardinality(Lj) + 1 BY <3>7, <3>10, FS_AddElement
      <3>15. Cardinality(Ej \cup {x}) = Cardinality(Ej) + 1 BY <3>7, <3>10, FS_AddElement
      <3>16. Cardinality(L(x)) = Cardinality(Lj) + (IF next # here /\ here = r THEN 1 ELSE 0)
        BY <3>7, <3>9, <3>12, <3>14
      <3>17. Cardinality(E(x)) = Cardinality(Ej) + (IF next # here /\ next = r THEN 1 ELSE 0)
        BY <3>7, <3>9, <3>13, <3>15
      <3>18. Cardinality(L(x)) + (IF next = r THEN 1 ELSE 0)
               = Cardinality(E(x)) + (IF rows[1][column] = r THEN 1 ELSE 0)
        <4> HIDE DEF L, E
        <4> QED BY <3>7, <3>8, <3>16, <3>17
      <3> QED BY <3>2, <3>4, <3>18
    <2> QED BY <2>1
  <1>5. Nat \subseteq D
    <2>1. \A d \in Nat : d \in D => d + 1 \in D BY <1>4
    <2> HIDE DEF D
    <2> QED BY <1>3, <2>1, NatSetInduction
  <1>6. PICK d \in Nat : d = n - 1 /\ d + 1 = n OBVIOUS
  <1>7. d \in D BY <1>5
  <1> QED BY <1>6, <1>7

(* The regimes a run went through.                                         *)
Seen(column) == {rows[i][column] : i \in DOMAIN rows}

LEMMA SeenFacts ==
  ASSUME RunWell, NEW column
  PROVE  IsFiniteSet(Seen(column)) /\ \A i \in DOMAIN rows : rows[i][column] \in Seen(column)
  <1>1. PICK f : f = [i \in DOMAIN rows |-> rows[i][column]] OBVIOUS
  <1>2. f \in Surjection(DOMAIN rows, Seen(column)) BY <1>1 DEF Surjection, Seen
  <1>3. IsFiniteSet(DOMAIN rows) BY RunFacts
  <1>4. IsFiniteSet(Seen(column)) BY <1>2, <1>3, FS_Surjection
  <1> QED BY <1>4 DEF Seen

LEMMA LeftAndEntered ==
  ASSUME RunWell, NEW column \in {"vol", "trend"}, NEW n \in Nat, n = Len(rows), NEW r
  PROVE  /\ SumFunction([to \in Seen(column) |-> Frequency(column, r, to)])
              = Cardinality(LeavesBy(column, r, n))
         /\ SumFunction([from \in Seen(column) |-> Frequency(column, from, r)])
              = Cardinality(EntersBy(column, r, n))
         /\ Cardinality(LeavesBy(column, r, n)) \in Nat /\ Cardinality(EntersBy(column, r, n)) \in Nat
  <1>1. PICK T : T = Seen(column) OBVIOUS
  <1>2. IsFiniteSet(T) /\ \A i \in 1..n : rows[i][column] \in T BY <1>1, SeenFacts, RunFacts
  <1>3. Moves(column) \in SUBSET (2..n) /\ IsFiniteSet(Moves(column)) BY MovesFacts
  <1>4. PICK L : L = {i \in Moves(column) : rows[i - 1][column] = r} OBVIOUS
  <1>5. PICK E : E = {i \in Moves(column) : rows[i][column] = r} OBVIOUS
  <1>6. L = LeavesBy(column, r, n) /\ E = EntersBy(column, r, n)
    BY <1>3, <1>4, <1>5 DEF LeavesBy, EntersBy
  <1>7. IsFiniteSet(L) /\ IsFiniteSet(E) BY <1>3, <1>4, <1>5, FS_Subset
  <1>8. \A from, to : IsFiniteSet(MovesOf(column, from, to))
    BY <1>3, FS_Subset DEF MovesOf
  <1>9. \A from, to : Frequency(column, from, to) = Cardinality(MovesOf(column, from, to))
    BY FrequencyCounts
  <1>10. \A from, to : Cardinality(MovesOf(column, from, to)) \in Nat BY <1>8, FS_CardinalityType
  <1>11. SumFunction([to \in T |-> Frequency(column, r, to)]) = Cardinality(L)
    <2>1. PICK h : h = [to \in T |-> Frequency(column, r, to)] OBVIOUS
    <2>2. PICK g : g = [i \in L |-> rows[i][column]] OBVIOUS
    <2>3. g \in [L -> T] BY <1>2, <1>3, <1>4, <2>2
    <2>4. h \in Amounts(T) BY <1>9, <1>10, <2>1 DEF Amounts
    <2>5. ASSUME NEW to \in T PROVE h[to] = Cardinality(Fibre(L, g, to))
      <3>1. Fibre(L, g, to) = MovesOf(column, r, to) BY <1>4, <2>2 DEF Fibre, MovesOf
      <3> QED BY <1>9, <2>1, <3>1
    <2>6. SumFunction(h) = Cardinality(L) BY <1>2, <1>7, <2>3, <2>4, <2>5, CountOfGroups
    <2> QED BY <2>1, <2>6
  <1>12. SumFunction([from \in T |-> Frequency(column, from, r)]) = Cardinality(E)
    <2>1. PICK h : h = [from \in T |-> Frequency(column, from, r)] OBVIOUS
    <2>2. PICK g : g = [i \in E |-> rows[i - 1][column]] OBVIOUS
    <2>3. \A i \in E : i - 1 \in 1..n BY <1>3, <1>5
    <2>4. g \in [E -> T] BY <1>2, <2>2, <2>3
    <2>5. h \in Amounts(T) BY <1>9, <1>10, <2>1 DEF Amounts
    <2>6. ASSUME NEW from \in T PROVE h[from] = Cardinality(Fibre(E, g, from))
      <3>1. Fibre(E, g, from) = MovesOf(column, from, r) BY <1>5, <2>2 DEF Fibre, MovesOf
      <3> QED BY <1>9, <2>1, <3>1
    <2>7. SumFunction(h) = Cardinality(E) BY <1>2, <1>7, <2>4, <2>5, <2>6, CountOfGroups
    <2> QED BY <2>1, <2>7
  <1>13. Cardinality(L) \in Nat /\ Cardinality(E) \in Nat BY <1>7, FS_CardinalityType
  <1> QED BY <1>1, <1>6, <1>11, <1>12, <1>13

(* What the regimes earned and how long they lasted.                       *)
LEMMA RegimeTotals ==
  ASSUME RunWell, NEW column, RegimesOf(column) = Seen(column)
  PROVE  /\ SumFunction([r \in Seen(column) |-> ByRegime(column).table[r].contribution])
              = SumFunction([i \in DOMAIN rows |-> rows[i].ret])
         /\ SumFunction([r \in Seen(column) |-> ByRegime(column).table[r].n_bars]) = Len(rows)
  <1>1. PICK T : T = Seen(column) OBVIOUS
  <1>2. PICK n \in Nat : n = Len(rows) /\ DOMAIN rows = 1..n BY RunFacts
  <1>3. PICK S : S = DOMAIN rows OBVIOUS
  <1>4. IsFiniteSet(T) /\ IsFiniteSet(S) BY <1>1, <1>3, SeenFacts, RunFacts
  <1>5. PICK g : g = [i \in S |-> rows[i][column]] OBVIOUS
  <1>6. g \in [S -> T] BY <1>1, <1>3, <1>5, SeenFacts
  <1>7. \A r \in T : Fibre(S, g, r) = RowsOf(column, r) BY <1>3, <1>5 DEF Fibre, RowsOf
  <1>8. \A r \in T : RowsOf(column, r) \in SUBSET S BY <1>3 DEF RowsOf
  <1>9. PICK f : f = [i \in S |-> rows[i].ret] OBVIOUS
  <1>10. f \in Amounts(S) BY <1>3, <1>9, RunFacts DEF Amounts
  <1>11. \A r \in T : [i \in RowsOf(column, r) |-> rows[i].ret] = Restrict(f, RowsOf(column, r))
    BY <1>8, <1>9 DEF Restrict
  <1>12. \A r \in T : /\ ByRegime(column).table[r].contribution = SumFunction(Restrict(f, RowsOf(column, r)))
                      /\ ByRegime(column).table[r].n_bars = Cardinality(RowsOf(column, r))
    BY <1>1, <1>11 DEF ByRegime
  <1>13. SumFunction([r \in T |-> ByRegime(column).table[r].contribution]) = SumFunction(f)
    <2>1. PICK h : h = [r \in T |-> ByRegime(column).table[r].contribution] OBVIOUS
    <2>2. \A r \in T : h[r] = SumFunction(Restrict(f, RowsOf(column, r))) BY <1>12, <2>1
    <2>3. \A r \in T : h[r] \in Int
      <3> SUFFICES ASSUME NEW r \in T PROVE h[r] \in Int
        OBVIOUS
      <3>1. PICK R : R = RowsOf(column, r) OBVIOUS
      <3>2. R \in SUBSET S /\ IsFiniteSet(R) BY <1>4, <1>8, <3>1, FS_Subset
      <3>3. Restrict(f, R) \in Amounts(R) BY <1>4, <1>10, <3>2, SumSplit
      <3>4. SumFunction(Restrict(f, R)) \in Int BY <3>2, <3>3, SumType
      <3> QED BY <2>2, <3>1, <3>4
    <2>4. h \in Amounts(T) BY <2>1, <2>3 DEF Amounts
    <2>5. \A r \in T : h[r] = SumFunction(Restrict(f, Fibre(S, g, r))) BY <1>7, <2>2
    <2>6. SumFunction(h) = SumFunction(f) BY <1>4, <1>6, <1>10, <2>4, <2>5, SumOfGroups
    <2> QED BY <2>1, <2>6
  <1>14. SumFunction([r \in T |-> ByRegime(column).table[r].n_bars]) = n
    <2>1. PICK h : h = [r \in T |-> ByRegime(column).table[r].n_bars] OBVIOUS
    <2>2. \A r \in T : h[r] = Cardinality(RowsOf(column, r)) BY <1>12, <2>1
    <2>3. \A r \in T : h[r] \in Int
      <3> SUFFICES ASSUME NEW r \in T PROVE h[r] \in Int
        OBVIOUS
      <3>1. PICK R : R = RowsOf(column, r) OBVIOUS
      <3>2. R \in SUBSET S /\ IsFiniteSet(R) BY <1>4, <1>8, <3>1, FS_Subset
      <3>3. Cardinality(R) \in Nat BY <3>2, FS_CardinalityType
      <3> QED BY <2>2, <3>1, <3>3
    <2>4. h \in Amounts(T) BY <2>1, <2>3 DEF Amounts
    <2>5. \A r \in T : h[r] = Cardinality(Fibre(S, g, r)) BY <1>7, <2>2
    <2>6. SumFunction(h) = Cardinality(S) BY <1>4, <1>6, <2>4, <2>5, CountOfGroups
    <2>7. Cardinality(S) = n
      <3>1. Cardinality(1..n) = n BY FS_Interval
      <3> QED BY <1>2, <1>3, <3>1
    <2> QED BY <2>1, <2>6, <2>7
  <1> QED BY <1>1, <1>2, <1>3, <1>9, <1>13, <1>14

(* What a pair of regimes earned.                                          *)
LEMMA AlphaFacts ==
  ASSUME RunWell, NEW column \in {"vol", "trend"}, NEW pair \in DOMAIN AnalyzeAlpha(column)
  PROVE  /\ AnalyzeAlpha(column)[pair].count = Frequency(column, pair[1], pair[2])
         /\ \A h \in Horizons : AnalyzeAlpha(column)[pair].avg_ret[h] # NoValue =>
              /\ \A k \in 1..h : AnalyzeAlpha(column)[pair].avg_ret[k] # NoValue
              /\ \E i, j \in Known(h, DOMAIN rows) :
                   ForwardReturn(h, i) <= AnalyzeAlpha(column)[pair].avg_ret[h]
                   /\ AnalyzeAlpha(column)[pair].avg_ret[h] <= ForwardReturn(h, j)
  <1>1. PICK m \in Nat : \E at \in [1..m -> Moves(column)] : PathAlong(column, m, at) BY PathFacts
  <1>2. PICK at \in [1..m -> Moves(column)] : PathAlong(column, m, at) BY <1>1
  <1>3. PICK n \in Nat : n = Len(rows) /\ DOMAIN rows = 1..n BY RunFacts
  <1>4. pair \in PairsOf(column) BY DEF AnalyzeAlpha
  <1>5. PICK path : path = TransitionsOf(column) OBVIOUS
  <1>6. path = [l \in 1..m |-> Observed(column, at[l])] BY <1>2, <1>5 DEF PathAlong
  <1>7. PICK k \in 1..m : pair = <<path[k].from, path[k].to>> BY <1>4, <1>5, <1>6 DEF PairsOf
  <1>8. PICK x \in Moves(column) : x = at[k] BY <1>7
  <1>9. pair = <<rows[x - 1][column], rows[x][column]>> BY <1>6, <1>7, <1>8 DEF Observed
  <1>10. x \in 2..n /\ rows[x][column] # rows[x - 1][column] BY <1>3, <1>8, MovesFacts
  <1>11. PICK a : a = pair[1] OBVIOUS
  <1>12. PICK b : b = pair[2] OBVIOUS
  <1>13. pair = <<a, b>> /\ a # b BY <1>9, <1>10, <1>11, <1>12
  <1>14. PICK S : S = EventRows(column, pair) OBVIOUS
  <1>15. S = MovesOf(column, a, b)
    <2>1. DOMAIN rows \ {1} = 2..n BY <1>3
    <2>2. S = {i \in 2..n : rows[i - 1][column] = a /\ rows[i][column] = b}
      BY <1>11, <1>12, <1>13, <1>14, <2>1 DEF EventRows
    <2>3. \A i \in 2..n : i \in Moves(column) <=> rows[i][column] # rows[i - 1][column]
      BY <1>3, MovesFacts
    <2>4. Moves(column) \subseteq 2..n BY <1>3, MovesFacts
    <2> QED BY <1>13, <2>2, <2>3, <2>4 DEF MovesOf
  <1>16. S \in SUBSET DOMAIN rows BY <1>14 DEF EventRows
  <1>17. /\ AnalyzeAlpha(column)[pair].count = Cardinality(S)
         /\ AnalyzeAlpha(column)[pair].avg_ret = [h \in Horizons |-> Average(h, Known(h, S))]
    BY <1>14 DEF AnalyzeAlpha
  <1>18. AnalyzeAlpha(column)[pair].count = Frequency(column, a, b)
    BY <1>15, <1>17, FrequencyCounts
  <1>19. PICK avg : avg = AnalyzeAlpha(column)[pair].avg_ret OBVIOUS
  <1>20. avg = [h \in Horizons |-> Average(h, Known(h, S))] BY <1>17, <1>19
  <1>21. ASSUME NEW h \in Horizons, avg[h] # NoValue
         PROVE  /\ \A l \in 1..h : avg[l] # NoValue
                /\ \E i, j \in Known(h, DOMAIN rows) :
                     ForwardReturn(h, i) <= avg[h] /\ avg[h] <= ForwardReturn(h, j)
    <2>1. h \in Nat /\ h \in 1..3 BY DEF Horizons
    <2>2. avg[h] = Average(h, Known(h, S)) BY <1>20
    <2>3. \A l \in 0..h : Average(l, Known(l, S)) # NoValue
      BY <1>16, <1>21, <2>1, <2>2, AverageFacts
    <2>4. \E i, j \in Known(h, DOMAIN rows) :
            ForwardReturn(h, i) <= avg[h] /\ avg[h] <= ForwardReturn(h, j)
      BY <1>16, <1>21, <2>1, <2>2, AverageFacts
    <2>5. \A l \in 1..h : l \in Horizons /\ l \in 0..h BY <2>1 DEF Horizons
    <2>6. \A l \in 1..h : avg[l] # NoValue BY <1>20, <2>3, <2>5
    <2> QED BY <2>4, <2>6
  <1> QED BY <1>11, <1>12, <1>18, <1>19, <1>21

(* The performance by regime is given unless no regime came twice.         *)
LEMMA RegimesRaise ==
  ASSUME RunWell, NEW column
  PROVE  ByRegime(column).raised
           <=> \A i, j \in DOMAIN rows : rows[i][column] = rows[j][column] => i = j
  <1>1. IsFiniteSet(DOMAIN rows) BY RunFacts
  <1>2. \A r : RowsOf(column, r) \subseteq DOMAIN rows BY DEF RowsOf
  <1>3. \A r : IsFiniteSet(RowsOf(column, r)) BY <1>1, <1>2, FS_Subset
  <1>4. \A r : Cardinality(RowsOf(column, r)) \in Nat BY <1>3, FS_CardinalityType
  <1>5. ASSUME NEW r \in RegimesOf(column)
        PROVE  \E i, j \in DOMAIN rows : rows[i][column] = rows[j][column] /\ i # j
    <2>1. PICK i \in DOMAIN rows : r = rows[i][column] BY <1>5 DEF RegimesOf
    <2>2. PICK R : R = RowsOf(column, r) OBVIOUS
    <2>3. Cardinality(R) >= 2 BY <1>5, <2>2 DEF RegimesOf
    <2>4. R # {i}
      <3>1. Cardinality({i}) = 1 BY FS_Singleton
      <3> QED BY <2>3, <3>1
    <2>5. i \in R BY <2>1, <2>2 DEF RowsOf
    <2>6. PICK j \in R : j # i BY <2>4, <2>5
    <2>7. j \in DOMAIN rows /\ rows[j][column] = r BY <2>2, <2>6 DEF RowsOf
    <2> QED BY <2>1, <2>6, <2>7
  <1>6. ASSUME NEW i \in DOMAIN rows, NEW j \in DOMAIN rows,
               rows[i][column] = rows[j][column], i # j
        PROVE  RegimesOf(column) # {}
    <2>1. PICK r : r = rows[i][column] OBVIOUS
    <2>2. PICK R : R = RowsOf(column, r) OBVIOUS
    <2>3. i \in R /\ j \in R BY <1>6, <2>1, <2>2 DEF RowsOf
    <2>4. IsFiniteSet(R) /\ Cardinality(R) \in Nat BY <1>3, <1>4, <2>2
    <2>5. Cardinality(R) # 0 BY <2>3, <2>4, FS_EmptySet
    <2>6. Cardinality(R) # 1
      <3> SUFFICES ASSUME Cardinality(R) = 1 PROVE FALSE
        OBVIOUS
      <3>1. \E x : R = {x} BY <2>4, FS_Singleton
      <3> QED BY <1>6, <2>3, <3>1
    <2>7. Cardinality(RowsOf(column, r)) >= 2 BY <2>2, <2>4, <2>5, <2>6
    <2>8. r \in RegimesOf(column) BY <2>1, <2>7 DEF RegimesOf
    <2> QED BY <2>8
  <1>7. ByRegime(column).raised <=> RegimesOf(column) = {} BY DEF ByRegime
  <1> QED BY <1>5, <1>6, <1>7

LEMMA RegimeFacts == ASSUME RunWell PROVE RegimesAddUp
  <1> SUFFICES ASSUME rows # <<>>, NEW column \in {"vol", "trend"}
      PROVE  LET path == TransitionsOf(column)
                 first == rows[1][column]  last == Last(rows)[column]
                 all == {rows[i][column] : i \in DOMAIN rows}
                 Left(r) == SumFunction([to \in all |-> Frequency(column, r, to)])
                 Entered(r) == SumFunction([from \in all |-> Frequency(column, from, r)])
             IN  /\ \A k \in 2..Len(path) : path[k].from = path[k - 1].to
                 /\ \A r \in all : Left(r) - Entered(r) = (IF r = first THEN 1 ELSE 0)
                                                          - (IF r = last THEN 1 ELSE 0)
                 /\ ByRegime(column).raised
                      <=> \A i, j \in DOMAIN rows : rows[i][column] = rows[j][column] => i = j
                 /\ RegimesOf(column) = all =>
                      /\ SumFunction([r \in all |-> ByRegime(column).table[r].contribution])
                           = SumFunction([i \in DOMAIN rows |-> rows[i].ret])
                      /\ SumFunction([r \in all |-> ByRegime(column).table[r].n_bars]) = Len(rows)
                 /\ \A pair \in DOMAIN AnalyzeAlpha(column) :
                      LET alpha == AnalyzeAlpha(column)[pair]
                      IN  /\ alpha.count = Frequency(column, pair[1], pair[2])
                          /\ \A h \in Horizons : alpha.avg_ret[h] # NoValue =>
                               /\ \A k \in 1..h : alpha.avg_ret[k] # NoValue
                               /\ \E i, j \in Known(h, DOMAIN rows) :
                                    ForwardReturn(h, i) <= alpha.avg_ret[h]
                                    /\ alpha.avg_ret[h] <= ForwardReturn(h, j)
    BY Zenon DEF RegimesAddUp
  <1> DEFINE all == {rows[i][column] : i \in DOMAIN rows}
             Left(r) == SumFunction([to \in all |-> Frequency(column, r, to)])
             Entered(r) == SumFunction([from \in all |-> Frequency(column, from, r)])
  <1>1. all = Seen(column) BY DEF Seen
  <1>2. PICK n \in Nat \ {0} : n = Len(rows) /\ Last(rows) = rows[n]
    <2>1. Len(rows) # 0 BY EmptySeq DEF RunWell
    <2> QED BY <2>1, RunFacts DEF Last
  <1>3. \A k \in 2..Len(TransitionsOf(column)) :
          TransitionsOf(column)[k].from = TransitionsOf(column)[k - 1].to
    BY PathJoins
  <1>4. ASSUME NEW r \in all
        PROVE  Left(r) - Entered(r) = (IF r = rows[1][column] THEN 1 ELSE 0)
                                      - (IF r = Last(rows)[column] THEN 1 ELSE 0)
    <2>1. n \in Nat OBVIOUS
    <2>2. Left(r) = Cardinality(LeavesBy(column, r, n)) BY <1>1, <1>2, <2>1, LeftAndEntered
    <2>3. Entered(r) = Cardinality(EntersBy(column, r, n)) BY <1>1, <1>2, <2>1, LeftAndEntered
    <2>4. Cardinality(LeavesBy(column, r, n)) \in Nat /\ Cardinality(EntersBy(column, r, n)) \in Nat
      BY <1>2, <2>1, LeftAndEntered
    <2>5. PICK x \in Nat : x = Cardinality(LeavesBy(column, r, n)) /\ Left(r) = x
      BY <2>2, <2>4
    <2>6. PICK y \in Nat : y = Cardinality(EntersBy(column, r, n)) /\ Entered(r) = y
      BY <2>3, <2>4
    <2>7. x + (IF rows[n][column] = r THEN 1 ELSE 0) = y + (IF rows[1][column] = r THEN 1 ELSE 0)
      BY <1>2, <2>5, <2>6, RegimesBalance
    <2> HIDE DEF Left, Entered
    <2> QED BY <1>2, <2>5, <2>6, <2>7
  <1>5. ASSUME RegimesOf(column) = all
        PROVE  /\ SumFunction([r \in all |-> ByRegime(column).table[r].contribution])
                    = SumFunction([i \in DOMAIN rows |-> rows[i].ret])
               /\ SumFunction([r \in all |-> ByRegime(column).table[r].n_bars]) = Len(rows)
    BY <1>1, <1>5, RegimeTotals
  <1>6. \A pair \in DOMAIN AnalyzeAlpha(column) :
          LET alpha == AnalyzeAlpha(column)[pair]
          IN  /\ alpha.count = Frequency(column, pair[1], pair[2])
              /\ \A h \in Horizons : alpha.avg_ret[h] # NoValue =>
                   /\ \A k \in 1..h : alpha.avg_ret[k] # NoValue
                   /\ \E i, j \in Known(h, DOMAIN rows) :
                        ForwardReturn(h, i) <= alpha.avg_ret[h]
                        /\ alpha.avg_ret[h] <= ForwardReturn(h, j)
    BY AlphaFacts
  <1>7. ByRegime(column).raised
          <=> \A i, j \in DOMAIN rows : rows[i][column] = rows[j][column] => i = j
    BY RegimesRaise
  <1> QED BY <1>3, <1>4, <1>5, <1>6, <1>7, Zenon


----------------------------------------------------------------------------
(* The tail of the losses.                                                 *)

(* A percentile of ordered numbers is no less than the first of them.      *)
LEMMA PercentileFacts ==
  ASSUME NEW w \in Nat \ {0}, NEW s \in [1..w -> Int], \A k, l \in 1..w : k < l => s[k] <= s[l]
  PROVE  Percentile(20, s) \in Int /\ s[1] <= Percentile(20, s)
  <1>1. Len(s) = w BY DEF Len
  <1>2. PICK at \in Nat : at = 20 * (w - 1) OBVIOUS
  <1>3. PICK low \in Nat : low = at \div 100 + 1 BY <1>2
  <1>4. PICK rest \in Nat : rest = at % 100 BY <1>2
  <1>5. low \in 1..w BY <1>2, <1>3
  <1>6. rest # 0 => low + 1 \in 1..w BY <1>2, <1>3, <1>4
  <1>7. PICK x \in Int : x = s[low] BY <1>5
  <1>8. s[1] <= x /\ s[1] \in Int
    <2>1. 1 \in 1..w OBVIOUS
    <2>2. low = 1 \/ 1 < low BY <1>5
    <2>3. s[1] \in Int BY <2>1
    <2> QED BY <1>5, <1>7, <2>1, <2>2, <2>3
  <1>9. PICK more : more = IF rest = 0 THEN 0 ELSE (rest * (s[low + 1] - s[low])) \div 100 OBVIOUS
  <1>10. more \in Int /\ more >= 0
    <2>1. CASE rest = 0 BY <1>9, <2>1
    <2>2. CASE rest # 0
      <3>1. PICK y \in Int : y = s[low + 1] BY <1>6, <2>2
      <3>2. x <= y BY <1>5, <1>6, <1>7, <2>2, <3>1
      <3>3. PICK d \in Nat : d = y - x BY <3>2
      <3>4. PICK z \in Nat : z = rest * d BY NatTimes
      <3>5. z \div 100 \in Int /\ z \div 100 >= 0 BY <3>4
      <3>6. more = z \div 100 BY <1>7, <1>9, <2>2, <3>1, <3>3, <3>4
      <3> QED BY <3>5, <3>6
    <2> QED BY <2>1, <2>2
  <1>11. Percentile(20, s) = x + more BY <1>1, <1>2, <1>3, <1>4, <1>7, <1>9 DEF Percentile
  <1> QED BY <1>7, <1>8, <1>10, <1>11

(* The losses of a run are its returns, in order.                          *)
LEMMA LossesFacts ==
  ASSUME RunWell, NEW horizon \in 1..2, NEW w \in Nat, w = Len(rows) - horizon + 1
  PROVE  /\ RunLosses(horizon) \in [1..w -> Int]
         /\ \A k, l \in 1..w : k < l => RunLosses(horizon)[k] <= RunLosses(horizon)[l]
  <1>1. PICK n \in Nat : n = Len(rows) /\ DOMAIN rows = 1..n BY RunFacts
  <1>2. PICK R : R = Rolling(horizon) OBVIOUS
  <1>3. R = [i \in 1..w |-> 100 * SumFunction([j \in i..i + horizon - 1 |-> rows[j].ret])]
    BY <1>2 DEF Rolling
  <1>4. ASSUME NEW i \in 1..w
        PROVE  SumFunction([j \in i..i + horizon - 1 |-> rows[j].ret]) \in Int
    <2>1. PICK S : S = i..i + horizon - 1 OBVIOUS
    <2>2. IsFiniteSet(S) BY <2>1, FS_Interval
    <2>3. S \subseteq 1..n BY <1>1, <2>1
    <2>4. [j \in S |-> rows[j].ret] \in Amounts(S) BY <1>1, <2>3, RunFacts DEF Amounts
    <2>5. SumFunction([j \in S |-> rows[j].ret]) \in Int BY <2>2, <2>4, SumType
    <2> QED BY <2>1, <2>5
  <1>5. R \in [1..w -> Int]
    <2>1. ASSUME NEW i \in 1..w PROVE R[i] \in Int
      <3>1. PICK x \in Int : x = SumFunction([j \in i..i + horizon - 1 |-> rows[j].ret]) BY <1>4
      <3>2. R[i] = 100 * x BY <1>3, <3>1
      <3> QED BY <3>2
    <2> QED BY <1>3, <2>1
  <1>6. \A k \in 1..w : Ordered(R, k) \in 1..w BY <1>5, OrderedFacts
  <1>7. \A k, l \in 1..w : k < l => R[Ordered(R, k)] <= R[Ordered(R, l)] BY <1>5, OrderedFacts
  <1>8. RunLosses(horizon) = [k \in 1..w |-> R[Ordered(R, k)]] BY <1>2, <1>5 DEF RunLosses
  <1> QED BY <1>5, <1>6, <1>7, <1>8

LEMMA TailFacts == ASSUME RunWell PROVE TailIsOrdered
  <1> SUFFICES ASSUME NEW horizon \in 1..2
      PROVE  /\ ExpectedShortfall(horizon) <= HistoricalVar(horizon)
             /\ Enough(horizon) \/ ExpectedShortfall(horizon) # 0 =>
                  RunLosses(horizon)[1] <= ExpectedShortfall(horizon)
    BY DEF TailIsOrdered
  <1>1. PICK n \in Nat : n = Len(rows) BY RunFacts
  <1>2. MinReturns \in Nat \ {0} BY DiagnosisAssumption
  <1>3. CASE n < MinReturns
    <2>1. ~Enough(horizon) BY <1>1, <1>2, <1>3 DEF Enough
    <2>2. HistoricalVar(horizon) = 0 BY <2>1 DEF HistoricalVar
    <2>3. ExpectedShortfall(horizon) = 0 BY <1>1, <1>3 DEF ExpectedShortfall
    <2> QED BY <2>1, <2>2, <2>3
  <1>4. CASE ~(n < MinReturns)
    <2>1. PICK w \in Nat : w = n - horizon + 1 BY <1>2, <1>4
    <2>2. PICK s : s = RunLosses(horizon) OBVIOUS
    <2>3. w = Len(rows) - horizon + 1 BY <1>1, <2>1
    <2>4. s \in [1..w -> Int] BY <2>2, <2>3, LossesFacts
    <2>5. \A k, l \in 1..w : k < l => s[k] <= s[l] BY <2>2, <2>3, LossesFacts
    <2>6. Enough(horizon) => w # 0 BY <1>2, <2>3 DEF Enough
    <2>7. PICK v : v = HistoricalVar(horizon) OBVIOUS
    <2>8. Enough(horizon) => v \in Int /\ s[1] <= v
      <3> SUFFICES ASSUME Enough(horizon) PROVE v \in Int /\ s[1] <= v
        OBVIOUS
      <3>1. v = Percentile(20, s) BY <2>2, <2>7 DEF HistoricalVar
      <3>2. w \in Nat \ {0} BY <2>6
      <3> QED BY <2>4, <2>5, <3>1, <3>2, PercentileFacts
    <2>9. ~Enough(horizon) => v = 0 BY <2>7 DEF HistoricalVar
    <2>10. v \in Int BY <2>8, <2>9
    <2>11. PICK tail : tail = {k \in DOMAIN s : s[k] <= v} OBVIOUS
    <2>12. tail \subseteq 1..w BY <2>4, <2>11
    <2>13. ExpectedShortfall(horizon) = IF tail = {} THEN v ELSE MeanOf(Select(s, tail))
      BY <1>1, <1>4, <2>2, <2>7, <2>11 DEF ExpectedShortfall
    <2>14. CASE tail = {}
      <3>1. ~Enough(horizon)
        <4> SUFFICES ASSUME Enough(horizon) PROVE FALSE
          OBVIOUS
        <4>1. 1 \in DOMAIN s BY <2>4, <2>6
        <4> QED BY <2>8, <2>11, <2>14, <4>1
      <3> QED BY <2>7, <2>9, <2>13, <2>14, <3>1
    <2>15. CASE tail # {}
      <3>1. w \in Nat \ {0}
        <4>1. PICK k \in 1..w : k \in tail BY <2>12, <2>15
        <4> QED BY <4>1
      <3>2. IsFiniteSet(tail)
        <4>1. IsFiniteSet(1..w) BY FS_Interval
        <4> QED BY <2>12, <4>1, FS_Subset
      <3>3. tail \in SUBSET Nat BY <2>12
      <3>4. PICK m \in Nat : m = Cardinality(tail) BY <3>2, FS_CardinalityType
      <3>5. m # 0 BY <2>15, <3>2, <3>4, FS_EmptySet
      <3>6. PICK f : f = Select(s, tail) OBVIOUS
      <3>7. f = [k \in 1..m |-> s[Nth(tail, k)]] BY <3>2, <3>3, <3>4, <3>6, SelectFacts
      <3>8. \A k \in 1..m : Nth(tail, k) \in tail BY <3>2, <3>3, <3>4, SelectFacts
      <3>9. \A k \in tail : s[k] \in Int /\ s[k] <= v /\ s[1] <= s[k]
        <4> SUFFICES ASSUME NEW k \in tail PROVE s[k] \in Int /\ s[k] <= v /\ s[1] <= s[k]
          OBVIOUS
        <4>1. k \in 1..w /\ s[k] <= v BY <2>11, <2>12
        <4>2. 1 \in 1..w BY <3>1
        <4>3. s[k] \in Int /\ s[1] \in Int BY <2>4, <4>1, <4>2
        <4>4. k = 1 \/ 1 < k BY <4>1
        <4> QED BY <2>5, <4>1, <4>2, <4>3, <4>4
      <3>10. \A k \in 1..m : f[k] \in Int /\ f[k] <= v /\ s[1] <= f[k] BY <3>7, <3>8, <3>9
      <3>11. f \in Amounts(1..m) BY <3>7, <3>10 DEF Amounts
      <3>12. IsFiniteSet(1..m) /\ 1..m # {}
        <4>1. IsFiniteSet(1..m) BY FS_Interval
        <4>2. 1 \in 1..m BY <3>5
        <4> QED BY <4>1, <4>2
      <3>13. PICK a \in Int : a = MeanOf(f) /\ \E x, y \in 1..m : f[x] <= a /\ a <= f[y]
        BY <3>11, <3>12, MeanIsBetween
      <3>14. PICK x \in 1..m, y \in 1..m : f[x] <= a /\ a <= f[y] BY <3>13
      <3>15. s[1] \in Int BY <2>4, <3>1
      <3>16. a <= v /\ s[1] <= a BY <2>10, <3>10, <3>14, <3>15
      <3> QED BY <2>2, <2>7, <2>13, <2>15, <3>6, <3>13, <3>16
    <2> QED BY <2>14, <2>15
  <1> QED BY <1>3, <1>4


----------------------------------------------------------------------------
(* The score: what the penalties leave of it.                              *)

LEMMA PenaltySums ==
  /\ SumFunction(<<>>) = 0
  /\ \A x \in Int : SumFunction(<<x>>) = x
  /\ \A x, y \in Int : SumFunction(<<x>> \o <<y>>) = x + y
  <1>1. SumFunction(<<>>) = 0
    <2>1. PICK f : f = <<>> OBVIOUS
    <2>2. f \in Amounts({}) BY <2>1 DEF Amounts
    <2> QED BY <2>1, <2>2, SumEmpty
  <1>2. ASSUME NEW x \in Int PROVE SumFunction(<<x>>) = x
    <2>1. PICK f : f = <<x>> OBVIOUS
    <2>2. f \in Amounts(1..1) BY <2>1 DEF Amounts
    <2>3. \A i \in 1..1 : f[i] = x BY <2>1
    <2>4. SumFunction(f) = 1 * x BY <2>2, <2>3, SumConstant
    <2> QED BY <2>1, <2>4
  <1>3. ASSUME NEW x \in Int, NEW y \in Int PROVE SumFunction(<<x>> \o <<y>>) = x + y
    <2>1. PICK s : s = <<x>> OBVIOUS
    <2>2. PICK t : t = <<y>> OBVIOUS
    <2>3. s \in Seq(Int) /\ Len(s) = 1 /\ s[1] = x BY <2>1
    <2>4. t \in Seq(Int) /\ Len(t) = 1 /\ t[1] = y BY <2>2
    <2>5. PICK f : f = s \o t OBVIOUS
    <2>6. f \in Seq(Int) BY <2>3, <2>4, <2>5, ConcatProperties
    <2>7. Len(f) = Len(s) + Len(t) BY <2>3, <2>4, <2>5, ConcatProperties
    <2>8. f \in Seq(Int) /\ Len(f) = 2 BY <2>3, <2>4, <2>6, <2>7
    <2>9. \A i \in 1..Len(s) + Len(t) : f[i] = IF i <= Len(s) THEN s[i] ELSE t[i - Len(s)]
      BY <2>3, <2>4, <2>5, ConcatProperties
    <2>10. f[1] = x /\ f[2] = y BY <2>3, <2>4, <2>9
    <2>11. f \in [1..2 -> Int] /\ s \in [1..1 -> Int] /\ t \in [1..1 -> Int]
      BY <2>3, <2>4, <2>8, LenProperties
    <2>12. PICK m \in Nat : m = 1 /\ m + m = 2 OBVIOUS
    <2>13. f \in Amounts(1..(m + m)) /\ s \in Amounts(1..m) /\ t \in Amounts(1..m)
      BY <2>11, <2>12 DEF Amounts
    <2>14. \A i \in 1..m : f[i] = s[i] BY <2>3, <2>10, <2>12
    <2>15. \A i \in 1..m : f[m + i] = t[i] BY <2>4, <2>10, <2>12
    <2>16. SumFunction(f) = SumFunction(s) + SumFunction(t) BY <2>13, <2>14, <2>15, SumConcat
    <2>17. SumFunction(s) = x /\ SumFunction(t) = y BY <1>2, <2>1, <2>2
    <2> QED BY <2>1, <2>2, <2>5, <2>16, <2>17
  <1> QED BY <1>1, <1>2, <1>3

LEMMA TwoPenalties ==
  ASSUME NEW A, NEW p \in A, NEW q \in A, NEW s \in {<<>>, <<p>>}, NEW t \in {<<>>, <<q>>}
  PROVE  s \o t \in Seq(A) /\ (s \o t = <<>> <=> (s = <<>> /\ t = <<>>))
  <1>1. <<>> \in Seq(A) /\ <<p>> \in Seq(A) /\ <<q>> \in Seq(A) OBVIOUS
  <1>2. s \in Seq(A) /\ t \in Seq(A) BY <1>1
  <1>3. s \o t \in Seq(A) /\ Len(s \o t) = Len(s) + Len(t) BY <1>2, ConcatProperties
  <1>4. \A u \in Seq(A) : Len(u) \in Nat /\ (Len(u) = 0 <=> u = <<>>) BY EmptySeq, LenProperties
  <1> QED BY <1>2, <1>3, <1>4

LEMMA JoinEmpty ==
  ASSUME NEW A, NEW s \in Seq(A), NEW t \in Seq(A), s \o t = <<>>
  PROVE  s = <<>> /\ t = <<>>
  <1>1. Len(s \o t) = Len(s) + Len(t) BY ConcatProperties
  <1>2. Len(s) \in Nat /\ Len(t) \in Nat BY LenProperties
  <1>3. Len(<<>>) = 0 OBVIOUS
  <1>4. Len(s) = 0 /\ Len(t) = 0 BY <1>1, <1>2, <1>3
  <1> QED BY <1>4, EmptySeq

LEMMA ScoreOfNone == Score(<<>>) = 100
  <1>1. SumFunction(<<>>) = 0 BY PenaltySums
  <1>2. Positive(100) = 100 BY SizeIs
  <1>3. 100 - 0 = 100 OBVIOUS
  <1> QED BY <1>1, <1>2, <1>3 DEF Score

(* Penalties take from a score no more than their bounds.                  *)
LEMMA ScoreBetween ==
  ASSUME NEW a \in Nat, NEW b \in Nat, a + b <= 100, NEW p, NEW q,
         NEW s \in {<<>>, <<p>>}, NEW t \in {<<>>, <<q>>},
         s # <<>> => p \in 0..a, t # <<>> => q \in 0..b
  PROVE  Score(s \o t) \in (100 - a - b)..100
  <1>1. Score(<<>>) = 100 BY ScoreOfNone
  <1>2. ASSUME NEW x \in Int, 0 <= x, x <= a + b, SumFunction(s \o t) = x
        PROVE  Score(s \o t) \in (100 - a - b)..100
    <2>1. PICK y \in Int : y = 100 - x OBVIOUS
    <2>2. y >= 0 /\ y <= 100 /\ y >= 100 - a - b BY <1>2, <2>1
    <2>3. Positive(y) = y BY <2>2, SizeIs
    <2>4. Score(s \o t) = y BY <1>2, <2>1, <2>3 DEF Score
    <2> QED BY <2>2, <2>4
  <1>3. CASE s = <<>> /\ t = <<>>
    <2>1. s \o t = <<>> BY <1>3
    <2>2. SumFunction(s \o t) = 0 BY <2>1, PenaltySums
    <2> QED BY <1>1, <1>2, <2>2
  <1>4. CASE s # <<>> /\ t = <<>>
    <2>1. p \in 0..a /\ s = <<p>> BY <1>4
    <2>2. s \o t = <<p>> BY <1>4, <2>1
    <2>3. p \in Int BY <2>1
    <2>4. SumFunction(<<p>>) = p BY <2>3, PenaltySums
    <2>5. SumFunction(s \o t) = p BY <2>2, <2>4
    <2> QED BY <1>1, <1>2, <2>1, <2>5
  <1>5. CASE s = <<>> /\ t # <<>>
    <2>1. q \in 0..b /\ t = <<q>> BY <1>5
    <2>2. s \o t = <<q>> BY <1>5, <2>1
    <2>3. q \in Int BY <2>1
    <2>4. SumFunction(<<q>>) = q BY <2>3, PenaltySums
    <2>5. SumFunction(s \o t) = q BY <2>2, <2>4
    <2> QED BY <1>1, <1>2, <2>1, <2>5
  <1>6. CASE s # <<>> /\ t # <<>>
    <2>1. p \in 0..a /\ s = <<p>> /\ q \in 0..b /\ t = <<q>> BY <1>6
    <2>2. p \in Int /\ q \in Int /\ p + q \in Int /\ 0 <= p + q /\ p + q <= a + b BY <2>1
    <2>3. s \o t = <<p>> \o <<q>> BY <2>1
    <2>4. SumFunction(<<p>> \o <<q>>) = p + q BY <2>2, PenaltySums
    <2>5. SumFunction(s \o t) = p + q BY <2>3, <2>4
    <2> QED BY <1>1, <1>2, <2>5, <2>2
  <1> QED BY <1>1, <1>3, <1>4, <1>5, <1>6

LEMMA ShareFacts ==
  ASSUME NEW T, IsFiniteSet(T), T # {}, NEW S \in SUBSET T
  PROVE  Share(S, T) \in Int /\ (S = {} => Share(S, T) = 0)
  <1>1. IsFiniteSet(S) BY FS_Subset
  <1>2. PICK n \in Nat : n = Cardinality(T) BY FS_CardinalityType
  <1>3. PICK m \in Nat : m = Cardinality(S) BY <1>1, FS_CardinalityType
  <1>4. n # 0 BY <1>2, FS_EmptySet
  <1>5. S = {} => m = 0 BY <1>1, <1>3, FS_EmptySet
  <1>6. Share(S, T) = (100 * m) \div n BY <1>2, <1>3 DEF Share
  <1>7. (100 * m) \div n \in Int BY <1>4, DivFloor
  <1>8. 0 \div n = 0 BY <1>4
  <1> QED BY <1>5, <1>6, <1>7, <1>8

(* The penalties, each as it is given.                                     *)
Given(p, q, u, l1, l2, b1, b2, e1, e2, c1, c2) ==
  /\ l1 \in {<<>>, <<p>>} /\ l2 \in {<<>>, <<15>>}
  /\ b1 \in {<<>>, <<q>>} /\ b2 \in {<<>>, <<20>>}
  /\ e1 \in {<<>>, <<20>>} /\ e2 \in {<<>>, <<10>>}
  /\ c1 \in {<<>>, <<u>>} /\ c2 \in {<<>>, <<15>>}
  /\ LeveragePenalties = l1 \o l2 /\ BudgetPenalties = b1 \o b2
  /\ ExposurePenalties = e1 \o e2 /\ ConcentrationPenalties = c1 \o c2
  /\ l1 = <<>> <=> ~(LeverageStats.max_gross > MaxLeverage)
  /\ l2 = <<>> <=> ~(LeverageStats.pct_leveraged > 50)
  /\ b1 = <<>> <=> ~(RiskBudgetStats.pct_over_budget > 10)
  /\ b2 = <<>> <=> ~(RiskBudgetStats.max_utilisation > 200)
  /\ c1 # <<>> => u \in 0..30

LEMMA PenaltiesGiven ==
  ASSUME RunWell, Defined # {}
  PROVE  \E p, q, u, l1, l2, b1, b2, e1, e2, c1, c2 :
           Given(p, q, u, l1, l2, b1, b2, e1, e2, c1, c2)
  <1>1. PICK p : p = Min({40, (100 * (LeverageStats.max_gross - MaxLeverage)) \div MaxLeverage})
    OBVIOUS
  <1>2. PICK q : q = Min({30, RiskBudgetStats.pct_over_budget}) OBVIOUS
  <1>3. PICK hhi : hhi = MeanOf([i \in DOMAIN rows |-> IF i \in Defined THEN Hhi(i) ELSE 0])
    OBVIOUS
  <1>4. PICK u : u = Min({30, (hhi - 5000) \div 100}) OBVIOUS
  <1>5. hhi \in Int
    <2>1. PICK f : f = [i \in DOMAIN rows |-> IF i \in Defined THEN Hhi(i) ELSE 0] OBVIOUS
    <2>2. \A i \in Defined : Hhi(i) \in Int BY HhiFacts
    <2>3. f \in Amounts(DOMAIN rows) BY <2>1, <2>2 DEF Amounts
    <2>4. IsFiniteSet(DOMAIN rows) /\ DOMAIN rows # {} BY RunFacts DEF Defined
    <2> QED BY <1>3, <2>1, <2>3, <2>4, MeanIsBetween
  <1>6. hhi > 5000 => u \in 0..30
    <2>1. PICK x \in Int : x = (hhi - 5000) \div 100 BY <1>5
    <2>2. hhi > 5000 => x >= 0 BY <1>5, <2>1
    <2>3. u = IF 30 <= x THEN 30 ELSE x BY <1>4, <2>1, LesserOfTwo
    <2> QED BY <2>1, <2>2, <2>3
  <1>7. PICK l1 : l1 = Penalised(LeverageStats.max_gross > MaxLeverage, p) OBVIOUS
  <1>8. PICK l2 : l2 = Penalised(LeverageStats.pct_leveraged > 50, 15) OBVIOUS
  <1>9. PICK b1 : b1 = Penalised(RiskBudgetStats.pct_over_budget > 10, q) OBVIOUS
  <1>10. PICK b2 : b2 = Penalised(RiskBudgetStats.max_utilisation > 200, 20) OBVIOUS
  <1>11. PICK e1 : e1 = Penalised(ExposureStats.max_gross > 200, 20) OBVIOUS
  <1>12. PICK e2 : e2 = Penalised(ExposureStats.pct_fully_invested < 30, 10) OBVIOUS
  <1>13. PICK c1 : c1 = Penalised(hhi > 5000, u) OBVIOUS
  <1>14. PICK c2 : c2 = Penalised(Max({MaxWeight(i) : i \in Defined}) > 50, 15) OBVIOUS
  <1>15. LeveragePenalties = l1 \o l2 BY <1>1, <1>7, <1>8, Zenon DEF LeveragePenalties
  <1>16. BudgetPenalties = b1 \o b2 BY <1>2, <1>9, <1>10, Zenon DEF BudgetPenalties
  <1>17. ExposurePenalties = e1 \o e2 BY <1>11, <1>12, Zenon DEF ExposurePenalties
  <1>18. ConcentrationPenalties = c1 \o c2
    <2>1. ConcentrationPenalties
            = Penalised(MeanOf([i \in DOMAIN rows |-> IF i \in Defined THEN Hhi(i) ELSE 0]) > 5000,
                        Min({30, (MeanOf([i \in DOMAIN rows |-> IF i \in Defined THEN Hhi(i) ELSE 0])
                                    - 5000) \div 100}))
              \o Penalised(Max({MaxWeight(i) : i \in Defined}) > 50, 15)
      BY Zenon DEF ConcentrationPenalties
    <2>2. c1 = Penalised(MeanOf([i \in DOMAIN rows |-> IF i \in Defined THEN Hhi(i) ELSE 0]) > 5000,
                         Min({30, (MeanOf([i \in DOMAIN rows |-> IF i \in Defined THEN Hhi(i) ELSE 0])
                                     - 5000) \div 100}))
      BY <1>3, <1>4, <1>13
    <2> QED BY <1>14, <2>1, <2>2
  <1>19. l1 \in {<<>>, <<p>>} /\ (l1 = <<>> <=> ~(LeverageStats.max_gross > MaxLeverage))
    BY <1>7 DEF Penalised
  <1>20. l2 \in {<<>>, <<15>>} /\ (l2 = <<>> <=> ~(LeverageStats.pct_leveraged > 50))
    BY <1>8 DEF Penalised
  <1>21. b1 \in {<<>>, <<q>>} /\ (b1 = <<>> <=> ~(RiskBudgetStats.pct_over_budget > 10))
    BY <1>9 DEF Penalised
  <1>22. b2 \in {<<>>, <<20>>} /\ (b2 = <<>> <=> ~(RiskBudgetStats.max_utilisation > 200))
    BY <1>10 DEF Penalised
  <1>23. e1 \in {<<>>, <<20>>} /\ e2 \in {<<>>, <<10>>} BY <1>11, <1>12 DEF Penalised
  <1>24. c1 \in {<<>>, <<u>>} /\ (c1 # <<>> => hhi > 5000) BY <1>13 DEF Penalised
  <1>25. c2 \in {<<>>, <<15>>} BY <1>14 DEF Penalised
  <1>26. Given(p, q, u, l1, l2, b1, b2, e1, e2, c1, c2)
    BY <1>6, <1>15, <1>16, <1>17, <1>18, <1>19, <1>20, <1>21, <1>22, <1>23, <1>24, <1>25
       DEF Given
  <1> QED BY <1>26

(* No violation, no penalty.                                               *)
LEMMA NoViolations ==
  ASSUME RunWell, Defined # {}, ~(Validation.violations > 0)
  PROVE  /\ LeveragePenalties = <<>> /\ BudgetPenalties = <<>>
         /\ ExposurePenalties = <<>> /\ ConcentrationPenalties = <<>>
  <1>1. PICK p, q, u, l1, l2, b1, b2, e1, e2, c1, c2 :
          Given(p, q, u, l1, l2, b1, b2, e1, e2, c1, c2)
    BY PenaltiesGiven
  <1>2. PICK A : A = {p, 15, q, 20, 10, u} OBVIOUS
  <1>3. p \in A /\ q \in A /\ u \in A /\ 15 \in A /\ 20 \in A /\ 10 \in A BY <1>2
  <1>4. PICK L : L = LeveragePenalties OBVIOUS
  <1>5. PICK B : B = BudgetPenalties OBVIOUS
  <1>6. PICK E : E = ExposurePenalties OBVIOUS
  <1>7. PICK C : C = ConcentrationPenalties OBVIOUS
  <1>8. L = l1 \o l2 /\ B = b1 \o b2 /\ E = e1 \o e2 /\ C = c1 \o c2
    BY <1>1, <1>4, <1>5, <1>6, <1>7 DEF Given
  <1>9. L \in Seq(A)
    <2>1. l1 \in {<<>>, <<p>>} /\ l2 \in {<<>>, <<15>>} BY <1>1 DEF Given
    <2> QED BY <1>3, <1>8, <2>1, TwoPenalties
  <1>10. B \in Seq(A)
    <2>1. b1 \in {<<>>, <<q>>} /\ b2 \in {<<>>, <<20>>} BY <1>1 DEF Given
    <2> QED BY <1>3, <1>8, <2>1, TwoPenalties
  <1>11. E \in Seq(A)
    <2>1. e1 \in {<<>>, <<20>>} /\ e2 \in {<<>>, <<10>>} BY <1>1 DEF Given
    <2> QED BY <1>3, <1>8, <2>1, TwoPenalties
  <1>12. C \in Seq(A)
    <2>1. c1 \in {<<>>, <<u>>} /\ c2 \in {<<>>, <<15>>} BY <1>1 DEF Given
    <2> QED BY <1>3, <1>8, <2>1, TwoPenalties
  <1>13. PICK X : X = L \o B OBVIOUS
  <1>14. PICK Y : Y = X \o E OBVIOUS
  <1>15. PICK Z : Z = Y \o C OBVIOUS
  <1>16. X \in Seq(A) BY <1>9, <1>10, <1>13, ConcatProperties
  <1>17. Y \in Seq(A) BY <1>11, <1>14, <1>16, ConcatProperties
  <1>18. Z \in Seq(A) BY <1>12, <1>15, <1>17, ConcatProperties
  <1>19. Validation.violations = Len(Z)
    BY <1>4, <1>5, <1>6, <1>7, <1>13, <1>14, <1>15 DEF Validation
  <1>20. Len(Z) \in Nat BY <1>18, LenProperties
  <1>21. Len(Z) = 0 BY <1>19, <1>20
  <1>22. Z = <<>> BY <1>18, <1>21, EmptySeq
  <1>23. Y = <<>> /\ C = <<>> BY <1>12, <1>15, <1>17, <1>22, JoinEmpty
  <1>24. X = <<>> /\ E = <<>> BY <1>11, <1>14, <1>16, <1>23, JoinEmpty
  <1>25. L = <<>> /\ B = <<>> BY <1>9, <1>10, <1>13, <1>24, JoinEmpty
  <1> QED BY <1>4, <1>5, <1>6, <1>7, <1>23, <1>24, <1>25

(* What the run was within keeps its marks.                                *)
LEMMA WithinLimits ==
  ASSUME RunWell, Defined # {},
         \A i \in Defined : /\ GrossLeverage(i) <= Min({100, MaxLeverage})
                            /\ rows[i].realised_vol <= TargetVol
  PROVE  LeveragePenalties = <<>> /\ BudgetPenalties = <<>>
  <1>1. PICK p, q, u, l1, l2, b1, b2, e1, e2, c1, c2 :
          Given(p, q, u, l1, l2, b1, b2, e1, e2, c1, c2)
    BY PenaltiesGiven
  <1>2. IsFiniteSet(Defined) BY EquityFacts
  <1>3. PICK maximum \in Nat \ {0} : maximum = MaxLeverage BY DiagnosisAssumption
  <1>4. PICK target \in Nat \ {0} : target = TargetVol BY DiagnosisAssumption
  <1>5. Min({100, MaxLeverage}) = IF 100 <= maximum THEN 100 ELSE maximum BY <1>3, LesserOfTwo
  <1>6. \A i \in Defined : GrossLeverage(i) \in Nat BY LeverageFacts
  <1>7. \A i \in Defined : GrossLeverage(i) <= 100 /\ GrossLeverage(i) <= maximum
    BY <1>3, <1>5, <1>6
  <1>8. \A i \in Defined : Utilisation(i) \in Int /\ Utilisation(i) <= 100
    <2> SUFFICES ASSUME NEW i \in Defined PROVE Utilisation(i) \in Int /\ Utilisation(i) <= 100
      OBVIOUS
    <2>1. PICK g \in Nat : g = GrossLeverage(i) /\ g <= 100 BY <1>6, <1>7
    <2>2. PICK v \in Nat : v = rows[i].realised_vol /\ v <= target BY <1>4, EquityFacts, RunFacts
    <2>3. PICK z \in Nat : z = g * v BY NatTimes
    <2>4. z <= 100 * target BY <1>4, <2>1, <2>2, <2>3, NatTimesOrdered
    <2>5. PICK x \in Int : x = z \div target BY <2>3, DivFloor
    <2>6. target * x <= z BY <2>3, <2>5, DivFloor
    <2>7. ASSUME x >= 101 PROVE FALSE
      <3>1. target * 101 <= target * x BY <2>7, TimesOrdered
      <3>2. target * x \in Int OBVIOUS
      <3> QED BY <2>4, <2>6, <3>1, <3>2
    <2>8. Utilisation(i) = x BY <1>4, <2>1, <2>2, <2>3, <2>5 DEF Utilisation
    <2> QED BY <2>7, <2>8
  <1>9. ~(LeverageStats.max_gross > MaxLeverage)
    <2>1. PICK f : f = [i \in Defined |-> GrossLeverage(i)] OBVIOUS
    <2>2. f \in [Defined -> Int] BY <1>6, <2>1
    <2>3. Max({f[i] : i \in Defined}) \in {f[i] : i \in Defined} BY <1>2, <2>2, ValuesExtremes
    <2>4. {f[i] : i \in Defined} = {GrossLeverage(i) : i \in Defined} BY <2>1
    <2>5. PICK i \in Defined : LeverageStats.max_gross = GrossLeverage(i)
      BY <2>3, <2>4 DEF LeverageStats
    <2> QED BY <1>3, <1>6, <1>7, <2>5
  <1>10. ~(LeverageStats.pct_leveraged > 50)
    <2>1. {i \in Defined : GrossLeverage(i) > 100} = {} BY <1>6, <1>7
    <2>2. Share({}, Defined) = 0 BY <1>2, ShareFacts
    <2>3. LeverageStats.pct_leveraged = 0 BY <2>1, <2>2 DEF LeverageStats
    <2> QED BY <2>3
  <1>11. ~(RiskBudgetStats.pct_over_budget > 10)
    <2>1. {i \in Defined : Utilisation(i) > 100} = {} BY <1>8
    <2>2. Share({}, Defined) = 0 BY <1>2, ShareFacts
    <2>3. RiskBudgetStats.pct_over_budget = 0 BY <2>1, <2>2 DEF RiskBudgetStats
    <2> QED BY <2>3
  <1>12. ~(RiskBudgetStats.max_utilisation > 200)
    <2>1. PICK f : f = [i \in Defined |-> Utilisation(i)] OBVIOUS
    <2>2. f \in [Defined -> Int] BY <1>8, <2>1
    <2>3. Max({f[i] : i \in Defined}) \in {f[i] : i \in Defined} BY <1>2, <2>2, ValuesExtremes
    <2>4. {f[i] : i \in Defined} = {Utilisation(i) : i \in Defined} BY <2>1
    <2>5. PICK i \in Defined : RiskBudgetStats.max_utilisation = Utilisation(i)
      BY <2>3, <2>4 DEF RiskBudgetStats
    <2> QED BY <1>8, <2>5
  <1>13. l1 = <<>> /\ l2 = <<>> /\ b1 = <<>> /\ b2 = <<>>
    BY <1>1, <1>9, <1>10, <1>11, <1>12 DEF Given
  <1>14. LeveragePenalties = l1 \o l2 /\ BudgetPenalties = b1 \o b2 BY <1>1 DEF Given
  <1>15. <<>> \o <<>> = <<>> OBVIOUS
  <1> QED BY <1>13, <1>14, <1>15

LEMMA RegimeScoreIs ==
  ASSUME RunWell, Defined # {}, BudgetPenalties = <<>> PROVE RegimeScore = 90
  <1>1. PICK p, q, u, l1, l2, b1, b2, e1, e2, c1, c2 :
          Given(p, q, u, l1, l2, b1, b2, e1, e2, c1, c2)
    BY PenaltiesGiven
  <1>2. BudgetPenalties = b1 \o b2 /\ b1 \in {<<>>, <<q>>} /\ b2 \in {<<>>, <<20>>}
    BY <1>1 DEF Given
  <1>3. PICK A : A = {q, 20} OBVIOUS
  <1>4. q \in A /\ 20 \in A BY <1>3
  <1>5. b1 = <<>> BY <1>2, <1>4, TwoPenalties
  <1>6. ~(RiskBudgetStats.pct_over_budget > 10) BY <1>1, <1>5 DEF Given
  <1>7. RiskBudgetStats.pct_over_budget \in Int
    <2>1. IsFiniteSet(Defined) BY EquityFacts
    <2>2. {i \in Defined : Utilisation(i) > 100} \in SUBSET Defined OBVIOUS
    <2>3. Share({i \in Defined : Utilisation(i) > 100}, Defined) \in Int BY <2>1, <2>2, ShareFacts
    <2> QED BY <2>3 DEF RiskBudgetStats
  <1>8. ~(RiskBudgetStats.pct_over_budget > 20) BY <1>6, <1>7
  <1> QED BY <1>8 DEF RegimeScore

LEMMA ScoreFacts == ASSUME RunWell PROVE ScoreHasReasons
  <1> SUFFICES ASSUME Defined # {}
      PROVE  /\ Validation.overall < 98 => Validation.violations > 0
             /\ (\A i \in Defined : /\ GrossLeverage(i) <= Min({100, MaxLeverage})
                                    /\ rows[i].realised_vol <= TargetVol) =>
                  /\ LeveragePenalties = <<>> /\ BudgetPenalties = <<>> /\ RegimeScore = 90
                  /\ Validation.overall >= 85
    BY DEF ScoreHasReasons
  <1>1. PICK p, q, u, l1, l2, b1, b2, e1, e2, c1, c2 :
          Given(p, q, u, l1, l2, b1, b2, e1, e2, c1, c2)
    BY PenaltiesGiven
  <1>2. Score(<<>>) = 100 BY ScoreOfNone
  <1>3. PICK x \in 70..100 : x = Score(ExposurePenalties)
    <2>1. ExposurePenalties = e1 \o e2 /\ e1 \in {<<>>, <<20>>} /\ e2 \in {<<>>, <<10>>}
      BY <1>1 DEF Given
    <2>2. PICK a \in Nat : a = 20 OBVIOUS
    <2>3. PICK b \in Nat : b = 10 OBVIOUS
    <2>4. a + b <= 100 /\ a \in 0..a /\ b \in 0..b /\ 100 - a - b = 70 BY <2>2, <2>3
    <2>5. e1 \in {<<>>, <<a>>} /\ e2 \in {<<>>, <<b>>} BY <2>1, <2>2, <2>3
    <2>6. Score(e1 \o e2) \in (100 - a - b)..100 BY <2>4, <2>5, ScoreBetween
    <2> QED BY <2>1, <2>4, <2>6
  <1>4. PICK y \in 55..100 : y = Score(ConcentrationPenalties)
    <2>1. /\ ConcentrationPenalties = c1 \o c2 /\ c1 \in {<<>>, <<u>>} /\ c2 \in {<<>>, <<15>>}
          /\ c1 # <<>> => u \in 0..30
      BY <1>1 DEF Given
    <2>2. PICK a \in Nat : a = 30 OBVIOUS
    <2>3. PICK b \in Nat : b = 15 OBVIOUS
    <2>4. a + b <= 100 /\ b \in 0..b /\ 100 - a - b = 55 BY <2>2, <2>3
    <2>5. c1 \in {<<>>, <<u>>} /\ c2 \in {<<>>, <<b>>} /\ (c1 # <<>> => u \in 0..a)
      BY <2>1, <2>2, <2>3
    <2>6. Score(c1 \o c2) \in (100 - a - b)..100 BY <2>4, <2>5, ScoreBetween
    <2> QED BY <2>1, <2>4, <2>6
  <1>5. ASSUME ~(Validation.violations > 0) PROVE ~(Validation.overall < 98)
    <2>1. /\ LeveragePenalties = <<>> /\ BudgetPenalties = <<>>
          /\ ExposurePenalties = <<>> /\ ConcentrationPenalties = <<>>
      BY <1>5, NoViolations
    <2>2. RegimeScore = 90 BY <2>1, RegimeScoreIs
    <2>3. Validation.overall = (100 + 100 + 100 + 100 + 100 + 90) \div 6
      BY <1>2, <2>1, <2>2 DEF Validation
    <2> QED BY <2>3
  <1>6. ASSUME \A i \in Defined : /\ GrossLeverage(i) <= Min({100, MaxLeverage})
                                  /\ rows[i].realised_vol <= TargetVol
        PROVE  /\ LeveragePenalties = <<>> /\ BudgetPenalties = <<>> /\ RegimeScore = 90
               /\ Validation.overall >= 85
    <2>1. LeveragePenalties = <<>> /\ BudgetPenalties = <<>> BY <1>6, WithinLimits
    <2>2. RegimeScore = 90 BY <2>1, RegimeScoreIs
    <2>3. Validation.overall = (100 + 100 + x + y + 100 + 90) \div 6
      BY <1>2, <1>3, <1>4, <2>1, <2>2 DEF Validation
    <2>4. (100 + 100 + x + y + 100 + 90) \div 6 >= 85 OBVIOUS
    <2> QED BY <2>1, <2>2, <2>3, <2>4
  <1> QED BY <1>5, <1>6

(* A run keeps rows it can have.                                           *)
LEMMA RunStays ==
  /\ DiagnosisInit => RunWell
  /\ RunWell /\ [NewRow]_rows => RunWell'
  <1>1. DiagnosisInit => RunWell BY DEF DiagnosisInit, RunWell
  <1>2. ASSUME RunWell, [NewRow]_rows PROVE RunWell'
    <2>1. CASE NewRow
      <3>1. PICK row \in RunBars : rows' = Append(rows, row) BY <2>1 DEF NewRow
      <3> QED BY <1>2, <3>1, AppendProperties DEF RunWell
    <2>2. CASE UNCHANGED rows BY <1>2, <2>2 DEF RunWell
    <2> QED BY <1>2, <2>1, <2>2
  <1> QED BY <1>1, <1>2

(* Whatever rows a run has, what the analysers say of it agrees: the       *)
(* exposures with the leverage, the drawdown events with the curve, the    *)
(* regimes with the run, the tail of the losses with its quantile, and the *)
(* score with its violations (DiagnosisSound).                             *)
THEOREM DiagnosisCorrect == DiagnosisSpec => []DiagnosisSound
  <1>1. DiagnosisInit => RunWell BY RunStays
  <1>2. RunWell /\ [NewRow]_rows => RunWell' BY RunStays
  <1>3. RunWell => DiagnosisSound
    BY PositionFacts, DrawdownsFacts, RegimeFacts, TailFacts, ScoreFacts DEF DiagnosisSound
  <1> QED BY <1>1, <1>2, <1>3, PTL DEF DiagnosisSpec
=============================================================================

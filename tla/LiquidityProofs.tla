-------------------------- MODULE LiquidityProofs --------------------------
(***************************************************************************)
(* Proofs about the liquidity engine, for every set of prices, every       *)
(* distance, every age limit and every number of rows.                     *)
(***************************************************************************)
EXTENDS Liquidity, SequenceTheorems, TLAPS

\* What the engine knows of the last labelled swing of a side: it is no older
\* than the side's pools, and lies before the row to come.
PrevIsLast ==
  /\ \A s \in Side : prev[s] # None => prev[s].row < row
  /\ \A i \in DOMAIN pools :
       prev[pools[i].side] # None /\ pools[i].created <= prev[pools[i].side].row

IInv == TypeOK /\ EndsInTime /\ BreakReachesInner /\ PrevIsLast /\ PoolsFormChain

-----------------------------------------------------------------------------
(* One pool over one row.                                                  *)

LEMMA OutsideFacts ==
  ASSUME NEW s \in Side, NEW a \in Int, NEW b \in Int
  PROVE  /\ Outside(s, a, b) \in Int
         /\ Outside(s, a, b) = -Outside(s, b, a)
         /\ \A x \in Int : Outside(s, a, b) = Outside(s, a, x) + Outside(s, x, b)
BY DEF Side, Outside, Beyond

LEMMA CandleFacts ==
  ASSUME NEW c \in Candle
  PROVE  /\ \A s \in Side : c[s] \in Prices
         /\ c.close # None => c.close \in Prices
BY DEF Candle, Side

\* An active pool is left alone, or ends on this row; it breaks exactly when the
\* close is beyond it, a sweep never hiding a break.
LEMMA JudgedFacts ==
  ASSUME NEW p \in Pool, NEW c \in Candle, row \in Nat
  PROVE  LET q == Judged(p, c) IN
         /\ q \in Pool
         /\ <<q.side, q.level, q.first, q.created>> = <<p.side, p.level, p.first, p.created>>
         /\ q # p => IsActive(p) /\ q.status \in {"swept", "broken"} /\ q.ended = row
         /\ IsActive(p) => (q.status = "broken" <=> c.close # None /\ Breaks(p, c))
<1>1. Ended(p, "swept") \in Pool /\ Ended(p, "broken") \in Pool
  BY DEF Ended, Pool, Statuses
<1>2. c.close # None => c.close \in Int
  BY CandleFacts, PriceAssumption
<1>3. c.close # None /\ Breaks(p, c) => ~Sweeps(p, c)
  <2>1. p.side \in Side /\ p.level \in Int
    BY DEF Pool
  <2> QED
    BY <1>2, <2>1, OutsideFacts, DistanceAssumption DEF Breaks, Sweeps
<1> QED
  BY <1>1, <1>3 DEF Judged, Ended, Pool, IsActive

LEMMA AgedFacts ==
  ASSUME NEW p \in Pool, row \in Nat
  PROVE  LET q == Aged(p) IN
         /\ q \in Pool
         /\ <<q.side, q.level, q.first, q.created>> = <<p.side, p.level, p.first, p.created>>
         /\ q # p => /\ IsActive(p) /\ q.status = "expired" /\ q.ended = row
                     /\ MaxAge # None /\ row - p.created >= MaxAge
         /\ IsActive(q) /\ MaxAge # None => row - p.created < MaxAge
<1>1. Ended(p, "expired") \in Pool
  BY DEF Ended, Pool, Statuses
<1>2. MaxAge # None => MaxAge \in Nat
  BY AgeAssumption
<1>3. p.created \in Nat
  BY DEF Pool
<1> QED
  BY <1>1, <1>2, <1>3 DEF Aged, Ended, Pool, IsActive

\* The two together.
LEMMA FateFacts ==
  ASSUME NEW p \in Pool, NEW c \in Candle, row \in Nat
  PROVE  LET q == Aged(Judged(p, c)) IN
         /\ q \in Pool
         /\ <<q.side, q.level, q.first, q.created>> = <<p.side, p.level, p.first, p.created>>
         /\ ~IsActive(p) => q = p
         /\ IsActive(p) => (q.status = "broken" <=> c.close # None /\ Breaks(p, c))
         /\ IsActive(p) /\ ~IsActive(q) => q.ended = row
         /\ IsActive(p) /\ q.status = "expired" => MaxAge # None /\ row - p.created >= MaxAge
         /\ IsActive(q) => q = p /\ (MaxAge # None => row - p.created < MaxAge)
<1> DEFINE m == Judged(p, c)
           q == Aged(m)
<1>1. /\ m \in Pool
      /\ <<m.side, m.level, m.first, m.created>> = <<p.side, p.level, p.first, p.created>>
      /\ m # p => IsActive(p) /\ m.status \in {"swept", "broken"} /\ m.ended = row
      /\ IsActive(p) => (m.status = "broken" <=> c.close # None /\ Breaks(p, c))
  BY JudgedFacts
<1>2. /\ q \in Pool
      /\ <<q.side, q.level, q.first, q.created>> = <<m.side, m.level, m.first, m.created>>
      /\ q # m => /\ IsActive(m) /\ q.status = "expired" /\ q.ended = row
                  /\ MaxAge # None /\ row - m.created >= MaxAge
      /\ IsActive(q) /\ MaxAge # None => row - m.created < MaxAge
  BY <1>1, AgedFacts
<1> HIDE DEF m, q
<1>3. ~IsActive(p) => q = p
  BY <1>1, <1>2 DEF IsActive
<1>4. IsActive(p) => (q.status = "broken" <=> c.close # None /\ Breaks(p, c))
  BY <1>1, <1>2 DEF IsActive
<1>5. IsActive(p) /\ ~IsActive(q) => q.ended = row
  BY <1>1, <1>2 DEF IsActive
<1>6. /\ IsActive(p) /\ q.status = "expired" => MaxAge # None /\ row - p.created >= MaxAge
      /\ IsActive(q) => q = p /\ (MaxAge # None => row - p.created < MaxAge)
  BY <1>1, <1>2 DEF IsActive
<1> QED
  BY <1>1, <1>2, <1>3, <1>4, <1>5, <1>6 DEF m, q

-----------------------------------------------------------------------------
(* One row over the whole registry.                                        *)

\* Every pool is judged and aged, and at most one is added.
Kept(c) ==
  \A i \in DOMAIN pools : i \in DOMAIN pools' /\ pools'[i] = Aged(Judged(pools[i], c))
Shut == DOMAIN pools' = DOMAIN pools /\ mark' = mark
Opened(s, c) ==
  /\ LevelWithPrevious(s, c[s])
  /\ DOMAIN pools' = DOMAIN pools \cup {Len(pools) + 1}
  /\ pools'[Len(pools) + 1] = NewPool(s, c[s])
  /\ mark' = Marked(s)

LEMMA SurveyFacts ==
  ASSUME TypeOK, NEW c \in Candle
  PROVE  /\ Survey(c) \in Seq(Pool)
         /\ Len(Survey(c)) = Len(pools)
<1>1. pools \in Seq(Pool) /\ row \in Nat
  BY DEF TypeOK
<1>2. DOMAIN pools = 1..Len(pools) /\ Len(pools) \in Nat
  BY <1>1
<1>3. \A i \in 1..Len(pools) : Aged(Judged(pools[i], c)) \in Pool
  BY <1>1, <1>2, FateFacts
<1>4. Survey(c) \in [1..Len(pools) -> Pool]
  BY <1>2, <1>3 DEF Survey
<1> QED
  BY <1>2, <1>4, SeqDef, LenProperties

LEMMA NewPoolFacts ==
  ASSUME TypeOK, NEW c \in Candle, NEW s \in Side, prev[s] # None
  PROVE  /\ NewPool(s, c[s]) \in Pool
         /\ NewPool(s, c[s]).side = s
         /\ NewPool(s, c[s]).first = prev[s].row
         /\ NewPool(s, c[s]).created = row
         /\ NewPool(s, c[s]).status = "active"
         /\ NewPool(s, c[s]).ended = None
<1>1. prev[s] \in [row: Nat, price: Prices] /\ row \in Nat
  BY DEF TypeOK
<1>2. c[s] \in Int /\ prev[s].price \in Int
  BY <1>1, CandleFacts, PriceAssumption
<1>3. (prev[s].price + c[s]) \div 2 \in Int
  BY <1>2
<1> QED
  BY <1>1, <1>3 DEF NewPool, Pool, Statuses

LEMMA RowFacts ==
  ASSUME TypeOK, Next
  PROVE  /\ row' = row + 1 /\ row \in Nat /\ row \in Rows
         /\ pools' \in Seq(Pool)
         /\ \E c \in Candle :
              /\ Kept(c)
              /\ \/ Shut /\ prev' = prev
                 \/ \E s \in Side : prev' = NextPrev(s, c[s]) /\ (Shut \/ Opened(s, c))
<1>1. row' = row + 1 /\ row \in Nat /\ row \in Rows
  BY RowsAssumption DEF Next, TypeOK, Rows
<1>2. PICK c \in Candle : PlainRow(c) \/ \E s \in Side : SwingRow(s, c)
  BY DEF Next
<1>3. pools \in Seq(Pool) /\ DOMAIN pools = 1..Len(pools) /\ Len(pools) \in Nat
  BY DEF TypeOK
<1>4. /\ Survey(c) \in Seq(Pool) /\ Len(Survey(c)) = Len(pools)
      /\ DOMAIN Survey(c) = DOMAIN pools
      /\ \A i \in DOMAIN pools : Survey(c)[i] = Aged(Judged(pools[i], c))
  BY <1>3, SurveyFacts DEF Survey
<1>5. CASE PlainRow(c)
  BY <1>1, <1>4, <1>5 DEF PlainRow, Kept, Shut
<1>6. ASSUME NEW s \in Side, SwingRow(s, c)
      PROVE  /\ pools' \in Seq(Pool) /\ Kept(c)
             /\ prev' = NextPrev(s, c[s]) /\ (Shut \/ Opened(s, c))
  <2>1. CASE ~LevelWithPrevious(s, c[s])
    BY <1>4, <1>6, <2>1 DEF SwingRow, Kept, Shut
  <2>2. CASE LevelWithPrevious(s, c[s])
    <3> DEFINE n == NewPool(s, c[s])
    <3>1. n \in Pool
      BY <2>2, NewPoolFacts DEF LevelWithPrevious
    <3>2. pools' = Append(Survey(c), n) /\ mark' = Marked(s) /\ prev' = NextPrev(s, c[s])
      BY <1>6, <2>2 DEF SwingRow
    <3> HIDE DEF n
    <3>3. /\ pools' \in Seq(Pool)
          /\ Len(pools') = Len(pools) + 1
          /\ pools'[Len(pools) + 1] = n
          /\ \A i \in 1..Len(pools) : pools'[i] = Survey(c)[i]
      BY <1>3, <1>4, <3>1, <3>2, AppendProperties
    <3>4. DOMAIN pools' = 1..(Len(pools) + 1)
      BY <3>3
    <3>5. DOMAIN pools' = DOMAIN pools \cup {Len(pools) + 1}
      BY <1>3, <3>4
    <3> QED
      BY <1>3, <1>4, <2>2, <3>2, <3>3, <3>5 DEF Kept, Opened, n
  <2> QED
    BY <2>1, <2>2
<1> QED
  BY <1>1, <1>2, <1>5, <1>6

\* Each pool after the row is an earlier one over the row's candle or new.
LEMMA PoolsAfter ==
  ASSUME TypeOK, NEW c \in Candle, NEW s \in Side, Kept(c), Shut \/ Opened(s, c),
         NEW i \in DOMAIN pools', i \notin DOMAIN pools
  PROVE  /\ Opened(s, c) /\ i = Len(pools) + 1
         /\ prev[s] \in [row: Nat, price: Prices]
         /\ pools'[i].side = s /\ pools'[i].first = prev[s].row
         /\ pools'[i].created = row
         /\ pools'[i].status = "active" /\ pools'[i].ended = None
<1>1. Opened(s, c) /\ i = Len(pools) + 1
  BY DEF Shut, Opened
<1>2. prev[s] # None /\ prev[s] \in [row: Nat, price: Prices]
  BY <1>1 DEF Opened, LevelWithPrevious, TypeOK
<1> QED
  BY <1>1, <1>2, NewPoolFacts DEF Opened

LEMMA TypeStep ==
  ASSUME TypeOK, Next
  PROVE  TypeOK'
<1>1. PICK c \in Candle :
        \/ Shut /\ prev' = prev
        \/ \E s \in Side : prev' = NextPrev(s, c[s]) /\ (Shut \/ Opened(s, c))
  BY RowFacts
<1>2. \A s \in Side : NextPrev(s, c[s]) \in [Side -> [row: Nat, price: Prices] \cup {None}]
  BY CandleFacts DEF NextPrev, TypeOK
<1>3. prev' \in [Side -> [row: Nat, price: Prices] \cup {None}]
  BY <1>1, <1>2 DEF TypeOK
<1>4. Len(pools) \in Nat /\ Len(pools) + 1 \in Nat
  BY DEF TypeOK
<1>5. ASSUME NEW s \in Side PROVE Marked(s) \in [Side -> [Rows -> Nat]]
  BY <1>4 DEF Marked, TypeOK
<1>6. mark' \in [Side -> [Rows -> Nat]]
  BY <1>1, <1>5 DEF Shut, Opened, TypeOK
<1> QED
  BY <1>3, <1>6, RowFacts DEF TypeOK

LEMMA EndsStep ==
  ASSUME TypeOK, EndsInTime, Next
  PROVE  EndsInTime'
<1>1. PICK c \in Candle :
        /\ Kept(c)
        /\ \/ Shut /\ prev' = prev
           \/ \E s \in Side : prev' = NextPrev(s, c[s]) /\ (Shut \/ Opened(s, c))
  BY RowFacts
<1>2. row' = row + 1 /\ row \in Nat
  BY RowFacts
<1>3. MaxAge # None => MaxAge \in Nat /\ MaxAge > 0
  BY AgeAssumption
<1> DEFINE Timely(p, r) ==
      /\ p.created < r
      /\ IF IsActive(p)
         THEN p.ended = None /\ (MaxAge # None => r - 1 - p.created < MaxAge)
         ELSE /\ p.ended # None /\ p.created < p.ended /\ p.ended < r
              /\ MaxAge # None => p.ended - p.created <= MaxAge
              /\ p.status = "expired" => MaxAge # None /\ p.ended = p.created + MaxAge
<1>4. ASSUME NEW i \in DOMAIN pools' PROVE Timely(pools'[i], row + 1)
  <2>1. CASE i \in DOMAIN pools
    <3> DEFINE p == pools[i]
               q == pools'[i]
    <3>1. p \in Pool /\ q = Aged(Judged(p, c))
      BY <1>1, <2>1 DEF Kept, TypeOK
    <3>2. Timely(p, row)
      BY <2>1 DEF EndsInTime
    <3>3. /\ q \in Pool /\ q.created = p.created
          /\ ~IsActive(p) => q = p
          /\ IsActive(p) /\ ~IsActive(q) => q.ended = row
          /\ IsActive(p) /\ q.status = "expired" => MaxAge # None /\ row - p.created >= MaxAge
          /\ IsActive(q) => q = p /\ (MaxAge # None => row - p.created < MaxAge)
      BY <1>2, <3>1, FateFacts
    <3>4. p.created \in Nat /\ p.ended \in Nat \cup {None} /\ None \notin Nat
      BY <3>1, NoneAssumption DEF Pool
    <3> SUFFICES Timely(q, row + 1)
      OBVIOUS
    <3> HIDE DEF p, q
    <3>5. CASE ~IsActive(p)
      BY <1>2, <3>2, <3>3, <3>4, <3>5
    <3>6. CASE IsActive(q)
      BY <1>2, <3>2, <3>3, <3>4, <3>6
    <3>7. CASE IsActive(p) /\ ~IsActive(q)
      <4>1. q.ended = row /\ q.ended # None /\ p.created < row
        BY <1>2, <3>2, <3>3, <3>4, <3>7
      <4>2. MaxAge # None => row - 1 - p.created < MaxAge
        BY <3>2, <3>7
      <4>3. MaxAge # None => row - p.created <= MaxAge
        BY <1>2, <1>3, <3>4, <4>2
      <4>4. q.status = "expired" => MaxAge # None /\ row = p.created + MaxAge
        BY <1>2, <1>3, <3>3, <3>4, <3>7, <4>3
      <4> QED
        BY <1>2, <3>3, <3>4, <3>7, <4>1, <4>3, <4>4
    <3> QED
      BY <3>5, <3>6, <3>7
  <2>2. CASE i \notin DOMAIN pools
    <3>1. /\ pools'[i].created = row
          /\ pools'[i].status = "active" /\ pools'[i].ended = None
      BY <1>1, <2>2, PoolsAfter DEF Shut
    <3> QED
      BY <1>2, <1>3, <3>1 DEF IsActive
  <2> QED
    BY <2>1, <2>2
<1> QED
  BY <1>2, <1>4 DEF EndsInTime, IsActive

\* What a row does to a pool it keeps, in terms of the registry.
LEMMA KeptFacts ==
  ASSUME TypeOK, NEW c \in Candle, Kept(c), NEW i \in DOMAIN pools
  PROVE  /\ pools[i] \in Pool /\ i \in DOMAIN pools' /\ pools'[i] \in Pool
         /\ pools'[i].side = pools[i].side /\ pools'[i].level = pools[i].level
         /\ pools'[i].first = pools[i].first /\ pools'[i].created = pools[i].created
         /\ ~IsActive(pools[i]) => pools'[i] = pools[i]
         /\ IsActive(pools[i]) => (pools'[i].status = "broken" <=> c.close # None /\ Breaks(pools[i], c))
         /\ IsActive(pools[i]) /\ ~IsActive(pools'[i]) => pools'[i].ended = row
         /\ IsActive(pools'[i]) => pools'[i] = pools[i]
<1>1. pools[i] \in Pool /\ row \in Nat
  BY DEF TypeOK
<1>2. i \in DOMAIN pools' /\ pools'[i] = Aged(Judged(pools[i], c))
  BY DEF Kept
<1> QED
  BY <1>1, <1>2, FateFacts

LEMMA BreakStep ==
  ASSUME TypeOK, EndsInTime, BreakReachesInner, Next
  PROVE  BreakReachesInner'
<1>1. PICK c \in Candle :
        /\ Kept(c)
        /\ \/ Shut /\ prev' = prev
           \/ \E s \in Side : prev' = NextPrev(s, c[s]) /\ (Shut \/ Opened(s, c))
  BY RowFacts
<1> SUFFICES ASSUME NEW i \in DOMAIN pools', NEW j \in DOMAIN pools',
                    pools'[i].status = "broken", pools'[j].side = pools'[i].side,
                    pools'[j].created < pools'[i].ended,
                    Outside(pools'[i].side, pools'[i].level, pools'[j].level) >= 0
             PROVE  /\ ~IsActive(pools'[j]) /\ pools'[j].ended <= pools'[i].ended
                    /\ pools'[j].ended = pools'[i].ended => pools'[j].status = "broken"
  BY DEF BreakReachesInner, IsActive
<1> DEFINE p == pools[i]
           q == pools[j]
<1>2. row \in Nat
  BY RowFacts
<1>3. i \in DOMAIN pools
  BY <1>1, PoolsAfter DEF Shut
<1>4. /\ p \in Pool /\ pools'[i].ended \in Nat \cup {None}
      /\ p.side = pools'[i].side /\ p.level = pools'[i].level
      /\ ~IsActive(p) => pools'[i] = p
      /\ IsActive(p) => c.close # None /\ Breaks(p, c) /\ pools'[i].ended = row
  BY <1>1, <1>3, KeptFacts DEF IsActive, Pool
<1>5. pools'[i].ended \in Nat /\ pools'[i].ended <= row
  BY <1>2, <1>3, <1>4, NoneAssumption DEF EndsInTime, IsActive
<1>6. j \in DOMAIN pools
  BY <1>1, <1>2, <1>5, PoolsAfter DEF Shut
<1>7. /\ q \in Pool
      /\ q.side = pools'[j].side /\ q.level = pools'[j].level /\ q.created = pools'[j].created
      /\ ~IsActive(q) => pools'[j] = q
      /\ IsActive(q) => (pools'[j].status = "broken" <=> c.close # None /\ Breaks(q, c))
      /\ IsActive(q) /\ ~IsActive(pools'[j]) => pools'[j].ended = row
  BY <1>1, <1>6, KeptFacts
<1>8. CASE ~IsActive(p)
  <2>1. /\ ~IsActive(q) /\ q.ended <= p.ended
        /\ q.ended = p.ended => q.status = "broken"
    BY <1>3, <1>4, <1>6, <1>7, <1>8 DEF BreakReachesInner
  <2> QED
    BY <1>4, <1>7, <1>8, <2>1
<1>9. CASE IsActive(p) /\ ~IsActive(q)
  <2>1. q.ended # None /\ q.ended < row /\ q.ended \in Nat
    BY <1>6, <1>7, <1>9 DEF EndsInTime, Pool
  <2> QED
    BY <1>2, <1>4, <1>7, <1>9, <2>1
<1>10. CASE IsActive(p) /\ IsActive(q)
  <2>1. c.close \in Int /\ p.level \in Int /\ q.level \in Int /\ p.side \in Side
    BY <1>4, <1>7, <1>10, CandleFacts, PriceAssumption DEF Pool
  <2>2. Outside(p.side, c.close, q.level)
          = Outside(p.side, c.close, p.level) + Outside(p.side, p.level, q.level)
    BY <2>1, OutsideFacts
  <2>3. Outside(p.side, c.close, p.level) > BreakConfirm
    BY <1>4, <1>10 DEF Breaks
  <2>4. Outside(p.side, p.level, q.level) >= 0
    BY <1>4, <1>7
  <2>5. Outside(q.side, c.close, q.level) > BreakConfirm
    <3>1. /\ Outside(p.side, c.close, p.level) \in Int
          /\ Outside(p.side, p.level, q.level) \in Int
      BY <2>1, OutsideFacts
    <3>2. p.side = q.side
      BY <1>4, <1>7
    <3> QED
      BY <2>2, <2>3, <2>4, <3>1, <3>2, DistanceAssumption
  <2>6. pools'[j].status = "broken"
    BY <1>4, <1>7, <1>10, <2>5 DEF Breaks
  <2> QED
    BY <1>2, <1>4, <1>7, <1>10, <2>6 DEF IsActive
<1> QED
  BY <1>8, <1>9, <1>10

LEMMA LastStep ==
  ASSUME TypeOK, PrevIsLast, Next
  PROVE  PrevIsLast'
<1>1. PICK c \in Candle :
        /\ Kept(c)
        /\ \/ Shut /\ prev' = prev
           \/ \E s \in Side : prev' = NextPrev(s, c[s]) /\ (Shut \/ Opened(s, c))
  BY RowFacts
<1>2. row' = row + 1 /\ row \in Nat
  BY RowFacts
<1>3. ASSUME NEW s \in Side
      PROVE  /\ NextPrev(s, c[s])[s].row = row /\ NextPrev(s, c[s])[s] # None
             /\ \A t \in Side \ {s} : NextPrev(s, c[s])[t] = prev[t]
  <2>1. prev \in [Side -> [row: Nat, price: Prices] \cup {None}]
    BY DEF TypeOK
  <2>2. [row |-> row, price |-> c[s]] \in [row: Nat, price: Prices]
    BY <1>2, CandleFacts
  <2> QED
    BY <2>1, <2>2, NoneAssumption DEF NextPrev
<1>4. ASSUME NEW t \in Side, prev[t] # None
      PROVE  /\ prev[t].row \in Nat /\ prev[t].row < row
             /\ prev'[t] # None /\ prev'[t].row >= prev[t].row /\ prev'[t].row < row'
  <2>1. prev[t].row \in Nat /\ prev[t].row < row
    BY <1>4 DEF TypeOK, PrevIsLast
  <2> QED
    BY <1>1, <1>2, <1>3, <1>4, <2>1
<1>5. ASSUME NEW t \in Side, prev'[t] # None
      PROVE  prev'[t].row < row'
  BY <1>1, <1>2, <1>3, <1>4, <1>5
<1>6. ASSUME NEW i \in DOMAIN pools'
      PROVE  /\ prev'[pools'[i].side] # None
             /\ pools'[i].created <= prev'[pools'[i].side].row
  <2>1. CASE i \in DOMAIN pools
    <3>1. /\ pools'[i].side = pools[i].side /\ pools'[i].created = pools[i].created
          /\ pools[i].side \in Side /\ pools[i].created \in Nat
      BY <1>1, <2>1, KeptFacts DEF Pool
    <3>2. /\ prev[pools[i].side] # None
          /\ pools[i].created <= prev[pools[i].side].row
      BY <2>1 DEF PrevIsLast
    <3>3. /\ prev[pools[i].side].row \in Nat
          /\ prev'[pools[i].side] # None
          /\ prev'[pools[i].side].row >= prev[pools[i].side].row
          /\ prev'[pools[i].side].row \in {row, prev[pools[i].side].row}
      BY <1>1, <1>3, <1>4, <3>1, <3>2
    <3> QED
      BY <1>2, <3>1, <3>2, <3>3
  <2>2. CASE i \notin DOMAIN pools
    <3>1. PICK s \in Side : prev' = NextPrev(s, c[s]) /\ Opened(s, c)
      BY <1>1, <2>2 DEF Shut
    <3>2. pools'[i].side = s /\ pools'[i].created = row
      BY <1>1, <2>2, <3>1, PoolsAfter
    <3> QED
      BY <1>2, <1>3, <3>1, <3>2
  <2> QED
    BY <2>1, <2>2
<1> QED
  BY <1>5, <1>6 DEF PrevIsLast

\* Marking a new pool renames the row of the last swing and names this row; the
\* other rows keep their marks.
LEMMA MarkedFacts ==
  ASSUME TypeOK, NEW s \in Side, row \in Rows,
         prev[s] # None, prev[s].row \in Rows
  PROVE  /\ Marked(s)[s][row] = Len(pools) + 1
         /\ Marked(s)[s][prev[s].row] = Len(pools) + 1
         /\ \A t \in Side, r \in Rows :
              t # s \/ r \notin {row, prev[s].row} => Marked(s)[t][r] = mark[t][r]
<1>1. mark \in [Side -> [Rows -> Nat]]
  BY DEF TypeOK
<1> QED
  BY <1>1 DEF Marked

LEMMA ChainStep ==
  ASSUME TypeOK, EndsInTime, PrevIsLast, PoolsFormChain, Next
  PROVE  PoolsFormChain'
<1>1. PICK c \in Candle :
        /\ Kept(c)
        /\ \/ Shut /\ prev' = prev
           \/ \E s \in Side : prev' = NextPrev(s, c[s]) /\ (Shut \/ Opened(s, c))
  BY RowFacts
<1>2. row \in Nat /\ row \in Rows /\ DOMAIN pools = 1..Len(pools) /\ Len(pools) \in Nat
  BY RowFacts DEF TypeOK
<1>3. ASSUME NEW i \in DOMAIN pools
      PROVE  /\ i \in DOMAIN pools' /\ pools'[i].side = pools[i].side
             /\ pools'[i].first = pools[i].first /\ pools'[i].created = pools[i].created
             /\ pools[i].side \in Side /\ pools[i].first \in Nat /\ pools[i].created \in Nat
             /\ pools[i].first < pools[i].created /\ pools[i].created < row
             /\ prev[pools[i].side] # None
             /\ pools[i].created <= prev[pools[i].side].row
  BY <1>1, KeptFacts DEF Pool, PoolsFormChain, EndsInTime, PrevIsLast
<1>4. CASE Shut
  BY <1>3, <1>4 DEF Shut, PoolsFormChain
<1>5. ASSUME NEW s \in Side, Opened(s, c)
      PROVE  PoolsFormChain'
  <2> DEFINE n == Len(pools) + 1
             last == prev[s].row
  <2>1. /\ n \in DOMAIN pools' /\ n \notin DOMAIN pools
        /\ DOMAIN pools' = DOMAIN pools \cup {n}
    BY <1>2, <1>5 DEF Opened
  <2>2. /\ prev[s] \in [row: Nat, price: Prices] /\ prev[s] # None
        /\ pools'[n].side = s /\ pools'[n].first = last /\ pools'[n].created = row
    BY <1>1, <1>5, <2>1, PoolsAfter DEF Opened, LevelWithPrevious
  <2>3. last \in Nat /\ last < row /\ last \in Rows
    BY <1>2, <2>2, RowsAssumption DEF PrevIsLast, Rows
  <2>4. /\ mark'[s][row] = n /\ mark'[s][last] = n
        /\ \A t \in Side, r \in Rows : t # s \/ r \notin {row, last} => mark'[t][r] = mark[t][r]
    BY <1>2, <1>5, <2>2, <2>3, MarkedFacts DEF Opened
  <2> HIDE DEF n, last
  <2>5. ASSUME NEW i \in DOMAIN pools', NEW j \in DOMAIN pools',
               i < j, pools'[i].side = pools'[j].side
        PROVE  pools'[i].created <= pools'[j].first
    <3>1. i \in DOMAIN pools
      BY <1>2, <2>1, <2>5 DEF n
    <3>2. CASE j \in DOMAIN pools
      BY <1>3, <2>5, <3>1, <3>2 DEF PoolsFormChain
    <3>3. CASE j = n
      BY <1>3, <2>2, <2>5, <3>1, <3>3 DEF last
    <3> QED
      BY <2>1, <3>2, <3>3
  <2>6. ASSUME NEW i \in DOMAIN pools'
        PROVE  LET p == pools'[i]
                   heir == mark'[p.side][p.created] IN
               /\ p.first < p.created
               /\ mark'[p.side][p.first] = i
               /\ heir # i => /\ heir \in DOMAIN pools'
                              /\ pools'[heir].side = p.side /\ pools'[heir].first = p.created
    <3>1. CASE i = n
      BY <2>2, <2>3, <2>4, <3>1 DEF last
    <3>2. CASE i \in DOMAIN pools
      <4> DEFINE p == pools[i]
                 heir == mark[p.side][p.created]
      <4>1. /\ mark[p.side][p.first] = i
            /\ heir # i => /\ heir \in DOMAIN pools
                           /\ pools[heir].side = p.side /\ pools[heir].first = p.created
        BY <3>2 DEF PoolsFormChain
      <4>2. p.first \in Rows /\ p.created \in Rows
        BY <1>2, <1>3, <3>2, RowsAssumption DEF Rows
      <4>3. p.side = s => p.created <= last
        BY <1>3, <3>2 DEF last
      <4>4. p.side # s \/ p.first \notin {row, last}
        BY <1>2, <1>3, <2>3, <3>2, <4>3
      <4>5. mark'[p.side][p.first] = i
        BY <1>3, <2>4, <3>2, <4>1, <4>2, <4>4
      <4>6. CASE p.side = s /\ p.created = last
        BY <1>3, <2>1, <2>2, <2>4, <3>2, <4>5, <4>6
      <4>7. CASE p.side # s \/ p.created # last
        <5>1. p.created # row
          BY <1>2, <1>3, <3>2
        <5>2. mark'[p.side][p.created] = heir
          BY <1>3, <2>4, <3>2, <4>2, <4>7, <5>1
        <5> QED
          BY <1>3, <2>1, <3>2, <4>1, <4>5, <5>2
      <4> QED
        BY <4>6, <4>7
    <3> QED
      BY <2>1, <3>1, <3>2
  <2> QED
    BY <2>5, <2>6 DEF PoolsFormChain
<1> QED
  BY <1>1, <1>4, <1>5

-----------------------------------------------------------------------------
(* The theorems.                                                           *)

LEMMA Start == Init => IInv
<1> SUFFICES ASSUME Init PROVE IInv
  OBVIOUS
<1>1. TypeOK
  BY DEF Init, TypeOK
<1>2. DOMAIN pools = {}
  BY DEF Init
<1>3. EndsInTime /\ BreakReachesInner /\ PoolsFormChain
  BY <1>2 DEF EndsInTime, BreakReachesInner, PoolsFormChain
<1>4. PrevIsLast
  BY <1>2 DEF PrevIsLast, Init
<1> QED
  BY <1>1, <1>3, <1>4 DEF IInv

LEMMA Step == IInv /\ [Next]_vars => IInv'
<1> SUFFICES ASSUME IInv, [Next]_vars PROVE IInv'
  OBVIOUS
<1>1. CASE Next
  BY <1>1, TypeStep, EndsStep, BreakStep, LastStep, ChainStep DEF IInv
<1>2. CASE UNCHANGED vars
  BY <1>2 DEF IInv, TypeOK, EndsInTime, BreakReachesInner, PrevIsLast, PoolsFormChain,
              IsActive, vars
<1> QED
  BY <1>1, <1>2

\* The inductive invariant holds in every run of the engine.
THEOREM Invariance == Spec => []IInv
BY Start, Step, PTL DEF Spec

\* The registry, the swing slots and the marks keep their types.
THEOREM TypeCorrect == Spec => []TypeOK
<1>1. IInv => TypeOK
  BY DEF IInv
<1> QED
  BY <1>1, Invariance, PTL

\* A pool is judged from the row after its creation up to the age limit, and
\* expires only at the limit (expire_old_pools and the order of the sections).
THEOREM EndsInTimeHolds == Spec => []EndsInTime
<1>1. IInv => EndsInTime
  BY DEF IInv
<1> QED
  BY <1>1, Invariance, PTL

\* A close that breaks a pool breaks all older pools inside it on its side.
THEOREM BreakReachesInnerHolds == Spec => []BreakReachesInner
<1>1. IInv => BreakReachesInner
  BY DEF IInv
<1> QED
  BY <1>1, Invariance, PTL

\* Pools of a side follow one another along its swings, and the columns
\* equal_high_id and equal_low_id lead from every member row to its pool.
THEOREM PoolsFormChainHolds == Spec => []PoolsFormChain
<1>1. IInv => PoolsFormChain
  BY DEF IInv
<1> QED
  BY <1>1, Invariance, PTL

\* No pool is forgotten or renamed, and no fate is revised.
THEOREM FateIsFinalHolds == Spec => FateIsFinal
<1> DEFINE Final ==
      \A i \in DOMAIN pools :
        /\ i \in DOMAIN pools'
        /\ pools'[i].side = pools[i].side /\ pools'[i].level = pools[i].level
        /\ pools'[i].first = pools[i].first /\ pools'[i].created = pools[i].created
        /\ ~IsActive(pools[i]) => pools'[i] = pools[i]
<1>1. ASSUME TypeOK, Next PROVE Final
  <2>1. PICK c \in Candle : Kept(c)
    BY <1>1, RowFacts
  <2> QED
    BY <1>1, <2>1, KeptFacts
<1>2. TypeOK /\ [Next]_vars => [Final]_vars
  BY <1>1
<1> QED
  BY <1>2, TypeCorrect, PTL DEF Spec, FateIsFinal
=============================================================================

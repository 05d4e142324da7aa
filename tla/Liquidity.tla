----------------------------- MODULE Liquidity -----------------------------
(***************************************************************************)
(* The liquidity engine: detect_liquidity_registry of                      *)
(* app/analysis/liquidity.py with LiquidityPool (models.py) and            *)
(* LiquidityRegistry.  One step is one row of the frame: the active pools  *)
(* are checked against its candle (1), old pools expire (2), and a         *)
(* labelled swing that is level with the one before it on its side opens   *)
(* a pool (3, 4).                                                          *)
(*                                                                         *)
(* The code writes everything twice, for buy-side liquidity above equal    *)
(* highs (BSL) and sell-side liquidity below equal lows (SSL).  Here a     *)
(* pool has a side, "high" for BSL and "low" for SSL, and Beyond measures  *)
(* outwards on that side.                                                  *)
(***************************************************************************)
EXTENDS Directions, Sequences

CONSTANTS MaxRows,       \* bound on the number of rows of the frame
          Prices,        \* prices, in half ticks: midpoints are whole
          Tolerance,     \* tolerance_pips, in half ticks
          MinSweep,      \* minimum_sweep_pips, in half ticks
          BreakConfirm,  \* break_confirmation_pips, in half ticks
          MaxAge,        \* maximum_age_bars, None when not given
          None           \* a missing value

ASSUME RowsAssumption == MaxRows \in Nat
ASSUME PriceAssumption == Prices \subseteq Int /\ \A p \in Prices : p % 2 = 0
ASSUME DistanceAssumption == Tolerance \in Nat /\ MinSweep \in Nat /\ BreakConfirm \in Nat
ASSUME AgeAssumption == MaxAge \in (Nat \ {0}) \cup {None}
ASSUME NoneAssumption ==
  None \notin Int /\ None \notin Side /\ None \notin [row: Nat, price: Prices]

VARIABLES row,    \* the position of the next row
          pools,  \* the registry, in the order the pools were added
          prev,   \* previous_high/low with its position, per side
          mark    \* equal_high_id/equal_low_id: the pool a row is a member of

vars == <<row, pools, prev, mark>>

Rows == 0..(MaxRows - 1)
Statuses == {"active", "swept", "broken", "expired"}
Pool == [side: Side, level: Int, first: Nat, created: Nat,
         status: Statuses, ended: Nat \cup {None}]

\* A candle; its close is missing when any of the prices the loop reads is.
Candle == {c \in [high: Prices, low: Prices, close: Prices \cup {None}] :
             /\ c.low <= c.high
             /\ c.close # None => c.low <= c.close /\ c.close <= c.high}

\* How far price a lies beyond price b, away from the market on side s.
Outside(s, a, b) == Beyond(IF s = "high" THEN "bullish" ELSE "bearish", a, b)

IsActive(p) == p.status = "active"

-----------------------------------------------------------------------------
\* The wick goes through the level and the close comes back.
Sweeps(p, c) ==
  LET wick == Outside(p.side, c[p.side], p.level) IN
  /\ wick > 0 /\ wick >= MinSweep
  /\ Outside(p.side, p.level, c.close) > 0

\* Mutant of Breaks: the break of a sell-side pool is not mirrored.
BreaksUnmirrored(p, c) == c.close - p.level > BreakConfirm

\* The close goes through the level.
Breaks(p, c) == Outside(p.side, c.close, p.level) > BreakConfirm

Ended(p, status) == [p EXCEPT !.status = status, !.ended = row]

\* Mutant of Judged: pools that have ended are judged again.
JudgedAll(p, c) ==
  IF c.close = None THEN p
  ELSE IF Sweeps(p, c) THEN Ended(p, "swept")
  ELSE IF Breaks(p, c) THEN Ended(p, "broken")
  ELSE p

\* Section 1.
Judged(p, c) ==
  IF ~IsActive(p) \/ c.close = None THEN p
  ELSE IF Sweeps(p, c) THEN Ended(p, "swept")
  ELSE IF Breaks(p, c) THEN Ended(p, "broken")
  ELSE p

\* Mutants of Aged: a pool lives one row too long; the row is not written.
AgedLate(p) ==
  IF MaxAge # None /\ IsActive(p) /\ row - p.created > MaxAge THEN Ended(p, "expired") ELSE p
AgedAsEvent(p) ==
  IF MaxAge # None /\ IsActive(p) /\ row - p.created >= MaxAge
  THEN [p EXCEPT !.status = "LIQUIDITY_EXPIRED"] ELSE p

\* Section 2, expire_old_pools.
Aged(p) ==
  IF MaxAge # None /\ IsActive(p) /\ row - p.created >= MaxAge THEN Ended(p, "expired") ELSE p

\* Sections 3 and 4: the labelled swing of this row is level with the last one.
LevelWithPrevious(s, price) ==
  /\ prev[s] # None
  /\ price - prev[s].price <= Tolerance
  /\ prev[s].price - price <= Tolerance

NewPool(s, price) ==
  [side |-> s, level |-> (prev[s].price + price) \div 2, first |-> prev[s].row,
   created |-> row, status |-> "active", ended |-> None]

\* Mutant of NextPrev: a swing that opens a pool does not become the last one.
NextPrevUnlessPool(s, price) ==
  IF LevelWithPrevious(s, price) THEN prev
  ELSE [prev EXCEPT ![s] = [row |-> row, price |-> price]]

NextPrev(s, price) == [prev EXCEPT ![s] = [row |-> row, price |-> price]]

\* Both member rows are given the new pool's name, the earlier one anew.
Marked(s) == [mark EXCEPT ![s][row] = Len(pools) + 1, ![s][prev[s].row] = Len(pools) + 1]

\* The pools over candle c, before a new one is added.
Survey(c) == [i \in DOMAIN pools |-> Aged(Judged(pools[i], c))]

\* A row without a labelled swing.
PlainRow(c) == pools' = Survey(c) /\ UNCHANGED <<prev, mark>>

\* A row with a labelled swing on side s, HH or LH for "high", HL or LL for
\* "low"; the swing's price is the row's own high or low.
SwingRow(s, c) ==
  /\ prev' = NextPrev(s, c[s])
  /\ IF LevelWithPrevious(s, c[s])
     THEN pools' = Append(Survey(c), NewPool(s, c[s])) /\ mark' = Marked(s)
     ELSE pools' = Survey(c) /\ UNCHANGED mark

Init ==
  /\ row = 0 /\ pools = <<>>
  /\ prev = [s \in Side |-> None]
  /\ mark = [s \in Side |-> [r \in Rows |-> 0]]
Next ==
  /\ row < MaxRows
  /\ row' = row + 1
  /\ \E c \in Candle : PlainRow(c) \/ \E s \in Side : SwingRow(s, c)
Spec == Init /\ [][Next]_vars

-----------------------------------------------------------------------------
TypeOK ==
  /\ row \in Nat
  /\ pools \in Seq(Pool)
  /\ prev \in [Side -> [row: Nat, price: Prices] \cup {None}]
  /\ mark \in [Side -> [Rows -> Nat]]

\* The frame's candles agree about a level: a close that breaks a pool breaks
\* every older pool of that side between it and the market, unless that one had
\* ended before; none of them is left standing, or recorded as a mere sweep.
BreakReachesInner ==
  \A i, j \in DOMAIN pools :
    LET p == pools[i]
        q == pools[j] IN
    /\ p.status = "broken" /\ q.side = p.side /\ q.created < p.ended
    /\ Outside(p.side, p.level, q.level) >= 0
    => /\ ~IsActive(q) /\ q.ended <= p.ended
       /\ q.ended = p.ended => q.status = "broken"

\* A pool is judged from the row after the one that opened it and up to the row
\* on which it is too old, that row included; only a pool that price has spared
\* through that whole life expires.
EndsInTime ==
  \A i \in DOMAIN pools :
    LET p == pools[i] IN
    /\ p.created < row
    /\ IF IsActive(p)
       THEN p.ended = None /\ (MaxAge # None => row - 1 - p.created < MaxAge)
       ELSE /\ p.ended # None /\ p.created < p.ended /\ p.ended < row
            /\ MaxAge # None => p.ended - p.created <= MaxAge
            /\ p.status = "expired" => MaxAge # None /\ p.ended = p.created + MaxAge

\* The pools of a side form a chain over its swings: a later pool starts at or
\* after the row that completed an earlier one, so no row is the later member of
\* two pools, and the marks name a pool on both its members, or on the later one
\* the next pool of the chain, which shares it.
PoolsFormChain ==
  /\ \A i, j \in DOMAIN pools :
       i < j /\ pools[i].side = pools[j].side => pools[i].created <= pools[j].first
  /\ \A i \in DOMAIN pools :
       LET p == pools[i]
           heir == mark[p.side][p.created] IN
       /\ p.first < p.created
       /\ mark[p.side][p.first] = i
       /\ heir # i => /\ heir \in DOMAIN pools
                        /\ pools[heir].side = p.side /\ pools[heir].first = p.created

\* No row forgets a pool, moves or renames one, or changes the fate of one that
\* has ended: a swept pool is never broken or expired later.
FateIsFinal ==
  [][\A i \in DOMAIN pools :
       /\ i \in DOMAIN pools'
       /\ pools'[i].side = pools[i].side /\ pools'[i].level = pools[i].level
       /\ pools'[i].first = pools[i].first /\ pools'[i].created = pools[i].created
       /\ ~IsActive(pools[i]) => pools'[i] = pools[i]]_vars
=============================================================================

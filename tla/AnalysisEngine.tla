--------------------------- MODULE AnalysisEngine ---------------------------
(***************************************************************************)
(* The whole analysis of one frame of candles: analyze_market of           *)
(* app/analysis/analysis_engine.py.  It chains swing detection (Swings),   *)
(* the structure state machine (StructureState), the liquidity engine      *)
(* (Liquidity) and the order block engine (OrderBlocks, in ReversalSetup   *)
(* with the event list) over real prices: what those modules leave open,   *)
(* each candle decides here.                                               *)
(*                                                                         *)
(* The code runs each engine over the whole frame before the next one.  An *)
(* engine reads of a row only what the engines before it have written up   *)
(* to that row, and no engine writes a row twice for a later one to read,  *)
(* so here one step takes one row through all of them.                     *)
(***************************************************************************)
EXTENDS StructureState, Swings

CONSTANTS
  Frames,                \* the validated frames of the requests
  MinBreak,              \* minimum_break_atr
  MinDisplacement,       \* minimum_displacement_atr
  MinBody,               \* minimum_event_body_ratio, in percent
  InvalidationDistance,  \* invalidation_confirmation_pips
  Lookback, MaxAge, Enabled,                    \* of the order block engine
  Tolerance, MinSweep, BreakConfirm, MaxPoolAge \* of the liquidity engine

\* The distance a close has to cover to break a level.
BreakDistance(b) == MinBreak * b.atr

\* A validated candle with its ATR, which is there from the first candle on.
Bar == {b \in [open: Price, high: Price, low: Price, close: Price, atr: Nat] :
          /\ b.low <= b.open /\ b.open <= b.high
          /\ b.low <= b.close /\ b.close <= b.high
          /\ BreakDistance(b) \in Distance}

ASSUME FramesAssumption ==
  \A f \in Frames : f \in Seq(Bar) /\ Len(f) \in (Left + Right + 1)..MaxRows
ASSUME EvenAssumption == \A p \in Price : p % 2 = 0
ASSUME MinAssumption == MinBreak \in Nat /\ MinDisplacement \in Nat /\ MinBody \in 0..100
ASSUME BlockAssumption ==
  /\ InvalidationDistance \in Nat
  /\ Lookback \in Nat \ {0} /\ MaxAge \in (Nat \ {0}) \cup {None}
  /\ Enabled \subseteq {"BOS", "MSS", "CHoCH"}
ASSUME PoolAssumption ==
  /\ Tolerance \in Nat /\ MinSweep \in Nat /\ BreakConfirm \in Nat
  /\ MaxPoolAge \in (Nat \ {0}) \cup {None}
ASSUME MissingAssumption ==
  /\ None \notin (Side \cup {"price_penetration", "mss_invalidated"})
  /\ None \notin [row: Nat, price: Price]

VARIABLES
  frame,                     \* candles, with the indicators
  requireSweep,              \* require_liquidity_sweep
  pools, prev, mark,         \* of the liquidity engine
  blocks, pending, last,     \* of the order block engine
  events                     \* the structure events

Pools == INSTANCE Liquidity WITH row <- pos, Prices <- Price, MaxAge <- MaxPoolAge
Setup == INSTANCE ReversalSetup WITH
           at <- pos, dir <- trend, phase <- Phase, origin <- originIndex,
           event <- row.event, heading <- row.direction, cited <- row.invalidated

engineVars == <<vars, frame, requireSweep, pools, prev, mark, blocks, pending, last, events>>

\* The candle of a row: positions count from 0, sequences from 1.
BarAt(r) == frame[r + 1]

-----------------------------------------------------------------------------
\* What the structure state machine reads of row r.
SwingAt(d, r) == IF IsSwing(frame, d, r + 1) THEN Extreme(d, BarAt(r)) ELSE None
StructureRow(r) ==
  LET b == BarAt(r) IN
  [high |-> SwingAt("bullish", r), low |-> SwingAt("bearish", r),
   close |-> b.close, required |-> BreakDistance(b)]

-----------------------------------------------------------------------------
\* The liquidity engine reads the candle and the label just written.
FindLiquidity ==
  LET c == [high |-> BarAt(pos).high, low |-> BarAt(pos).low, close |-> BarAt(pos).close] IN
  IF row'.label = None THEN Pools!PlainRow(c)
  ELSE Pools!SwingRow(IF row'.label \in {"HH", "LH"} THEN "high" ELSE "low", c)

-----------------------------------------------------------------------------
(* order_blocks.py *)

\* _candle_direction
Colour(b) == IF b.close > b.open THEN "bullish" ELSE IF b.close < b.open THEN "bearish" ELSE "neutral"

\* Mutant of Reached: the distal level is taken at the wrong end of the candle.
ReachedFromProximal(p) ==
  LET a == BarAt(p)
      b == BarAt(pos)
      against == Colour(a) IN
  IF Beyond(against, b.close, Extreme(Opp(against), a)) > InvalidationDistance THEN "breach"
  ELSE IF b.low <= a.high /\ a.low <= b.high THEN "touch"
  ELSE "miss"

\* How far the candle of this row reaches into the block anchored at row p: a
\* close beyond its distal level, or into its range.  A block stands on a
\* candle against it (Footprint).
Reached(p) ==
  LET a == BarAt(p)
      b == BarAt(pos)
      against == Colour(a) IN
  IF Beyond(against, b.close, Extreme(against, a)) > InvalidationDistance THEN "breach"
  ELSE IF b.low <= a.high /\ a.low <= b.high THEN "touch"
  ELSE "miss"

\* _liquidity_sweep_confirmed, over the rows from p to this one.  A row keeps
\* the sweep_direction of the last pool it sweeps.
SweepsLast(i, r) ==
  /\ pools'[i].status = "swept" /\ pools'[i].ended = r
  /\ \A j \in DOMAIN pools' : j > i => ~(pools'[j].status = "swept" /\ pools'[j].ended = r)
SweepConfirmed(d, p) ==
  \E i \in DOMAIN pools', r \in p..pos : SweepsLast(i, r) /\ pools'[i].side = PullbackSide(d)

\* This row's candle moves away from the candle of row p with force.
Displaces(d, p) ==
  LET b == BarAt(pos) IN
  /\ b.atr > 0
  /\ 100 * Beyond(d, b.close, b.open) >= MinBody * (b.high - b.low)
  /\ Beyond(d, b.close, Extreme(Opp(d), BarAt(p))) >= MinDisplacement * b.atr
  /\ requireSweep => SweepConfirmed(d, p)

FindOrderBlocks ==
  LET d == row'.direction
      p == Setup!Anchor(d) IN
  Setup!Process(Colour(BarAt(pos)), [q \in {b.anchor : b \in blocks} |-> Reached(q)],
                d # None /\ p # None /\ Displaces(d, p))

-----------------------------------------------------------------------------
EngineInit ==
  /\ Init
  /\ Pools!Init
  /\ Setup!SetupInit
  /\ frame \in Frames
  /\ requireSweep \in BOOLEAN

\* One row, through every engine.
Analyse ==
  /\ pos < Len(frame)
  /\ Step(StructureRow(pos))
  /\ FindLiquidity
  /\ FindOrderBlocks
  /\ events' = events \cup Setup!StructureEvents
  /\ UNCHANGED <<frame, requireSweep>>

EngineSpec == EngineInit /\ [][Analyse]_engineVars

-----------------------------------------------------------------------------
\* How the candle of row r meets block b: in the words of docs/ORDER_BLOCKS.md,
\* a close beyond the distal level, a trade into the range, or neither.
Distal(b) == Extreme(Opp(b.type), BarAt(b.anchor))
ClosesThrough(b, r) == Beyond(Opp(b.type), BarAt(r).close, Distal(b)) > InvalidationDistance
TradesInto(b, r) == BarAt(r).low <= BarAt(b.anchor).high /\ BarAt(b.anchor).low <= BarAt(r).high
Misses(b, r) == ~ClosesThrough(b, r) /\ ~TradesInto(b, r)
MissedUpTo(b, r) == \A q \in (b.created + 1)..r : Misses(b, q)
FirstMeets(b, r) == r \in (b.created + 1)..(pos - 1) /\ MissedUpTo(b, r - 1) /\ ~Misses(b, r)

\* A block stands on the last candle against it before its event, not further
\* back than the lookback, and a required sweep really happened in between.
Footprint(b) ==
  /\ b.anchor \in (b.created - Lookback)..(b.created - 1) /\ b.anchor \in Nat
  /\ Colour(BarAt(b.anchor)) = Opp(b.type) /\ Colour(BarAt(b.created)) = b.type
  /\ \A r \in (b.anchor + 1)..(b.created - 1) : Colour(BarAt(r)) # Opp(b.type)
  /\ requireSweep => \E i \in DOMAIN pools :
       /\ pools[i].status = "swept" /\ pools[i].side = PullbackSide(b.type)
       /\ pools[i].ended \in b.anchor..b.created

\* The status of a block is decided by the first candle that met it, unless age
\* or the end of its shift came first.
Fate(b) ==
  /\ b.status = "active" =>
       MissedUpTo(b, pos - 1) /\ (MaxAge # None => pos - 1 < b.created + MaxAge)
  /\ b.status = "mitigated" =>
       \E r \in 0..(pos - 1) : FirstMeets(b, r) /\ ~ClosesThrough(b, r)
  /\ b.status = "invalidated" =>
       \/ /\ b.reason = "price_penetration"
          /\ \E r \in 0..(pos - 1) : FirstMeets(b, r) /\ ClosesThrough(b, r)
       \/ /\ b.reason = "mss_invalidated" /\ b.source = "MSS"
          /\ \E e \in events : /\ e.type = "MSS_INVALIDATED" /\ e.origin = b.created
                             /\ MissedUpTo(b, e.index)
  /\ b.status = "expired" =>
       MaxAge # None /\ b.created + MaxAge < pos /\ MissedUpTo(b, b.created + MaxAge)

\* What the registry says of a block at any row is what the candles did: where
\* it stands, whether price came back to it and how, and why it ended.
RegistryIsHistory == \A b \in blocks : Footprint(b) /\ Fate(b)

\* A break is dated at a row at which the swing it breaks had long been
\* confirmed: Right later candles had closed before.  (With an ATR of zero no
\* distance is required, and a close at the row's own extreme is a break.)
BreaksAreConfirmed ==
  [][row'.event \in {"BOS", "MSS"} /\ StructureRow(pos).required > 0 =>
       \E r \in 0..(pos - Right - 1) :
         SwingAt(row'.direction, r) # None /\ SwingAt(row'.direction, r) = row'.broken]_engineVars

\* Every row of the analysis is a row of the structure state machine over
\* abstract candles, of the liquidity engine, and of the setup model.
ImplementsStructure == Spec
ImplementsLiquidity == Pools!Spec
ImplementsSetup == Setup!SetupSpec
=============================================================================

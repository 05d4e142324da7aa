# TLA+ models of the MT5 AI bridge

The bridge reads candles from a MetaTrader 5 terminal, runs a market-structure
pipeline over them (swings → structure state machine → liquidity pools → order
blocks → events), offers the result and a manual EURUSD signal over HTTP, and
records the signals in a log from which reports are made. This directory holds
TLA+ modules translated from the Python source, TLC configurations that check
them, and TLAPS proofs about every one of them. `PROJECT.json` lists runs,
mutants, findings, hazards and, definition by definition, the source lines a
module stands for.

Commands, from this directory:

    tlc -config MCReversalSetup.cfg MCReversalSetup
    tlapm ReversalSetupProofs.tla

## 1. Inventory

| Part | Source | State it keeps | Operations | What is hard | What makes it correct |
|---|---|---|---|---|---|
| Candle validation | `analysis/candle_validation.py` | none | sort, drop duplicates, reject gaps in columns | input order, duplicates | output sorted and unique, nothing invented |
| **Swing detection, legacy classifier** | `analysis/market_structure.py` | none (whole-frame passes) | swings, HH/HL/LH/LL, BOS, CHoCH | look-ahead of `right_bars`, sliding window | no break before its swing was visible; what is settled is never revised |
| **Structure state machine** | `analysis/state_machine.py` | trend, state, two guards of three fields, candidates, BOS levels, broken levels, two flags, shift origin, cycle baselines | one loop iteration per row | a long sequence of rows reaches an illegal combination; four mirrored branches | shift bookkeeping, guard provenance, ordered confirmation |
| **Liquidity engine** | `analysis/liquidity.py`, `liquidity_registry.py`, `models.py` | pool registry, last labelled swing per side, marks on rows | create, sweep, break, expire | two tolerances, several pools on a row, rows that belong to two pools | a pool ends once and in time; stacked pools agree; marks lead to pools |
| **Order block engine** | `analysis/order_blocks.py`, `order_block_registry.py`, `models.py` | block registry, pending MSS, row columns | mitigate, invalidate, cascade, promote, expire, create | five sections per row whose order matters; a private copy of "the pending MSS" | the copy agrees with the state machine; resolution settles every block; status is final |
| **Orchestrator** | `analysis/analysis_engine.py` | none | run the stages, merge and sort events, snapshot | what the snapshot says while a shift is pending or has failed | trend, phase and latest event agree |
| **Signal strategy** | `strategies/smc_manual_signal.py` | none | nine gates over four analyses | values read over several seconds; blocks, sweeps and CHoCHs matched by row numbers | no signal unless every gate holds, of one reversal |
| Risk | `risk/calculator.py` | none | levels, position size | rounding, limits | the loss at the stop stays in the budget |
| Trend, indicators | `strategies/trend.py`, `multi_timeframe.py`, `indicators/` | none | arithmetic | – | – |
| **MT5 executor** | `mt5/executor.py`, `connection.py`, call sequences of `market.py`, `main.py` | work queue, worker thread, connection, last error of the terminal | submit, wait, time out, connect, disconnect | concurrent handlers, abandoned calls, a terminal that hangs | serial calls, own answers, bounded backlog, everyone answered |
| HTTP API, key middleware | `main.py`, `security.py` | none of its own | endpoints | error mapping | failures reach the client |
| **Forward-test log** | `scripts/forward_test_recorder.py`, `load_records` of `forward_test_analyzer.py` | log file, run counter | call, append, count, sleep; load | kills inside a write, restarts, exceptions | no record lost silently, none counted twice |
| **Outcome measurement** | `scripts/analyze_rejection_outcomes.py`, `generate_forward_test_research_report.py` | none | reference candle, window and R-multiple outcomes, category of a rejection | "now" found by candle times; gates recovered from words | measures agree, decided outcomes stay, categories claim no more than was reached |
| Reporting scripts | rest of `scripts/` | none | statistics, layout | – | – |

Interactions: `analyze_market` calls the stages in order; each reads columns the
stage before has written (the order block engine reads `structure_event`,
`event_direction`, `mss_invalidated_origin_index`). The strategy reads one
analysis per timeframe. Every terminal call of every HTTP handler goes through
`run_mt5`, so handlers interact through one queue. The recorder is another
process, connected to the API by HTTP and to the analyzer and the reports by the
log file; the reports join the log with the terminal's own candle history.

## 2. Modules

| Module | Models | Notes |
|---|---|---|
| `Directions` | the bullish/bearish vocabulary | a branch the code writes twice is written once, for a direction `d` |
| `TrendCycle` | what the structure engine promises its readers | abstract specification, no prices |
| `Swings` | `detect_swing_points` | operators; shared by the two pipelines |
| `StructureState` | `detect_structure_state` | one step per row; implements `TrendCycle` |
| `OrderBlocks` | `detect_order_blocks`, composed with `TrendCycle` | one step per row |
| `ReversalSetup` | structure events, snapshot, M15 steps of the strategy, composed with `OrderBlocks` | extends it by the event list |
| `Liquidity` | `detect_liquidity_registry` with `LiquidityPool` and `LiquidityRegistry` | one step per row |
| `AnalysisEngine` | `analyze_market`: all engines over one frame of candles | one step per row; implements `StructureState`, `Liquidity` and `ReversalSetup` |
| `SwingPoints` | what `market_structure.py` reports | the four passes as operators of a sliding window |
| `LegacyScan` | the loops of `market_structure.py` | one step per row; computes the columns of `SwingPoints` |
| `ManualSignal` | `generate_eurusd_manual_signal`, position sizing, rejection categories | one step per read; the account holder acts in between |
| `MT5Executor` | `run_mt5`, handlers, lifespan | fairness only for the application's own threads |
| `ForwardTestLog` | recorder and `load_records` | interrupts and kills at every point |
| `ForwardOutcomes` | reference candle, window and R-multiple outcomes | measures as operators of a growing history |
| `OutcomeWalk` | the loop that finds the R-multiple outcomes | one step per candle; finds the outcomes of `ForwardOutcomes` |
| `*Proofs` | the proofs about the module of that name; those of `StructureState` are the first part of `AnalysisEngineProofs` | section 5 |
| `MC*` | constants for TLC | section 3 |

### StructureState

Each action is one control path through the loop body: `Collect` (no label yet),
`ShiftStructure`, `BreakStructure` and `Continue` (in a trend, or on the row that
starts it), `Confirm`, `Invalidate`, `Arm` and `Wait` (while a shift is pending).
Two variables of the code that differ only in direction are one function:
`protected_low`/`protected_high` with their status and source are
`protected["bullish"]`/`protected["bearish"]`, `candidate_low`/`candidate_high`
are `candidate`, `bullish_mss_has_hl`/`bearish_mss_has_lh` are `hasPullback`.
The sources `hl` and `lh` are both written `pullback`. `candidateRow` is history
only. A row is what the loop reads: the prices of the swings confirmed at it,
its close and the required distance; a row without close or ATR has
`close = None`. The swing prices and the close of a row are constrained as the
code's data are: a swing price is the row's own high or low. The loop is written
over an arbitrary sequence of rows; what `detect_swing_points` can produce is a
subset (it never confirms swings on the first and last rows), so every property
holds of the real frames as well.

Left out: validation of columns, `break_distance`, `confirmation_step`,
`latest_swing_high/low` and the other columns that the loop writes and never
reads back.

### Liquidity

A step is one row: `Survey` judges every active pool against the candle
(`Judged`, section 1) and expires the old ones (`Aged`, section 2); a labelled
swing becomes the last one of its side and, if it is level with the one before,
opens a pool (`SwingRow`, sections 3 and 4). The code is written twice, for BSL
and SSL; here a pool has a side and `Outside` measures away from the market.
`mark` is the pair of columns `equal_high_id`/`equal_low_id`, the only cells of
earlier rows the loop writes. Prices are even numbers of half ticks, so that the
midpoint of two swings is a whole number. A row without one of its prices has
`close = None`, on which no pool is judged. Rows are arbitrary: the swings the
structure engine labels are a subset (a pivot is above its neighbours), so every
property holds of the real frames. Left out: the event list, the sweep and break
columns of the row, distances and times of a pool, and the status `consumed`,
which no code sets.

### OrderBlocks and ReversalSetup

`Row` first takes a step of `TrendCycle` (the columns of the row), then applies
sections 1, 1b, 1c and 2 of the code to every block (`Aged`) and section 3 to the
row (`Creates`, `NewBlock`). Composing with the abstract cycle instead of the
state machine is sound because every behaviour of the state machine is one of
the cycle: the run `structure` checks it on an instance, the theorem
`Refinement` proves it. Prices are abstracted: the colour of the candle, how far
the row reaches into the range of each anchor candle (`miss`, `touch`, `breach`
by the close), and one Boolean for the size and sweep filters. A block is
identified by its creation row, since a row creates at most one. `passed` is
history only. The event list and the output columns of the engine are left out.
The abstraction lets rows reach into blocks independently of each other and of
the candle's colour, so the invariants hold for more price paths than exist; the
violation run needs a single block that is touched and later closed through.

`ReversalSetup` adds the structure events `_build_structure_events` derives from
the columns. The strategy is asked about a frame that ends at any row, so its
steps are operators of the state after a row: `IsChoch` (the latest CHoCH
towards a direction that is the trend), `InCycleOf` (rows whose sweeps count for
it), `IsChosen` (the block linked to it), `Retraced`, and `LatestEvent` of the
snapshot. A swept pool itself comes from the liquidity engine and is a free
choice of row.

### AnalysisEngine

The modules above leave open what only the candles decide: which rows are swings,
whether a close covers the ATR distance, how far a row reaches into a block,
whether an event has the body, displacement and sweep its block needs. Here a row
is a candle with its ATR and decides all of it: `StructureRow` is what the state
machine reads, `FindLiquidity` passes the label on to `Liquidity`, `Reached`,
`Displaces` and `SweepConfirmed` are the inputs of `OrderBlocks`. The code runs
each engine over the whole frame and then the next one; the model takes a row
through all of them. The outcome is the same because an engine reads of a row what
earlier engines wrote up to that row, and the columns it reads are not written
again later. Swings are no exception: they are a fact of the frame, and `IsSwing`
looks at later candles as the code does. A row keeps one `sweep_direction`, that
of the last pool it sweeps (`SweepsLast`), so the sweep filter may miss a sweep.
`MinBreak` and `MinDisplacement` are multiples of the ATR, `MinBody` is in percent;
frames and `requireSweep` are choices of the request. Indicators come with the
candle.

`RegistryIsHistory` says in terms of candles what the registry claims of a block
(`Footprint`, `Fate`), without the engine's phases: it is the documented meaning of
a block at any row. One exception is visible in it: after the first touch the
candles no longer matter (section 4, finding 1).

### SwingPoints

The program keeps nothing between two requests. The state is the window of
candles one request sees; a step is one more closed candle, which lengthens the
window (`Grow`) or moves it (`Slide`). The passes are operators: `IsSwing`
(of `Swings`), `IsLatestSwing` (the baseline or level in force before a row), `Label`, `Bos`
(once per swing), `Choch`. The code's forward loops that carry "the latest
swing", "already broken" and "the last BOS" are stated here by what they carry:
the last earlier row with that quality. Candles are valid ones, as
`validate_candles` returns them. The required distance is part of a candle: the
ATR is smoothed from the window's first candle on, and no property relates
breaks across a slide.

### LegacyScan

How the three loops compute those columns. `previous` is `previous_high` and
`previous_low`, `latest` and `broken` are the levels of the break pass, `lastBos`
the previous direction of the CHoCH pass. The code runs the loops one after the
other, each over every row; at a row a loop reads the candle, its swing columns
and, of the loop before, the cell of that row, so one step (`ScanRow`) takes a
row through all three without a difference. Within it the order of the code
holds: a row is compared with the baseline before its own swing becomes it, and
breaks a level before its own swing replaces the level. `NextRequest` is the
market moving on and the next request, which starts from nothing; a request works
on the candles it was given. A window too short for a swing is refused, which is
the first guard of `ScanRow`.

### ManualSignal

One evaluation after the other. Each read of the terminal is an action
(`ReadAccount`, `CountPositions`, `ReadH4`, `ReadH1`, `ReadM15`, `ReadM5`,
`Size`), between which positions open and close (`Trade`) and the account
changes (`Login`). An early return is a `Reject` with the reason its text stands
for; an exception is a `Fail` with the status the endpoint gives it. What the
four analyses yield is a choice; `passed` is the evidence dictionary. Volumes
are counted in broker steps and money in the value of a step moving one price
unit, so that `Volume` rounds down exactly where the code floors. `Words` lists,
for each reason, which keywords its text contains; `Rules` and `Depth` are the
tables of `analyze_rejection_outcomes.py`.

### MT5Executor

`Submit`, `Take`, `Return`, `Receive`, `Timeout` are the life of one call:
`_executor.submit`, the worker picking it up, the native call ending, the caller
waking up with the answer, or giving up. `Plan` is the sequence of terminal calls
of a request: account (also positions), health, candles (also the trend, analyze
and legacy endpoints), the signal, and the lifespan's connect and disconnect. The
plan of a signal has two candle series where the code reads four. `Proceed` is
the handler between two calls, including the ways a request ends early.
External, modelled from how `src/` uses them: the terminal (a call may fail, may
never end, and sets `last_error`), the thread pool (one worker, FIFO, a timed-out
wait does not cancel) and the server (it stops accepting requests and lets the
open ones end before the lifespan's second half runs).

### ForwardTestLog

A record is three pieces (a first part, the rest, the newline), flushed in one or
several writes. `Kill` can strike between any two of them; Ctrl+C cannot tear a
line, because the file is closed on the way out. `load_records` is the operator
`Loaded`/`Malformed` over the file. Without `--loop` the recorder is a run of
one evaluation. How the HTTP call ends is one of four outcomes, of which three
are caught.

### ForwardOutcomes

Time is counted in M5 candles; a candle carries the time it opens at, and the
history holds closed ones only. `Close` adds a candle, `Pause` is time without
one (a closed market), `Evaluate` is the logged evaluation, with `seen` the last
candle the strategy was shown. A report may be made at any time, so the measures
are operators of the history: `IsReference`, `MfeReaches`/`MaeReaches` (an
excursion is what the code's maximum reaches), `StopFirst`/`TargetFirst` (which
of the two a walk along the candles meets first, a candle that touches both
counting as the stop). Two scripts write the same walk; a rejection is measured
from the close of its reference candle, a setup from the entry it was given.

### OutcomeWalk

The loop itself. `report` holds direction, entry and `r_distance`, `at` the last
row walked, `remaining` and `outcome` the code's variables. `Begin` is everything
before the loop, `Walk` one candle (the inner loop over the remaining multiples is
the set `Decided` with one `Verdict`, which depends on the candle only), `Finish`
what happens to the multiples that remain, also of a report without forward
candles. The distance has no sign, so a stop on the wrong side of the entry is
mirrored, as in the code. `Move` is the time between two reports; a report walks
the history it fetched.

## 3. Runs

| Run | Bounds | Shows |
|---|---|---|
| `structure` | 3 prices, distances 0 and 1, 6 rows | `ShiftBookkeeping`, `GuardProvenance`, `ConfirmationOrder`, `GuardNeverLost`, `ReversalIsFresh`, `ImplementsTrendCycle` |
| `analysis` | 9 candles: an opening of four and any five of six, or the mirror image; one bar on either side, lookback 3, age limit 3, sweep required or not | `RegistryIsHistory`, `BreaksAreConfirmed`, `ImplementsSetup` |
| `setup` | 6 rows, lookback 3, age limit 4 | of the blocks `PendingIsCurrent`, `ResolutionIsComplete`, `LifecycleIsFinal`; of what the strategy and the snapshot read `ChochIsCurrent`, `SweepCycleHoldsOneShift`, `BlockIsOfThisShift`, `SnapshotAgrees` |
| `liquidity` | 4 prices, tolerance and minimum sweep of a tick, break distance of half a tick, age limit 2, 5 rows | `BreakReachesInner`, `EndsInTime`, `PoolsFormChain`, `FateIsFinal` |
| `executor` | 2 requests of any kind and the lifespan | `Serialized`, `BacklogBounded`, `AnswerIsOwn`, `OnlyWhileConnected`, `EveryCallerAnswered` |
| `forwardlog` | 6 evaluations in any number of runs, `--iterations` 0, 1, 2 or none | `DamageBounded`, `LogIsFaithful`, `RecordsAreDurable` |
| `swings` | 1 bar left, 2 right, a window of 8, 3 candles | `ScanComputesColumns` of the loops; `BreaksAreKnowable`, `ConfirmedIsFinal`, `TailOnlyLoses`, `LabelsOnlyForget` of the columns |
| `signal` | balances 0, 3, 12, 40, prices 1 to 7, a block of each direction, volumes 2 to 5 | `OneTradeAtATime`, `SignalIsSound`, `CategoryNeverDeeper` |
| `outcomes` | 3 candles, stops at 2 levels around the closes, multiples 1 and 2, a horizon of 3, 5 time units | `WalkFindsOutcomes` of the loop; `TargetsNested`, `ExcursionsAgree`, `DecidedIsFinal` of the outcomes |
| `mitigated_survives_breach` | as `setup` | a mitigated block is never invalidated |
| `foreign_error` | as `executor` | a request reports another one's error |
| `reference_lookahead` | as `outcomes` | the reference candle had not closed |

Why the bounds are enough. *structure*: the shortest full story (two swings for
the baselines, one label that starts the trend, a shift, a pullback, a progress
swing) takes five or six rows, less when a row is both kinds of swing; with six
rows every action fires, a shift can be invalidated and a BOS follow. Three
prices allow higher, lower and equal in both directions. *analysis*: after the
opening both baselines are set and five more candles give a trend, a shift, its
invalidation or confirmation, blocks of all three events that are touched,
broken, cascaded, promoted or expire, and sweeps on both sides. *setup*: six rows allow
a shift, its resolution and the expiry of the block, and a second shift; the
lookback of three is shorter than the frame, so an anchor can be out of reach.
*liquidity*: five rows allow four pools, on one side or both, and a pool's whole
life of two rows; a level may lie half a tick from a price, so a wick can be too
short for a sweep and a close too near for a break. *executor*: interference
needs one other request, and the backlog bound is per caller. *forwardlog*:
damage needs one torn line, a whole line glued to it and one more run; there is
room for two or three of them. *swings*: two swings of a side, four rows each
with their bars but overlapping, a break and a row of tail fit into eight rows,
and the window slides for ever. *signal*: the balances allow no volume, one below
the minimum, one within and one above the limit; prices lie inside, outside and
beyond both blocks. *outcomes*: a pause before or after the evaluation, a
reference that changes, and three measured candles fit into five units. The proofs
remove every one of these bounds. `MaxRows`, `MaxEvaluations` and `MaxClock` are
bounds of the models, the reason deadlock is not checked there; in `executor`
the server really stops.

Fairness. The only liveness property is `EveryCallerAnswered`. Weak fairness is
assumed of each caller's `Receive` and `Timeout` (a thread that can run does, and
the wait of `future.result` is limited) and of the lifespan's steps. Nothing is
assumed of the worker or the terminal: a call may run for ever. The other parts
are asked, they do not act by themselves; the recorder may be stopped at any time.

Each property of a passing run has a mutant: a definition of the module changed
as a plausible bug would change it, under which TLC finds the property violated.

## 4. What the checks found

Found by a run:

1. A mitigated order block leaves the active set, so a close through it is never
   noticed; the documentation says mitigation does not end activity, and the
   signal strategy takes such a block for a valid retracement.
2. `last_error` is a second queued call; under concurrent requests an error
   response can carry another request's error.
3. The reference candle of a rejection, which the script calls the most recent
   closed one, is the candle still forming at the evaluation: candles carry the
   time they open at. The measured price is up to one candle later than the one
   the strategy saw, and what happens before that close is measured nowhere.

Further counterexamples, each of a property stated in the module and checked by
hand with `tlc -config MC<property>.cfg MC<module>`:

| Property | Module | What TLC shows |
|---|---|---|
| `BosLeavesGuard` | `StructureState` | `docs/STATE_MACHINE.md:95` excludes BOS from the writers of protected levels and `SMC_SPECIFICATION.md:284` calls its assignment a no-op; after an invalidated shift a BOS moves the reseeded guard back to an older pullback and leaves the source column wrong |
| `CorruptionIsLocal` | `ForwardTestLog` | `forward_test_analyzer.py:70-72`: one corrupted line never prevents the analysis of every other record; a recorder killed inside a write leaves a line without end, and the next run's first record is appended to it and skipped with it |
| `TimeoutIs503` | `MT5Executor` | `docs/DEPLOYMENT.md:59-60`: every call that times out fails its request with 503; `market.py` swallows the timeout of the broker offset, and the request answers 200 with uncorrected candle times |
| `RunsUntilStopped` | `ForwardTestLog` | a timeout while the HTTP answer is read (`forward_test_recorder.py:190`) is none of the exceptions caught, and ends the loop although nobody stopped it |
| `RetracementFollowsChoch` (`MCRetracedBeforeChoch.cfg`) | `ReversalSetup` | a block made by the shift and touched before the CHoCH confirms it counts as retraced from the row of the CHoCH on, as `evaluate_retracement` (`smc_manual_signal.py:299`) looks at the status and not at its time |
| `DepthIsProgress` | `ManualSignal` | the depth of a category is "how far the strategy progressed" (`analyze_rejection_outcomes.py:108`), but a rejection after the M5 confirmation, for an entry that has left the block, is counted at the depth of a missing order block, and one for levels or size at none |

The last one also shows that `compute_r_analysis` (`analyze_rejection_outcomes.py`,
docstring at 530) is wrong to say that a rejection with an order block in its
evidence is always a missing M5 confirmation.

Seen while modelling, outside what the models express: a tick may be stale by as
much as 14 hours plus the true offset and still be taken for the present
(`market.py`, against its docstring, which claims the defence for a tick that is
hours old); and `SMC_SPECIFICATION.md:640` warns that new events appear near the
tail on a later request, while the legacy classifier behaves the other way round,
a break near the tail can only be withdrawn (`TailOnlyLoses`).

## 5. Proofs

Each component has a proof module, and every safety property of every run is
proved for all values of the constants. Constants are assumed to be what their
named ASSUMEs in the modules say: prices are integers, distances and lengths
naturals, candles valid, and the missing value `None` is none of the values it
stands beside. Integers stand for the floats; only order, differences and,
in position sizing, whole-step division are used. Three invariants are proved
without being part of a run, `OneGuard`, `OneFootprint` and `RunIsExact`, and so
are the inductive invariants the proofs rest on.

*AnalysisEngineProofs*, first part, about the state machine. The safety and action properties of `structure` and
`Refinement`: the state machine implements `TrendCycle`. None of the invariants
is inductive alone: that a guard survives an invalidation needs to know that the
opposite swing has been seen, and that a confirmation has a candidate needs the
order in which flag and candidate were set. `IInv` conjoins the checked
invariants with `SeedKnown` (where there is a guard or a pullback there is a
swing to reseed from) and `GapHasNoCandidate` (a trend without a guard has had no
pullback). `Invariance` has one lemma per control path (`ConfirmStep`,
`InvalidateStep`, `PendingStep`, `CollectStep`, `ShiftStep`, `BreakStep`,
`ContinueStep`), resting on lemmas about the operators (`LabelFacts`,
`ReseedFacts`, `GuardAfterSwingFacts`, `RecordSwingsFacts`).

*AnalysisEngineProofs*, second part, about the whole pipeline, for any frame, any
widths, distances, filters and limits. `StructureRefinement`, `LiquidityRefinement`
and `SetupRefinement` show that a row of real candles is a row of each abstract
engine, so that every property above and below carries over
(`StructureGuarantees`, `LiquidityGuarantees`, `SetupGuarantees`). The third needs
that the state machine's row is one of the trend cycle, which is `IInv` again
(`CycleStep`). Two properties of the composition are proved beside them.
`RegistryIsHistoryHolds` uses the registry's own invariant (`SetupOK`), that
`last` names the latest candle of each colour (`LastIsExact`), and what the reach
of a candle means (`ReachIsMeeting`); `HistoryStep`
splits a row's blocks into those that were there (`FateStays`: a block that was
missed so far meets this candle or not, is cascaded or reaches its age, in that
order, as `AgedExactly` spells out) and the new one
(`NewBlockHistory`: the anchor is the last candle against the event). A required
sweep stays swept (`SweptStep`). `BreaksAreConfirmedHolds` rests on
`LevelsFromSwings`: every level the state machine keeps, latest swing, candidate,
guard or BOS level, is the price of a swing of an earlier row. A close that breaks
it by a positive distance lies beyond its right neighbours, so the break is later
than those (`BreakComesLate`).

*ReversalSetupProofs.* All properties of `setup`, for any trend cycle, lookback,
age limit and set of source events. The cycle is taken apart once (`RowKinds`:
which event, direction and citation each kind of row has). `RegistryOK` is the
invariant of the block engine: types, the cycle's own consistency, who created
each block, and its two safety invariants (`PendingIsCurrent`, `OneFootprint`). `SetupOK` adds what the events say of
the state: rows of events are distinct, what came since the trend last turned
(`SinceTurn`), what the cycle under way holds (`RunningCycle`), that an
invalidation cites an earlier row, that the latest event fits the state
(`LatestAgrees`), and that every block has its event. A new row adds at most one
event, later than all others (`NewEvent`), so old cycles stay as they are
(`CycleStays`). `ChochIsCurrent`, `BlockIsOfThisShift` and `SnapshotAgrees`
follow from `SetupOK`; the last needs that a latest event exists, by the
well-foundedness of the naturals.

*LiquidityProofs.* All properties of `liquidity`. `FateFacts` says what a row
does to one pool (a sweep never hides a break, because the close is on the other
side of the level); `RowFacts` lifts it to the registry. `BreakReachesInner`
needs `EndsInTime`: an inner pool that is no longer active ended on an earlier
row. The chain needs `PrevIsLast`, that the last swing of a side is no older than
its pools, since a new pool starts at that swing and takes over its mark.

*SwingPointsProofs.* All properties of `swings`, for any number of bars on either
side and any window. Of the columns, no invariant beyond the type is needed: the
properties compare operators of two windows. A swing with its right bars complete stays one
when the window grows (`SwingStays`), no swing appears in rows that had theirs
(`NoLateSwing`), so levels, breaks, labels and CHoCHs of settled rows stay; when
it slides, a swing keeps its rows unless they fall off (`SwingMoves`), and a label
can only lose its baseline. That a break is knowable rests on a swing's right
neighbours being less extreme than it, closes included.
The loops need one: `Carried` says, of the rows done, that `previous` and `latest`
are the prices of the last swings, that a level is `broken` exactly when a row
since its swing has passed it, and that `lastBos` is the last BOS. Two swings
cannot both be the latest (`SameLatest`), so comparing with the carried price is
comparing with the row it came from (`ComparedWithLatest`), and passing an
unbroken level is being the first to pass it (`FirstToPass`). With `ScanRefines`,
every theorem about the columns is one about what requests return.

*ManualSignalProofs.* All properties of `signal`, for any balances, blocks and
limits. `IInv` says what has been read and passed at each step (`Progress`), that
a position open all along has been seen (`PositionSeen`), and which evidence a
rejection leaves (`EvidenceBehind`). `VolumeWithinRisk` shows that whole-step
division and the upper limit never exceed the budget; `DepthBound` evaluates the
rules for each reason, from which `CategoryNeverDeeper` follows.

*ForwardOutcomesProofs.* All properties of `outcomes`, for any candles, horizon
and multiples. `Nested` and `Agreement` are about a walk: a touch decides it no
later than its row (`TouchDecides`, by well-foundedness), and a farther target is
beyond a nearer one. `ReportStays`: once a walk is decided the reference candle is
fixed, because a walked candle is later than the evaluation, and a longer history
only extends the walk (`WalkExtends`, `NothingYet`). The loop has the invariant
`Walked`: a multiple still in it has met neither its stop nor its target on the
candles walked, and one that has left it has the outcome that is right for all
candles (`VerdictFound`), because stop and target cannot both come first
(`Nested`). That nothing is left when the loop ends needs that times increase
(`NoneLeft`). `WalkRefines` carries the other theorems over to the loop's reports.

*ForwardTestLogProofs.* All properties of `forwardlog`, for any number of
evaluations and runs. `IInv` says how run counter and lines agree (`Counting`),
what of the line under way is in the file (`UnderWay`), that the pieces of a line
are together and in order (`InOrder`), that whole lines are there, and that cut
lines are no more than kills (`CutsCounted`). `DamageBounded` maps every lost
record to the cut line before it and every malformed line to the cut at its
start, and shows both maps to be injective.

*MT5ExecutorProofs.* The safety properties of `executor`, for any set of requests,
and the types. `IInv` orders the calls in the queue (`Order`), puts every waiting
caller on its plan (`Jobs`), names the calls a caller may have in the executor,
the awaited one and an abandoned tick (`Calls`), gives who waits an answer or a
call (`Waits`), and ties the server's phases to the connection (`Life`). Steps are
reduced to two kinds, one that submits a call (`Submission`) and one that ends a
request (`Completion`), beside the worker's `Take` and `Return`. The backlog of
two follows from `Calls`: a plan asks for the tick before other calls, and only
the tick's timeout is survived.

Only model-checked: `EveryCallerAnswered`, as the proof system handles neither
fairness nor ENABLED here, and the counterexamples of section 4.

## 6. Not modelled

- Floating-point arithmetic: indicators, ATR, the broker offset, rounding of
  levels, `calculate_trade_levels`. The vote of `multi_timeframe.py` counts the
  signs of such indicators.
- What the H4, H1 and M5 analyses of a signal look at: each is a choice between
  pass and reject in `ManualSignal`. They are stateless tests of one snapshot.
- The order of merged events (`analysis_engine.py:512` sorts by time, row and
  identifier text): nothing in `src/` reads the order of two events of one row.
- Request schemas, response layout, the key middleware (one stateless comparison),
  episodes, statistics, baselines and layout of the reports.
- The exit of the interpreter, which joins a hanging worker thread.

## 7. Plan

1. The episodes of the reports (runs of rejections of one category), as a fold of
   the log against a definition by neighbours.
2. Abstract specifications of the executor (a serial server that answers or gives
   up) and of the log (a sequence of records with damage), as `TrendCycle` is for
   the state machine.
3. What of an analysis is provisional when the next request sees more candles, as
   `SwingPoints` says it for the legacy pipeline. Opening a pool also rewrites
   `equal_high` cells of an earlier row, where `docs/CONTRIBUTING.md:33` rules out
   mutating output already computed.

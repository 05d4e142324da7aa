---------------------------- MODULE ReversalSetup ----------------------------
(***************************************************************************)
(* What the manual-signal strategy reads from one analysed timeframe:      *)
(* steps 3 to 7 of app/strategies/smc_manual_signal.py and the structure   *)
(* events and snapshot app/analysis/analysis_engine.py builds for them.    *)
(* It composes the structure engine's promise and the order block engine   *)
(* (OrderBlocks) over the same rows.                                       *)
(*                                                                         *)
(* The strategy may be asked after any row, so its steps are operators of  *)
(* the state after that row, and the properties hold at every row.  The    *)
(* swept pools come from the liquidity engine; what the strategy adds is   *)
(* the range of rows in which it accepts a sweep.                          *)
(***************************************************************************)
EXTENDS OrderBlocks

VARIABLE events  \* AnalysisResult.events, the structure events of it

\* origin is metadata mss_origin_index, the row of the MSS an invalidation ends.
MarketEvent == [type: EventNames, index: Nat, direction: Dir, origin: Nat \cup {None}]

Of(types) == {e \in events : e.type \in types}

-----------------------------------------------------------------------------
(* analysis_engine.py *)

\* _build_structure_events: the event of the row the cycle has just processed.
StructureEvents ==
  IF event' = None THEN {}
  ELSE {[type |-> event', index |-> at, direction |-> heading', origin |-> cited']}

\* Mutant of LatestEvent: the rows are searched from the front.
FirstEvent ==
  CHOOSE e \in Of({"BOS", "MSS", "CHoCH"}) :
    \A f \in Of({"BOS", "MSS", "CHoCH"}) : e.index <= f.index

\* _build_structure_snapshot: latest_event, where an invalidation does not count.
LatestEvent ==
  CHOOSE e \in Of({"BOS", "MSS", "CHoCH"}) :
    \A f \in Of({"BOS", "MSS", "CHoCH"}) : f.index <= e.index

-----------------------------------------------------------------------------
(* smc_manual_signal.py *)

\* Mutant of IsChoch: the current trend is not compared.
IsChochOfAnyTrend(d, i) ==
  /\ \E e \in Of({"CHoCH"}) : e.direction = d /\ e.index = i
  /\ \A e \in Of({"CHoCH"}) : e.direction = d => e.index <= i

\* evaluate_choch: row i holds the latest CHoCH towards d, and d is the trend.
IsChoch(d, i) ==
  /\ dir = d
  /\ \E e \in Of({"CHoCH"}) : e.direction = d /\ e.index = i
  /\ \A e \in Of({"CHoCH"}) : e.direction = d => e.index <= i

\* Mutant of InCycleOf: an invalidated shift does not end a cycle.
InCycleSinceChoch(s, before) ==
  s <= before /\ \A e \in Of({"CHoCH"}) : e.index < before => e.index < s

\* _find_current_cycle_start_index, evaluate_liquidity_sweep: a sweep on row s
\* counts for the CHoCH on row before; rows up to the previous end of a cycle
\* do not.
InCycleOf(s, before) ==
  s <= before /\ \A e \in Of({"CHoCH", "MSS_INVALIDATED"}) : e.index < before => e.index < s

\* Mutant of IsLinked: any block confirmed since then is taken.
IsLinkedSince(b, d, choch) ==
  /\ b.type = d /\ b.confirmation = "confirmed" /\ b.status \in {"active", "mitigated"}
  /\ choch <= IF b.confirmed # None THEN b.confirmed ELSE b.created

\* evaluate_displacement_and_order_block: b is valid and linked to the CHoCH.
IsLinked(b, d, choch) ==
  /\ b.type = d /\ b.confirmation = "confirmed" /\ b.status \in {"active", "mitigated"}
  /\ choch = IF b.confirmed # None THEN b.confirmed ELSE b.created

\* The block the strategy takes: the first linked one of the registry.
IsChosen(b, d, choch) ==
  /\ b \in blocks /\ IsLinked(b, d, choch)
  /\ \A c \in blocks : IsLinked(c, d, choch) => b.created <= c.created

\* evaluate_retracement.
Retraced(b) == b.status = "mitigated"

\* The M15 part of the sequence has passed for d, on CHoCH row i with block b.
IsReady(d, i, b) == IsChoch(d, i) /\ IsChosen(b, d, i) /\ Retraced(b)

-----------------------------------------------------------------------------
SetupInit == Init /\ events = {}
SetupNext == Row /\ events' = events \cup StructureEvents
setupVars == <<vars, events>>
SetupSpec == SetupInit /\ [][SetupNext]_setupVars

-----------------------------------------------------------------------------
SetupTypeOK == TypeOK /\ events \subseteq MarketEvent

\* The CHoCH a signal is anchored on made the trend that rules now: no CHoCH of
\* either direction has come after it, and what has come after it is either of
\* that trend or a shift against it and that shift's end.
ChochIsCurrent ==
  \A d \in Dir, i \in 0..at : IsChoch(d, i) =>
    \A e \in events : e.index > i =>
      e.type # "CHoCH" /\ e.direction = (IF e.type = "MSS" THEN Opp(d) ELSE d)

\* The rows in which a sweep is accepted hold exactly one market structure
\* shift, the one the CHoCH confirms; before it there are only breaks along the
\* old trend.  So a sweep never comes from another, already resolved shift.
SweepCycleHoldsOneShift ==
  \A c \in Of({"CHoCH"}) : \E m \in Of({"MSS"}) :
    /\ m.direction = c.direction /\ m.index < c.index /\ InCycleOf(m.index, c.index)
    /\ \A e \in events \ {m, c} : InCycleOf(e.index, c.index) =>
         e.type = "BOS" /\ e.direction = Opp(c.direction) /\ e.index < m.index

\* The chosen block was created by the very reversal of the CHoCH, by the CHoCH
\* itself or by the shift it confirms, not by an earlier shift towards d.
BlockIsOfThisShift ==
  \A d \in Dir, i \in 0..at, b \in blocks : IsChoch(d, i) /\ IsChosen(b, d, i) =>
    \/ b.source = "CHoCH" /\ b.created = i
    \/ /\ b.source = "MSS" /\ InCycleOf(b.created, i)
       /\ \E m \in Of({"MSS"}) : m.index = b.created /\ m.direction = d

\* The snapshot's latest event agrees with its trend: a BOS or CHoCH points
\* along it, an MSS against it; and if the trend rules again, that MSS has been
\* invalidated although the snapshot still shows it as the latest event.
SnapshotAgrees ==
  Of({"BOS", "MSS", "CHoCH"}) # {} =>
    IF LatestEvent.type = "MSS"
    THEN /\ LatestEvent.direction = Opp(dir)
         /\ phase = "trending" <=>
              \E e \in Of({"MSS_INVALIDATED"}) : e.origin = LatestEvent.index
    ELSE LatestEvent.direction = dir

\* The sequence of generate_eurusd_manual_signal: the CHoCH, then the
\* retracement into its block.
RetracementFollowsChoch ==
  \A d \in Dir, i \in 0..at, b \in blocks : IsReady(d, i, b) => at - 1 > i
=============================================================================

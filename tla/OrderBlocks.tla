---------------------------- MODULE OrderBlocks ----------------------------
(***************************************************************************)
(* The order block engine: detect_order_blocks of                          *)
(* app/analysis/order_blocks.py with OrderBlock (models.py) and            *)
(* OrderBlockRegistry.  It runs over the columns the structure engine has  *)
(* written, so it is composed with that engine's promise, TrendCycle: one  *)
(* step is one row, first of the cycle and then of the block lifecycle, in *)
(* the order of the code's sections (1, 1b, 1c, 2, 3).                     *)
(*                                                                         *)
(* Prices are abstracted to what the lifecycle tells apart: the colour of  *)
(* the row's candle, how far the row reaches into the range of each anchor *)
(* candle, and whether a new block passes the size filters.                *)
(***************************************************************************)
EXTENDS Directions, FiniteSets

CONSTANTS MaxRows,   \* bound on the number of rows of the frame
          Lookback,  \* lookback_bars
          MaxAge,    \* maximum_age_bars, None when not given
          Enabled,   \* source_event_types
          None       \* a missing value; also TrendCycle's NoEvent

ASSUME RowsAssumption == MaxRows \in Nat
ASSUME LookbackAssumption == Lookback \in Nat \ {0}
ASSUME AgeAssumption == MaxAge \in (Nat \ {0}) \cup {None}
ASSUME EnabledAssumption == Enabled \subseteq {"BOS", "MSS", "CHoCH"}
ASSUME NoneAssumption ==
  None \notin Int /\ None \notin (Dir \cup EventNames \cup {"price_penetration", "mss_invalidated"})

VARIABLES at, dir, phase, origin, event, heading, cited,  \* TrendCycle
          blocks,   \* the registry: a set, created_index is unique in it
          pending,  \* pending_mss_source_event_id: the row of that MSS, or None
          last      \* the last candle of each colour, or None

Cycle == INSTANCE TrendCycle WITH NoEvent <- None
blockVars == <<blocks, pending, last>>
vars == <<Cycle!vars, blockVars>>

Statuses == {"active", "mitigated", "invalidated", "expired"}
Reach == {"miss", "touch", "breach"}
Colours == Dir \cup {"neutral"}

\* A block of the registry.  source and created are the source_event_id;
\* passed is history only: a later close went beyond the distal level.
Block == [type: Dir, created: Nat, anchor: Nat, source: {"BOS", "MSS", "CHoCH"},
          confirmation: {"provisional", "confirmed"}, confirmed: Nat \cup {None},
          status: Statuses, reason: {None, "price_penetration", "mss_invalidated"},
          passed: BOOLEAN]

IsActive(b) == b.status = "active"

-----------------------------------------------------------------------------
(* The lifecycle of one block over the row the cycle has just processed:   *)
(* at is that row's position, event', heading' and cited' its columns.     *)

\* Section 1: a later row mitigates or invalidates an active block.
Touched(b, reach) ==
  LET r == IF at > b.created THEN reach[b.anchor] ELSE "miss"
      seen == [b EXCEPT !.passed = @ \/ r = "breach"]
  IN  IF ~IsActive(b) THEN seen
      ELSE IF r = "breach" THEN [seen EXCEPT !.status = "invalidated", !.reason = "price_penetration"]
      ELSE IF r = "touch" THEN [seen EXCEPT !.status = "mitigated"]
      ELSE seen

\* Mutant of Cascaded: the cascade does not spare a block price has ended.
CascadedAnyStatus(b) ==
  IF event' = "MSS_INVALIDATED" /\ b.source = "MSS" /\ b.created = cited'
  THEN [b EXCEPT !.status = "invalidated", !.reason = "mss_invalidated"]
  ELSE b

\* Section 1b: a block falls with the MSS it was created by.
Cascaded(b) ==
  IF event' = "MSS_INVALIDATED" /\ b.source = "MSS" /\ b.created = cited' /\ IsActive(b)
  THEN [b EXCEPT !.status = "invalidated", !.reason = "mss_invalidated"]
  ELSE b

\* Mutant of Promotes: only a block price has not touched is promoted.
PromotesOnlyActive(b) ==
  /\ event' = "CHoCH" /\ pending # None
  /\ b.source = "MSS" /\ b.created = pending /\ b.confirmation = "provisional" /\ IsActive(b)

\* Section 1c: the block of the pending MSS is confirmed by its CHoCH.
Promotes(b) ==
  /\ event' = "CHoCH" /\ pending # None
  /\ b.source = "MSS" /\ b.created = pending /\ b.confirmation = "provisional"
Promoted(b) ==
  IF Promotes(b) THEN [b EXCEPT !.confirmation = "confirmed", !.confirmed = at] ELSE b

\* Section 2: an active block grows old.
Expired(b) ==
  IF MaxAge # None /\ IsActive(b) /\ at - b.created >= MaxAge
  THEN [b EXCEPT !.status = "expired"] ELSE b

Aged(b, reach) == Expired(Promoted(Cascaded(Touched(b, reach))))

-----------------------------------------------------------------------------
\* _find_order_block_candle: the last candle of the colour against d, no more
\* than Lookback rows back.
Anchor(d) == LET p == last[Opp(d)] IN IF p # None /\ p >= at - Lookback THEN p ELSE None

\* The CHoCH found the candle of the block it has just confirmed.
SameFootprint == \E b \in blocks : Promotes(b) /\ Anchor(heading') = b.anchor

\* Section 3.  displaced: ATR, body, displacement and sweep filters passed.
Creates(colour, displaced) ==
  /\ event' \in Enabled /\ ~SameFootprint
  /\ colour = heading' /\ displaced /\ Anchor(heading') # None

NewBlock ==
  [type |-> heading', created |-> at, anchor |-> Anchor(heading'), source |-> event',
   confirmation |-> IF event' = "MSS" THEN "provisional" ELSE "confirmed",
   confirmed |-> None, status |-> "active", reason |-> None, passed |-> FALSE]

\* Mutant of NextPending: a confirmed MSS stays pending.
NextPendingAfterConfirmation(created) ==
  IF event' = "MSS_INVALIDATED" THEN None
  ELSE IF event' = "MSS" /\ created THEN at ELSE pending

\* The single slot of the pending MSS over a row.
NextPending(created) ==
  IF event' \in {"MSS_INVALIDATED", "CHoCH"} THEN None
  ELSE IF event' = "MSS" /\ created THEN at
  ELSE pending

Process(colour, reach, displaced) ==
  LET created == Creates(colour, displaced) IN
  /\ blocks' = {Aged(b, reach) : b \in blocks} \cup (IF created THEN {NewBlock} ELSE {})
  /\ pending' = NextPending(created)
  /\ last' = [c \in Dir |-> IF c = colour THEN at ELSE last[c]]

Row ==
  /\ at < MaxRows
  /\ Cycle!Next
  /\ \E colour \in Colours, displaced \in BOOLEAN,
       reach \in [{b.anchor : b \in blocks} -> Reach] : Process(colour, reach, displaced)

Init == Cycle!Init /\ blocks = {} /\ pending = None /\ last = [c \in Dir |-> None]
Next == Row
Spec == Init /\ [][Next]_vars

-----------------------------------------------------------------------------
TypeOK ==
  /\ at \in 0..MaxRows
  /\ dir \in Dir \cup {"neutral"}
  /\ phase \in Cycle!Phases
  /\ origin \in Nat \cup {None}
  /\ event \in EventNames \cup {None} /\ heading \in Dir \cup {None}
  /\ cited \in Nat \cup {None}
  /\ blocks \subseteq Block
  /\ pending \in Nat \cup {None}
  /\ last \in [Dir -> Nat \cup {None}]

\* The block engine's private slot for "the MSS that is pending" never points
\* at another shift than the one the structure engine holds open, and the slot
\* is only taken when that shift has a provisional block to promote; a
\* provisional block that still trades is that block, so none outlives the
\* resolution of its MSS unconfirmed.
PendingIsCurrent ==
  /\ pending # None =>
       /\ pending = origin
       /\ \E b \in blocks : b.source = "MSS" /\ b.created = pending /\ b.confirmation = "provisional"
  /\ \A b \in blocks : IsActive(b) /\ b.confirmation = "provisional" =>
       b.source = "MSS" /\ b.created = pending

\* A CHoCH leaves one block on an anchor candle: the one it creates never
\* stands on the candle of the one it confirms.
OneFootprint ==
  \A b, c \in blocks : b.confirmed # None /\ b.confirmed = c.created => b.anchor # c.anchor

\* The row that resolves a shift settles every block of that shift, whatever
\* price has done to it: confirmed by the CHoCH and pointing the new way, or,
\* by the invalidation, dead and unconfirmed.
ResolutionIsComplete ==
  [][\A b \in blocks' : b.source = "MSS" /\ b.created = origin =>
       /\ event' = "CHoCH" => /\ b.confirmation = "confirmed" /\ b.confirmed = at
                              /\ b.type = dir'
       /\ event' = "MSS_INVALIDATED" => b.confirmation = "provisional" /\ ~IsActive(b)]_vars

\* No row promotes a block of a shift that is not the one it confirms, takes a
\* promotion back, revives a block, or rewrites where a block came from.
LifecycleIsFinal ==
  [][\A b \in blocks : \E c \in blocks' :
       /\ <<c.created, c.type, c.anchor, c.source>> = <<b.created, b.type, b.anchor, b.source>>
       /\ ~IsActive(b) => <<c.status, c.reason>> = <<b.status, b.reason>>
       /\ IF b.confirmation = "provisional" /\ event' = "CHoCH" /\ b.created = origin
          THEN c.confirmation = "confirmed"
          ELSE <<c.confirmation, c.confirmed>> = <<b.confirmation, b.confirmed>>]_vars

\* docs/ORDER_BLOCKS.md sections 3 and 6: mitigation does not terminate a block;
\* it lives on until a later close beyond its distal level invalidates it.
BreachInvalidates ==
  \A b \in blocks : b.passed => b.status \in {"invalidated", "expired"}
=============================================================================

----------------------------- MODULE TrendCycle -----------------------------
(***************************************************************************)
(* What the structure engine promises the engines that read its columns,   *)
(* without prices: the first labelled swing fixes the trend, a structure   *)
(* shift (MSS) suspends it, and only a confirmation (armed by a pullback,  *)
(* completed by a progress swing) turns it over; otherwise the old trend   *)
(* is reasserted, citing the row the shift began at.                       *)
(* One step is one row; a row fires at most one event.                     *)
(***************************************************************************)
EXTENDS Directions

CONSTANT NoEvent

VARIABLES at,       \* number of rows processed: the position of the next one
          dir,      \* the confirmed trend
          phase,    \* how far a reversal of it has come
          origin,   \* the row the pending shift began at
          event,    \* structure_event of the last row
          heading,  \* event_direction of the last row
          cited     \* mss_invalidated_origin_index of the last row

Phases == {"undecided", "trending", "shifting", "armed"}

Fires(e, h, c) == event' = e /\ heading' = h /\ cited' = c
Silent == Fires(NoEvent, NoEvent, NoEvent)

Init == /\ at = 0 /\ dir = "neutral" /\ phase = "undecided" /\ origin = NoEvent
        /\ event = NoEvent /\ heading = NoEvent /\ cited = NoEvent

\* The close breaks structure along the trend d, or breaks nothing.
StayIn(d) == /\ phase' = "trending" /\ UNCHANGED origin
             /\ Silent \/ Fires("BOS", d, NoEvent)

\* The close breaks the level that guards the trend d.
ShiftFrom(d) == /\ phase' = "shifting" /\ origin' = at
                /\ Fires("MSS", Opp(d), NoEvent)

\* The first label starts a trend; the same row may already break structure.
Start(d) == phase = "undecided" /\ dir' = d /\ (StayIn(d) \/ ShiftFrom(d))
Extend == phase = "trending" /\ StayIn(dir) /\ UNCHANGED dir
Shift == phase = "trending" /\ ShiftFrom(dir) /\ UNCHANGED dir
Arm == /\ phase \in {"shifting", "armed"} /\ phase' = "armed"
       /\ Silent /\ UNCHANGED <<dir, origin>>
Turn == /\ phase = "armed" /\ phase' = "trending"
        /\ dir' = Opp(dir) /\ origin' = NoEvent
        /\ Fires("CHoCH", Opp(dir), NoEvent)
Reassert == /\ phase \in {"shifting", "armed"} /\ phase' = "trending"
            /\ origin' = NoEvent
            /\ Fires("MSS_INVALIDATED", dir, origin) /\ UNCHANGED dir
Rest == phase # "trending" /\ Silent /\ UNCHANGED <<dir, phase, origin>>

Next == /\ at' = at + 1
        /\ \/ \E d \in Dir : Start(d)
           \/ Extend \/ Shift \/ Arm \/ Turn \/ Reassert \/ Rest

vars == <<at, dir, phase, origin, event, heading, cited>>
Spec == Init /\ [][Next]_vars
=============================================================================

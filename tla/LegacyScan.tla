----------------------------- MODULE LegacyScan -----------------------------
(***************************************************************************)
(* A request to /analysis/market-structure: the loops of                   *)
(* market_structure.py, which go over the rows of the window once each and *)
(* carry what they have seen in a few variables.  SwingPoints says what    *)
(* they are to compute; this module is how.                                *)
(*                                                                         *)
(* The code runs the three loops one after the other.  At a row a loop     *)
(* reads the candle, whether it is a swing, and of the loop before only    *)
(* the cell of that row, so here one step takes a row through all three.   *)
(* A request works on the candles it was given: the candle that closes     *)
(* meanwhile belongs to the next request.                                  *)
(***************************************************************************)
EXTENDS SwingPoints

ASSUME MissingPriceAssumption == None \notin Int

VARIABLES
  row,       \* the rows done
  previous,  \* previous_high, previous_low
  latest,    \* latest_swing_high, latest_swing_low
  broken,    \* bullish_level_broken, bearish_level_broken
  lastBos,   \* previous_bos_direction
  structure, bos, choch  \* the columns

carried == <<row, previous, latest, broken, lastBos>>
columns == <<structure, bos, choch>>
scanVars == <<frame, carried, columns>>

-----------------------------------------------------------------------------
(* classify_market_structure *)

\* The extreme of row i becomes the value of d where that row is a swing of d.
Tracked(value, i) ==
  [d \in Dir |-> IF IsSwing(frame, d, i) THEN Extreme(d, frame[i]) ELSE value[d]]

Compared(d, i) ==
  LET higher == Extreme(d, frame[i]) > previous[d] IN
  IF d = "bullish" THEN IF higher THEN "HH" ELSE "LH" ELSE IF higher THEN "HL" ELSE "LL"

\* The cell of a row: what is written for the low replaces what is for the high.
Classified(i) ==
  LET rated(d) == IsSwing(frame, d, i) /\ previous[d] # None IN
  IF rated("bearish") THEN Compared("bearish", i)
  ELSE IF rated("bullish") THEN Compared("bullish", i) ELSE None

-----------------------------------------------------------------------------
(* detect_breaks_of_structure, detect_change_of_character *)

Passes(d, i) ==
  /\ latest[d] # None /\ ~broken[d]
  /\ Beyond(d, frame[i].close, latest[d]) >= frame[i].distance

Broke(i) ==
  IF Passes("bearish", i) THEN "bearish" ELSE IF Passes("bullish", i) THEN "bullish" ELSE None

\* Mutant of StillBroken: a level once broken counts as broken for the next swing.
StillBrokenAfterSwing(d, i) == broken[d] \/ Passes(d, i)

\* A new swing is a level nothing has broken.
StillBroken(d, i) == ~IsSwing(frame, d, i) /\ (broken[d] \/ Passes(d, i))

Changed(i) == IF Broke(i) # None /\ lastBos = Opp(Broke(i)) THEN Broke(i) ELSE None

-----------------------------------------------------------------------------
NoPrices == [d \in Dir |-> None]
Unbroken == [d \in Dir |-> FALSE]

\* The next row; a window shorter than a swing is refused.
ScanRow ==
  LET i == row + 1 IN
  /\ Len(frame) > Left + Right /\ row < Len(frame)
  /\ row' = i
  /\ structure' = Append(structure, Classified(i))
  /\ previous' = Tracked(previous, i)
  /\ bos' = Append(bos, Broke(i))
  /\ latest' = Tracked(latest, i)
  /\ broken' = [d \in Dir |-> StillBroken(d, i)]
  /\ choch' = Append(choch, Changed(i))
  /\ lastBos' = IF Broke(i) # None THEN Broke(i) ELSE lastBos
  /\ UNCHANGED frame

\* The market moves on, and the next request starts anew.
NextRequest ==
  /\ row \in {0, Len(frame)}
  /\ \E c \in Shapes : Grow(c) \/ Slide(c)
  /\ row' = 0 /\ previous' = NoPrices /\ latest' = NoPrices /\ broken' = Unbroken
  /\ lastBos' = None /\ structure' = <<>> /\ bos' = <<>> /\ choch' = <<>>

ScanInit ==
  /\ Init
  /\ row = 0 /\ previous = NoPrices /\ latest = NoPrices /\ broken = Unbroken
  /\ lastBos = None /\ structure = <<>> /\ bos = <<>> /\ choch = <<>>
ScanNext == ScanRow \/ NextRequest
ScanSpec == ScanInit /\ [][ScanNext]_scanVars

-----------------------------------------------------------------------------
ScanTypeOK ==
  /\ row \in 0..Len(frame)
  /\ previous \in [Dir -> Int \cup {None}] /\ latest \in [Dir -> Int \cup {None}]
  /\ broken \in [Dir -> BOOLEAN] /\ lastBos \in Dir \cup {None}
  /\ structure \in Seq(Labels \cup {None}) /\ Len(structure) = row
  /\ bos \in Seq(Dir \cup {None}) /\ Len(bos) = row
  /\ choch \in Seq(Dir \cup {None}) /\ Len(choch) = row

\* What a loop carries from row to row is enough: every cell it has written is
\* what SwingPoints says of the row by looking at the whole window.
ScanComputesColumns ==
  \A i \in 1..row :
    structure[i] = Label(frame, i) /\ bos[i] = Bos(frame, i) /\ choch[i] = Choch(frame, i)
=============================================================================

-------------------------- MODULE SwingPointsProofs --------------------------
(***************************************************************************)
(* What two consecutive requests say about the same candle, and that the   *)
(* loops of a request compute it, for every left_bars and right_bars,      *)
(* every window and every candle.                                          *)
(***************************************************************************)
EXTENDS LegacyScan, SequenceTheorems, TLAPS

IsFrame(f) == f \in Seq(Candle)

-----------------------------------------------------------------------------
(* Candles *)

LEMMA CandleFacts ==
  ASSUME NEW c \in Candle, NEW d \in Dir
  PROVE  /\ Extreme(d, c) \in Int /\ c.close \in Int /\ c.distance \in Nat
         /\ Beyond(d, c.close, Extreme(d, c)) <= 0
BY DEF Candle, Dir, Extreme, Beyond

LEMMA BeyondFacts ==
  ASSUME NEW d \in Dir, NEW a \in Int, NEW b \in Int, NEW c \in Int
  PROVE  /\ Beyond(d, a, b) \in Int /\ Beyond(d, a, b) = -Beyond(d, b, a)
         /\ Beyond(d, a, c) = Beyond(d, a, b) + Beyond(d, b, c)
BY DEF Beyond

LEMMA RowFacts ==
  ASSUME NEW f, IsFrame(f)
  PROVE  /\ Len(f) \in Nat
         /\ \A i \in Rows(f) : i \in Nat \ {0} /\ i <= Len(f) /\ f[i] \in Candle
         /\ \A i \in Int : i >= 1 /\ i <= Len(f) => i \in Rows(f)
BY DEF IsFrame, Rows

LEMMA OneLatest ==
  ASSUME NEW f, IsFrame(f), NEW d, NEW i \in Rows(f), NEW p \in Rows(f), NEW q \in Rows(f),
         IsLatestSwing(f, d, p, i), IsLatestSwing(f, d, q, i)
  PROVE  p = q
<1>1. p \in Nat /\ q \in Nat /\ i \in Nat
  BY RowFacts
<1>2. ~(p < q) /\ ~(q < p)
  BY <1>1 DEF IsLatestSwing
<1> QED BY <1>1, <1>2

\* A close within Right rows of a swing cannot be beyond it.
LEMMA Knowable ==
  ASSUME NEW f, IsFrame(f), NEW d \in Dir, NEW i \in Rows(f), NEW p \in Rows(f),
         Breaks(f, d, i), IsLatestSwing(f, d, p, i)
  PROVE  i > p + Right
<1>1. PICK q \in Rows(f) : IsLatestSwing(f, d, q, i) /\ Reaches(f, d, q, i)
  BY DEF Breaks
<1>2. q = p
  BY <1>1, OneLatest
<1>3. /\ p \in Nat /\ i \in Nat /\ p < i /\ IsSwing(f, d, p) /\ f[i] \in Candle /\ f[p] \in Candle
      /\ Right \in Nat /\ Left \in Nat
  BY RowFacts, BarsAssumption DEF IsLatestSwing
<1>4. ASSUME i <= p + Right PROVE FALSE
  <2>1. Beyond(d, Extreme(d, f[p]), Extreme(d, f[i])) > 0
    BY <1>3, <1>4 DEF IsSwing
  <2>2. Beyond(d, f[i].close, Extreme(d, f[p])) >= f[i].distance
    BY <1>1, <1>2 DEF Reaches
  <2>3. /\ Extreme(d, f[i]) \in Int /\ Extreme(d, f[p]) \in Int /\ f[i].close \in Int
        /\ f[i].distance \in Nat /\ Beyond(d, f[i].close, Extreme(d, f[i])) <= 0
    BY <1>3, CandleFacts
  <2>4. /\ Beyond(d, f[i].close, Extreme(d, f[p])) =
             Beyond(d, f[i].close, Extreme(d, f[i])) + Beyond(d, Extreme(d, f[i]), Extreme(d, f[p]))
        /\ Beyond(d, Extreme(d, f[i]), Extreme(d, f[p])) = -Beyond(d, Extreme(d, f[p]), Extreme(d, f[i]))
        /\ Beyond(d, f[i].close, Extreme(d, f[i])) \in Int
        /\ Beyond(d, Extreme(d, f[p]), Extreme(d, f[i])) \in Int
    <3>1. \A a, b, c \in Int :
            /\ Beyond(d, a, b) \in Int /\ Beyond(d, a, b) = -Beyond(d, b, a)
            /\ Beyond(d, a, c) = Beyond(d, a, b) + Beyond(d, b, c)
      BY BeyondFacts
    <3> QED BY <2>3, <3>1, Zenon
  <2>5. ASSUME NEW x \in Int, NEW y \in Int, NEW n \in Nat, x <= 0, y > 0, x + (-y) >= n
        PROVE  FALSE
    BY <2>5
  <2>6. Beyond(d, f[i].close, Extreme(d, f[i])) + (-Beyond(d, Extreme(d, f[p]), Extreme(d, f[i])))
          >= f[i].distance
    BY <2>2, <2>4
  <2> QED BY <2>1, <2>3, <2>4, <2>5, <2>6
<1> QED BY <1>3, <1>4

-----------------------------------------------------------------------------
(* One candle more: g is f with a candle at its end. *)

Extends(f, g) ==
  /\ IsFrame(f) /\ IsFrame(g) /\ Len(g) = Len(f) + 1
  /\ \A i \in Rows(f) : g[i] = f[i]

\* A row is a swing of both, up to the last row that could be one in f.
LEMMA SwingStays ==
  ASSUME NEW f, NEW g, Extends(f, g), NEW d, NEW i \in Rows(f), i <= Len(f) - Right
  PROVE  IsSwing(g, d, i) <=> IsSwing(f, d, i)
<1>1. /\ Len(f) \in Nat /\ Len(g) = Len(f) + 1 /\ i \in Nat /\ Left \in Nat /\ Right \in Nat
      /\ \A k \in 1..Len(f) : g[k] = f[k]
  BY RowFacts, BarsAssumption DEF Extends, Rows
<1>2. i \in (Left + 1)..(Len(f) - Right) <=> i \in (Left + 1)..(Len(g) - Right)
  BY <1>1
<1>3. i \in (Left + 1)..(Len(f) - Right) => \A j \in (i - Left)..(i + Right) : g[j] = f[j] /\ g[i] = f[i]
  BY <1>1
<1> QED BY <1>2, <1>3 DEF IsSwing

\* Later rows than the next to last confirmed one are no swings yet.
LEMMA NoLateSwing ==
  ASSUME NEW f, IsFrame(f), NEW d, NEW i \in Int, i > Len(f) - Right
  PROVE  ~IsSwing(f, d, i)
<1>1. Len(f) \in Nat /\ Right \in Nat /\ Left \in Nat
  BY RowFacts, BarsAssumption
<1> QED BY <1>1 DEF IsSwing

LEMMA LatestStays ==
  ASSUME NEW f, NEW g, Extends(f, g), NEW d, NEW p \in Rows(f), NEW i \in Rows(f),
         i <= Len(f) + 1 - Right
  PROVE  IsLatestSwing(g, d, p, i) <=> IsLatestSwing(f, d, p, i)
<1>1. Len(f) \in Nat /\ p \in Nat \ {0} /\ i \in Nat /\ Right \in Nat
  BY RowFacts, BarsAssumption DEF Extends
<1>2. p < i => (IsSwing(g, d, p) <=> IsSwing(f, d, p))
  BY <1>1, SwingStays
<1>3. \A q \in (p + 1)..(i - 1) : q \in Rows(f) /\ q <= Len(f) - Right
  BY <1>1, RowFacts DEF Extends, Rows
<1>4. \A q \in (p + 1)..(i - 1) : IsSwing(g, d, q) <=> IsSwing(f, d, q)
  BY <1>3, SwingStays
<1> QED BY <1>2, <1>4 DEF IsLatestSwing

LEMMA ReachStays ==
  ASSUME NEW f, NEW g, Extends(f, g), NEW d, NEW p \in Rows(f), NEW i \in Rows(f)
  PROVE  Reaches(g, d, p, i) <=> Reaches(f, d, p, i)
BY DEF Extends, Reaches

LEMMA BreakStays ==
  ASSUME NEW f, NEW g, Extends(f, g), NEW d, NEW i \in Rows(f), i <= Len(f) + 1 - Right
  PROVE  Breaks(g, d, i) <=> Breaks(f, d, i)
<1>1. /\ Len(f) \in Nat /\ Len(g) = Len(f) + 1 /\ i \in 1..Len(f)
  BY RowFacts DEF Extends, Rows
<1>2. ASSUME NEW p \in Nat \ {0}, p < i
      PROVE  /\ p \in Rows(f) /\ p \in Rows(g)
             /\ IsLatestSwing(g, d, p, i) <=> IsLatestSwing(f, d, p, i)
             /\ Reaches(g, d, p, i) <=> Reaches(f, d, p, i)
             /\ \A j \in (p + 1)..(i - 1) : Reaches(g, d, p, j) <=> Reaches(f, d, p, j)
  <2>1. p \in Rows(f) /\ p \in Rows(g)
    BY <1>1, <1>2 DEF Rows
  <2>2. \A j \in (p + 1)..(i - 1) : j \in Rows(f)
    BY <1>1, <1>2 DEF Rows
  <2> QED BY <2>1, <2>2, LatestStays, ReachStays
<1>3. \A p : p \in Rows(f) \/ p \in Rows(g) => p \in Nat \ {0}
  BY <1>1 DEF Rows
<1>4. \A p : IsLatestSwing(g, d, p, i) \/ IsLatestSwing(f, d, p, i) => p < i
  BY DEF IsLatestSwing
<1>5. ASSUME Breaks(g, d, i) PROVE Breaks(f, d, i)
  <2>1. PICK p \in Rows(g) : /\ IsLatestSwing(g, d, p, i) /\ Reaches(g, d, p, i)
                             /\ \A j \in (p + 1)..(i - 1) : ~Reaches(g, d, p, j)
    BY <1>5 DEF Breaks
  <2> QED BY <1>2, <1>3, <1>4, <2>1 DEF Breaks
<1>6. ASSUME Breaks(f, d, i) PROVE Breaks(g, d, i)
  <2>1. PICK p \in Rows(f) : /\ IsLatestSwing(f, d, p, i) /\ Reaches(f, d, p, i)
                             /\ \A j \in (p + 1)..(i - 1) : ~Reaches(f, d, p, j)
    BY <1>6 DEF Breaks
  <2> QED BY <1>2, <1>3, <1>4, <2>1 DEF Breaks
<1> QED BY <1>5, <1>6

LEMMA BosStays ==
  ASSUME NEW f, NEW g, Extends(f, g), NEW i \in Rows(f), i <= Len(f) + 1 - Right
  PROVE  Bos(g, i) = Bos(f, i)
BY BreakStays DEF Bos

LEMMA ChochStays ==
  ASSUME NEW f, NEW g, Extends(f, g), NEW i \in Rows(f), i <= Len(f) + 1 - Right
  PROVE  Choch(g, i) = Choch(f, i)
<1>1. /\ Len(f) \in Nat /\ Len(g) = Len(f) + 1 /\ i \in 1..Len(f) /\ Right \in Nat
  BY RowFacts, BarsAssumption DEF Extends, Rows
<1>2. \A p \in 1..i : p \in Rows(f) /\ Bos(g, p) = Bos(f, p)
  <2> TAKE p \in 1..i
  <2>1. p \in Rows(f) /\ p <= Len(f) + 1 - Right
    BY <1>1 DEF Rows
  <2> QED BY <2>1, BosStays
<1>3. \A p : (p \in Rows(f) \/ p \in Rows(g)) /\ p < i => p \in 1..i /\ p \in Rows(f) /\ p \in Rows(g)
  BY <1>1 DEF Rows
<1>4. i \in 1..i /\ \A p \in 1..i : \A q \in (p + 1)..(i - 1) : q \in 1..i
  BY <1>1
<1> DEFINE Before(h, p) == /\ p < i /\ Bos(h, p) # None /\ Bos(h, i) = Opp(Bos(h, p))
                           /\ \A q \in (p + 1)..(i - 1) : Bos(h, q) = None
<1>5. \A p \in 1..i : Before(g, p) <=> Before(f, p)
  BY <1>2, <1>4
<1>6. (\E p \in Rows(g) : Before(g, p)) <=> (\E p \in Rows(f) : Before(f, p))
  BY <1>3, <1>5
<1> QED BY <1>2, <1>4, <1>6 DEF Choch

LEMMA LabelStays ==
  ASSUME NEW f, NEW g, Extends(f, g), NEW i \in Rows(f), i <= Len(f) - Right
  PROVE  Label(g, i) = Label(f, i)
<1>1. /\ Len(f) \in Nat /\ Len(g) = Len(f) + 1 /\ i \in 1..Len(f) /\ Right \in Nat
      /\ \A k \in 1..Len(f) : g[k] = f[k]
  BY RowFacts, BarsAssumption DEF Extends, Rows
<1>2. \A p : p < i => (p \in Rows(g) <=> p \in Rows(f))
  BY <1>1 DEF Rows
<1>3. i <= Len(f) + 1 - Right
  BY <1>1
<1>4. \A d : \A p \in Rows(f) : IsLatestSwing(g, d, p, i) <=> IsLatestSwing(f, d, p, i)
  BY <1>3, LatestStays
<1>5. \A d, p : IsLatestSwing(g, d, p, i) => p < i
  BY DEF IsLatestSwing
<1>6. \A d : IsSwing(g, d, i) <=> IsSwing(f, d, i)
  BY SwingStays
<1>7. \A d : IsRated(g, d, i) <=> IsRated(f, d, i)
  BY <1>2, <1>4, <1>5, <1>6 DEF IsRated, IsLatestSwing
<1>8. \A p \in Rows(f) : g[p] = f[p]
  BY <1>1 DEF Rows
<1>9. \A d : IsHigher(g, d, i) <=> IsHigher(f, d, i)
  BY <1>2, <1>4, <1>5, <1>8 DEF IsHigher, IsLatestSwing
<1> QED BY <1>7, <1>9 DEF Label, SideLabel

\* A break of the longer window is one of the shorter: its swing had been
\* confirmed, and the shorter window knows no other swings.
LEMMA BreaksWereThere ==
  ASSUME NEW f, NEW g, Extends(f, g), NEW d \in Dir, NEW i \in Rows(f), Breaks(g, d, i)
  PROVE  Breaks(f, d, i)
<1>1. /\ Len(f) \in Nat /\ Len(g) = Len(f) + 1 /\ i \in 1..Len(f) /\ Right \in Nat
  BY RowFacts, BarsAssumption DEF Extends, Rows
<1>2. PICK p \in Rows(g) : /\ IsLatestSwing(g, d, p, i) /\ Reaches(g, d, p, i)
                           /\ \A j \in (p + 1)..(i - 1) : ~Reaches(g, d, p, j)
  BY DEF Breaks
<1>3. i > p + Right /\ p \in Nat
  BY <1>1, <1>2, Knowable DEF Extends, Rows
<1>4. p \in Rows(f) /\ p <= Len(f) - Right
  BY <1>1, <1>2, <1>3 DEF Rows
<1>5. ASSUME NEW q \in (p + 1)..(i - 1) PROVE ~IsSwing(f, d, q)
  <2>1. q \in Rows(f) /\ q \in Int
    BY <1>1, <1>3 DEF Rows
  <2>2. ~IsSwing(g, d, q)
    BY <1>2 DEF IsLatestSwing
  <2>3. CASE q <= Len(f) - Right
    BY <2>1, <2>2, <2>3, SwingStays
  <2>4. CASE q > Len(f) - Right
    BY <2>1, <2>4, NoLateSwing DEF Extends
  <2> QED BY <1>1, <2>1, <2>3, <2>4
<1>6. IsLatestSwing(f, d, p, i)
  BY <1>2, <1>4, <1>5, SwingStays DEF IsLatestSwing
<1>7. \A j \in (p + 1)..(i - 1) : j \in Rows(f)
  BY <1>1, <1>3 DEF Rows
<1> QED BY <1>2, <1>4, <1>6, <1>7, ReachStays DEF Breaks

-----------------------------------------------------------------------------
(* The window moves: g is f without its first candle, and with another last. *)

Moves(f, g) ==
  /\ IsFrame(f) /\ IsFrame(g) /\ Len(g) = Len(f)
  /\ \A i \in 1..(Len(f) - 1) : g[i] = f[i + 1]

\* A swing moves with its candle, unless it falls out at the beginning.
LEMMA SwingMoves ==
  ASSUME NEW f, NEW g, Moves(f, g), NEW d, NEW i \in Nat, NEW k \in Nat, k = i + 1,
         i > Left, k <= Len(f) - Right
  PROVE  IsSwing(g, d, i) <=> IsSwing(f, d, k)
<1>1. /\ Len(f) \in Nat /\ Len(g) = Len(f) /\ Left \in Nat /\ Right \in Nat \ {0}
      /\ \A j \in 1..(Len(f) - 1) : g[j] = f[j + 1]
  BY RowFacts, BarsAssumption DEF Moves
<1>2. i \in (Left + 1)..(Len(g) - Right) /\ k \in (Left + 1)..(Len(f) - Right)
  BY <1>1
<1>3. \A j \in (i - Left)..(i + Right) :
        g[j] = f[j + 1] /\ j + 1 \in (k - Left)..(k + Right) /\ (j # i <=> j + 1 # k)
  BY <1>1
<1>4. g[i] = f[k]
  BY <1>1
<1>5. ASSUME IsSwing(g, d, i) PROVE IsSwing(f, d, k)
  <2> SUFFICES ASSUME NEW j \in (k - Left)..(k + Right), j # k
               PROVE  Beyond(d, Extreme(d, f[k]), Extreme(d, f[j])) > 0
    BY <1>2 DEF IsSwing
  <2>1. j - 1 \in (i - Left)..(i + Right) /\ (j - 1) + 1 = j /\ j - 1 # i
    BY <1>1
  <2>2. g[j - 1] = f[j]
    BY <1>3, <2>1
  <2>3. Beyond(d, Extreme(d, g[i]), Extreme(d, g[j - 1])) > 0
    BY <1>5, <2>1 DEF IsSwing
  <2> QED BY <1>4, <2>2, <2>3
<1>6. ASSUME IsSwing(f, d, k) PROVE IsSwing(g, d, i)
  <2> SUFFICES ASSUME NEW j \in (i - Left)..(i + Right), j # i
               PROVE  Beyond(d, Extreme(d, g[i]), Extreme(d, g[j])) > 0
    BY <1>2 DEF IsSwing
  <2>1. Beyond(d, Extreme(d, f[k]), Extreme(d, f[j + 1])) > 0
    BY <1>3, <1>6 DEF IsSwing
  <2> QED BY <1>3, <1>4, <2>1
<1> QED BY <1>5, <1>6

\* The swing that a label was given by is still the one before it.
LEMMA LatestMoves ==
  ASSUME NEW f, NEW g, Moves(f, g), NEW d, NEW i \in 1..(Len(f) - 1), i < Len(f) - Right,
         NEW p \in Rows(g), IsLatestSwing(g, d, p, i)
  PROVE  /\ p + 1 \in Rows(f) /\ IsLatestSwing(f, d, p + 1, i + 1)
         /\ g[p] = f[p + 1]
<1>1. /\ Len(f) \in Nat /\ Len(g) = Len(f) /\ Left \in Nat /\ Right \in Nat
      /\ p \in Nat \ {0} /\ i \in Nat
      /\ \A k \in 1..(Len(f) - 1) : g[k] = f[k + 1]
  BY RowFacts, BarsAssumption DEF Moves, Rows
<1>2. p < i /\ IsSwing(g, d, p) /\ \A q \in (p + 1)..(i - 1) : ~IsSwing(g, d, q)
  BY DEF IsLatestSwing
<1>3. p > Left /\ p < Len(f) - Right
  BY <1>1, <1>2 DEF IsSwing
<1>4. IsSwing(f, d, p + 1)
  BY <1>1, <1>2, <1>3, SwingMoves
<1>5. ASSUME NEW q \in (p + 2)..i PROVE ~IsSwing(f, d, q)
  <2>1. q - 1 \in Nat /\ q - 1 > Left /\ q - 1 < Len(f) - Right /\ q - 1 \in (p + 1)..(i - 1)
        /\ (q - 1) + 1 = q
    BY <1>1, <1>3
  <2>2. q \in Nat /\ q = (q - 1) + 1 /\ q <= Len(f) - Right
    BY <1>1, <2>1
  <2>3. IsSwing(g, d, q - 1) <=> IsSwing(f, d, q)
    BY <2>1, <2>2, SwingMoves
  <2> QED BY <1>2, <2>1, <2>3
<1>6. (p + 1) + 1 = p + 2 /\ (i + 1) - 1 = i /\ p + 1 < i + 1
  BY <1>1, <1>2
<1>7. IsLatestSwing(f, d, p + 1, i + 1)
  BY <1>4, <1>5, <1>6 DEF IsLatestSwing
<1> QED BY <1>1, <1>2, <1>7 DEF Rows

LEMMA RatedMoves ==
  ASSUME NEW f, NEW g, Moves(f, g), NEW d, NEW i \in 1..(Len(f) - 1), i < Len(f) - Right,
         IsRated(g, d, i)
  PROVE  IsRated(f, d, i + 1) /\ SideLabel(g, d, i) = SideLabel(f, d, i + 1)
<1>1. /\ Len(f) \in Nat /\ Len(g) = Len(f) /\ Left \in Nat /\ Right \in Nat /\ i \in Nat
      /\ \A k \in 1..(Len(f) - 1) : g[k] = f[k + 1]
      /\ i \in Rows(g) /\ i + 1 \in Rows(f) /\ IsFrame(f) /\ IsFrame(g)
  BY RowFacts, BarsAssumption DEF Moves, Rows
<1>2. PICK p \in Rows(g) : IsLatestSwing(g, d, p, i)
  BY DEF IsRated
<1>3. /\ p + 1 \in Rows(f) /\ IsLatestSwing(f, d, p + 1, i + 1) /\ g[p] = f[p + 1]
  BY <1>2, LatestMoves
<1>4. i > Left /\ IsSwing(g, d, i)
  BY <1>1 DEF IsRated, IsSwing
<1>5. IsRated(f, d, i + 1)
  BY <1>1, <1>3, <1>4, SwingMoves DEF IsRated
<1>6. \A q \in Rows(g) : IsLatestSwing(g, d, q, i) => q = p
  BY <1>1, <1>2, OneLatest
<1>7. \A q \in Rows(f) : IsLatestSwing(f, d, q, i + 1) => q = p + 1
  BY <1>1, <1>3, OneLatest
<1>8. g[i] = f[i + 1]
  BY <1>1
<1>9. IsHigher(g, d, i) <=> IsHigher(f, d, i + 1)
  BY <1>2, <1>3, <1>6, <1>7, <1>8 DEF IsHigher
<1> QED BY <1>5, <1>9 DEF SideLabel

LEMMA LabelMoves ==
  ASSUME NEW f, NEW g, Moves(f, g), NEW i \in 1..(Len(f) - 1), i < Len(f) - Right
  PROVE  \/ Label(g, i) \in {Label(f, i + 1), None}
         \/ IsSwing(f, "bullish", i + 1) /\ IsSwing(f, "bearish", i + 1)
<1>1. \A d : IsRated(g, d, i) =>
        IsRated(f, d, i + 1) /\ SideLabel(g, d, i) = SideLabel(f, d, i + 1)
  BY RatedMoves
<1>2. \A d : IsRated(f, d, i + 1) => IsSwing(f, d, i + 1)
  BY DEF IsRated
<1> QED BY <1>1, <1>2 DEF Label

-----------------------------------------------------------------------------
(* The window of the requests *)

LEMMA FrameOfType == TypeOK => IsFrame(frame)
BY ShapesAssumption DEF TypeOK, IsFrame

LEMMA Grown ==
  ASSUME TypeOK, NEW c \in Shapes, Grow(c)
  PROVE  frame' \in Seq(Shapes) /\ Len(frame') <= Window /\ Extends(frame, frame')
<1>1. frame \in Seq(Shapes) /\ frame' = Append(frame, c) /\ Len(frame) < Window
  BY DEF TypeOK, Grow
<1>2. /\ frame' \in Seq(Shapes) /\ Len(frame') = Len(frame) + 1
      /\ \A i \in 1..Len(frame) : frame'[i] = frame[i]
  BY <1>1, AppendProperties
<1>3. Len(frame) + 1 <= Window
  BY <1>1, WindowAssumption
<1>4. IsFrame(frame) /\ IsFrame(frame')
  BY <1>1, <1>2, ShapesAssumption DEF IsFrame
<1> QED BY <1>2, <1>3, <1>4 DEF Extends, Rows

LEMMA Slid ==
  ASSUME TypeOK, NEW c \in Shapes, Slide(c)
  PROVE  /\ frame' \in Seq(Shapes) /\ Len(frame') <= Window /\ Moves(frame, frame')
         /\ Len(frame) = Window
<1>1. frame \in Seq(Shapes) /\ Len(frame) = Window /\ frame' = Append(Tail(frame), c)
  BY DEF TypeOK, Slide
<1>2. frame # <<>> /\ Window \in Nat /\ Window > 0
  BY <1>1, WindowAssumption, BarsAssumption
<1>3. /\ Tail(frame) \in Seq(Shapes) /\ Len(Tail(frame)) = Len(frame) - 1
      /\ \A i \in 1..Len(Tail(frame)) : Tail(frame)[i] = frame[i + 1]
  BY <1>1, <1>2, HeadTailProperties
<1>4. /\ frame' \in Seq(Shapes) /\ Len(frame') = Len(Tail(frame)) + 1
      /\ \A i \in 1..Len(Tail(frame)) : frame'[i] = Tail(frame)[i]
  BY <1>1, <1>3, AppendProperties
<1>5. Len(frame') = Len(frame) /\ \A i \in 1..(Len(frame) - 1) : frame'[i] = frame[i + 1]
  BY <1>1, <1>2, <1>3, <1>4
<1>6. IsFrame(frame) /\ IsFrame(frame')
  BY <1>1, <1>4, ShapesAssumption DEF IsFrame
<1> QED BY <1>1, <1>2, <1>4, <1>5, <1>6 DEF Moves

LEMMA TypeStep == TypeOK /\ [Next]_frame => TypeOK'
BY Grown, Slid DEF TypeOK, Next

\* The window holds closed candles, and never more than were asked for.
THEOREM TypeCorrect == Spec => []TypeOK
<1>1. Init => TypeOK
  BY WindowAssumption, BarsAssumption DEF Init, TypeOK
<1> QED BY <1>1, TypeStep, PTL DEF Spec

\* No break is dated before its swing could have been seen.
THEOREM BreaksKnowable == Spec => []BreaksAreKnowable
<1>1. TypeOK => BreaksAreKnowable
  BY FrameOfType, Knowable DEF BreaksAreKnowable
<1> QED BY <1>1, TypeCorrect, PTL

\* What is Right - 1 rows old is reported alike by every longer window.
THEOREM ConfirmedStays == Spec => ConfirmedIsFinal
<1> DEFINE Keeps ==
      Len(frame) < Window =>
        \A i \in Rows(frame) : i <= Len(frame) + 1 - Right =>
          /\ Bos(frame', i) = Bos(frame, i) /\ Choch(frame', i) = Choch(frame, i)
          /\ i <= Len(frame) - Right => Label(frame', i) = Label(frame, i)
<1>1. TypeOK /\ [Next]_frame => [Keeps]_frame
  <2> SUFFICES ASSUME TypeOK, NEW c \in Shapes, Grow(c) \/ Slide(c), Len(frame) < Window
               PROVE  Keeps
    BY DEF Next
  <2>1. Extends(frame, frame')
    BY Grown, Slid, WindowAssumption
  <2> QED BY <2>1, BosStays, ChochStays, LabelStays
<1> HIDE DEF Keeps
<1>2. Spec => [][Keeps]_frame
  BY <1>1, TypeCorrect, PTL DEF Spec
<1> QED BY <1>2 DEF Keeps, ConfirmedIsFinal

\* No break appears on a row that has been reported without it.
THEOREM TailLoses == Spec => TailOnlyLoses
<1> DEFINE Keeps ==
      Len(frame) < Window =>
        \A d \in Dir : \A i \in Rows(frame) : Breaks(frame', d, i) => Breaks(frame, d, i)
<1>1. TypeOK /\ [Next]_frame => [Keeps]_frame
  <2> SUFFICES ASSUME TypeOK, NEW c \in Shapes, Grow(c) \/ Slide(c), Len(frame) < Window
               PROVE  Keeps
    BY DEF Next
  <2>1. Extends(frame, frame')
    BY Grown, Slid, WindowAssumption
  <2> QED BY <2>1, BreaksWereThere
<1> HIDE DEF Keeps
<1>2. Spec => [][Keeps]_frame
  BY <1>1, TypeCorrect, PTL DEF Spec
<1> QED BY <1>2 DEF Keeps, TailOnlyLoses

\* A settled label is forgotten when the window moves on, never changed, unless
\* its candle is a swing on both sides.
THEOREM LabelsForget == Spec => LabelsOnlyForget
<1> DEFINE Keeps ==
      Len(frame) = Window =>
        \A i \in 2..(Window - Right) :
          \/ Label(frame', i - 1) \in {Label(frame, i), None}
          \/ IsSwing(frame, "bullish", i) /\ IsSwing(frame, "bearish", i)
<1>1. TypeOK /\ [Next]_frame => [Keeps]_frame
  <2> SUFFICES ASSUME TypeOK, NEW c \in Shapes, Grow(c) \/ Slide(c), Len(frame) = Window,
                      NEW i \in 2..(Window - Right)
               PROVE  \/ Label(frame', i - 1) \in {Label(frame, i), None}
                      \/ IsSwing(frame, "bullish", i) /\ IsSwing(frame, "bearish", i)
    BY DEF Next
  <2>1. Moves(frame, frame') /\ Len(frame) = Window
    BY Slid, WindowAssumption DEF Grow
  <2>2. i - 1 \in 1..(Len(frame) - 1) /\ i - 1 < Len(frame) - Right /\ (i - 1) + 1 = i
    BY WindowAssumption, BarsAssumption
  <2>3. \/ Label(frame', i - 1) \in {Label(frame, (i - 1) + 1), None}
        \/ IsSwing(frame, "bullish", (i - 1) + 1) /\ IsSwing(frame, "bearish", (i - 1) + 1)
    BY <2>1, <2>2, LabelMoves
  <2> QED BY <2>2, <2>3
<1> HIDE DEF Keeps
<1>2. Spec => [][Keeps]_frame
  BY <1>1, TypeCorrect, PTL DEF Spec
<1> QED BY <1>2 DEF Keeps, LabelsOnlyForget

-----------------------------------------------------------------------------
(* The loops of a request *)

\* The requests of ScanSpec see the windows of Spec.
THEOREM ScanRefines == ScanSpec => Spec
<1>1. ScanInit => Init
  BY DEF ScanInit
<1>2. [ScanNext]_scanVars => [Next]_frame
  BY DEF ScanNext, ScanRow, NextRequest, Next, scanVars
<1> QED BY <1>1, <1>2, PTL DEF ScanSpec, Spec

\* What a loop knows after n rows: x is the price of the latest swing of d.
Carries(x, d, n) ==
  IF x = None THEN \A q \in 1..n : ~IsSwing(frame, d, q)
  ELSE \E p \in 1..n : IsLatestSwing(frame, d, p, n + 1) /\ x = Extreme(d, frame[p])
PassedSince(d, n) ==
  \E p \in 1..n : IsLatestSwing(frame, d, p, n + 1) /\ \E j \in (p + 1)..n : Reaches(frame, d, p, j)
LastBosIs(x, n) ==
  IF x = None THEN \A q \in 1..n : Bos(frame, q) = None
  ELSE \E p \in 1..n : Bos(frame, p) = x /\ \A q \in (p + 1)..n : Bos(frame, q) = None

Carried(n) ==
  /\ \A d \in Dir : Carries(previous[d], d, n) /\ Carries(latest[d], d, n)
  /\ \A d \in Dir : broken[d] <=> PassedSince(d, n)
  /\ LastBosIs(lastBos, n)

\* One latest swing precedes a row.
LEMMA SameLatest ==
  ASSUME NEW d, NEW n \in Nat, NEW p \in 1..n, NEW q \in 1..n,
         IsLatestSwing(frame, d, p, n + 1), IsLatestSwing(frame, d, q, n + 1)
  PROVE  p = q
<1>1. ~(p < q) /\ ~(q < p)
  BY DEF IsLatestSwing
<1> QED BY <1>1

\* A row that is a swing is the latest one for the next row; another leaves it.
LEMMA LatestAfterRow ==
  ASSUME NEW d, NEW n \in Nat
  PROVE  /\ IsSwing(frame, d, n + 1) => IsLatestSwing(frame, d, n + 1, n + 2)
         /\ ~IsSwing(frame, d, n + 1) =>
              \A p \in 1..n : IsLatestSwing(frame, d, p, n + 1) <=> IsLatestSwing(frame, d, p, n + 2)
<1>1. ASSUME ~IsSwing(frame, d, n + 1), NEW p \in 1..n
      PROVE  IsLatestSwing(frame, d, p, n + 1) <=> IsLatestSwing(frame, d, p, n + 2)
  <2>1. (p + 1)..(n + 2 - 1) = ((p + 1)..(n + 1 - 1)) \cup {n + 1} /\ p < n + 1 /\ p < n + 2
    OBVIOUS
  <2> QED BY <1>1, <2>1 DEF IsLatestSwing
<1>2. IsSwing(frame, d, n + 1) => IsLatestSwing(frame, d, n + 1, n + 2)
  BY DEF IsLatestSwing
<1> QED BY <1>1, <1>2

\* Tracking carries the latest swing over a row.
LEMMA TrackedCarries ==
  ASSUME IsFrame(frame), NEW n \in Nat, n + 1 \in Rows(frame), NEW d \in Dir,
         NEW value, value \in [Dir -> Int \cup {None}], Carries(value[d], d, n)
  PROVE  Carries(Tracked(value, n + 1)[d], d, n + 1)
<1> DEFINE x == Tracked(value, n + 1)[d]
<1>1. x = IF IsSwing(frame, d, n + 1) THEN Extreme(d, frame[n + 1]) ELSE value[d]
  BY DEF Tracked
<1>2. n + 1 + 1 = n + 2 /\ 1..(n + 1) = (1..n) \cup {n + 1} /\ n + 1 \in 1..(n + 1)
  OBVIOUS
<1>3. CASE IsSwing(frame, d, n + 1)
  <2>1. x \in Int /\ x # None
    BY <1>1, <1>3, RowFacts, CandleFacts, MissingPriceAssumption
  <2> QED BY <1>1, <1>2, <1>3, <2>1, LatestAfterRow DEF Carries
<1>4. CASE ~IsSwing(frame, d, n + 1)
  <2>1. CASE value[d] = None
    BY <1>1, <1>2, <1>4, <2>1 DEF Carries
  <2>2. CASE value[d] # None
    <3>1. PICK p \in 1..n : IsLatestSwing(frame, d, p, n + 1) /\ value[d] = Extreme(d, frame[p])
      BY <2>2 DEF Carries
    <3>2. IsLatestSwing(frame, d, p, n + 2) /\ p \in 1..(n + 1)
      BY <1>4, <3>1, LatestAfterRow
    <3> QED BY <1>1, <1>2, <1>4, <2>2, <3>1, <3>2 DEF Carries
  <2> QED BY <2>1, <2>2
<1> QED BY <1>3, <1>4

\* Comparing with the carried price is comparing with the latest swing.
LEMMA ComparedWithLatest ==
  ASSUME IsFrame(frame), NEW n \in Nat, n + 1 \in Rows(frame), NEW d \in Dir, NEW x,
         Carries(x, d, n)
  PROVE  /\ IsRated(frame, d, n + 1) <=> IsSwing(frame, d, n + 1) /\ x # None
         /\ x # None => (IsHigher(frame, d, n + 1) <=> Extreme(d, frame[n + 1]) > x)
<1>1. \A p \in 1..n : p \in Rows(frame)
  BY RowFacts
<1>2. \A p \in Rows(frame) : IsLatestSwing(frame, d, p, n + 1) => p \in 1..n
  BY RowFacts DEF IsLatestSwing
<1>3. CASE x = None
  <2>1. \A p \in Rows(frame) : ~IsLatestSwing(frame, d, p, n + 1)
    BY <1>2, <1>3 DEF Carries, IsLatestSwing
  <2> QED BY <1>3, <2>1 DEF IsRated
<1>4. CASE x # None
  <2>1. PICK p \in 1..n : IsLatestSwing(frame, d, p, n + 1) /\ x = Extreme(d, frame[p])
    BY <1>4 DEF Carries
  <2>2. \A q \in Rows(frame) : IsLatestSwing(frame, d, q, n + 1) => q = p
    BY <1>2, <2>1, SameLatest
  <2>3. IsHigher(frame, d, n + 1) <=> Extreme(d, frame[n + 1]) > x
    BY <1>1, <2>1, <2>2 DEF IsHigher
  <2> QED BY <1>1, <1>4, <2>1, <2>3 DEF IsRated
<1> QED BY <1>3, <1>4

LEMMA LabelWritten ==
  ASSUME IsFrame(frame), NEW n \in Nat, n + 1 \in Rows(frame),
         \A d \in Dir : Carries(previous[d], d, n)
  PROVE  Classified(n + 1) = Label(frame, n + 1)
<1>1. "bullish" \in Dir /\ "bearish" \in Dir
  BY DEF Dir
<1>2. ASSUME NEW d \in Dir
      PROVE  /\ IsRated(frame, d, n + 1) <=> IsSwing(frame, d, n + 1) /\ previous[d] # None
             /\ previous[d] # None => Compared(d, n + 1) = SideLabel(frame, d, n + 1)
  <2>1. /\ IsRated(frame, d, n + 1) <=> IsSwing(frame, d, n + 1) /\ previous[d] # None
        /\ previous[d] # None =>
             (IsHigher(frame, d, n + 1) <=> Extreme(d, frame[n + 1]) > previous[d])
    BY ComparedWithLatest
  <2> QED BY <2>1 DEF Compared, SideLabel, Dir
<1> QED BY <1>1, <1>2 DEF Classified, Label

\* A level that nothing has passed since it was formed is passed at this row
\* exactly when the row is the first to do it.
LEMMA FirstToPass ==
  ASSUME IsFrame(frame), NEW n \in Nat, n + 1 \in Rows(frame), NEW d \in Dir,
         Carries(latest[d], d, n), broken[d] <=> PassedSince(d, n)
  PROVE  Passes(d, n + 1) <=> Breaks(frame, d, n + 1)
<1>1. \A p \in 1..n : p \in Rows(frame)
  BY RowFacts
<1>2. \A p \in Rows(frame) : IsLatestSwing(frame, d, p, n + 1) => p \in 1..n
  BY RowFacts DEF IsLatestSwing
<1>3. CASE latest[d] = None
  <2>1. \A p \in Rows(frame) : ~IsLatestSwing(frame, d, p, n + 1)
    BY <1>2, <1>3 DEF Carries, IsLatestSwing
  <2> QED BY <1>3, <2>1 DEF Breaks, Passes
<1>4. CASE latest[d] # None
  <2>1. PICK p \in 1..n : IsLatestSwing(frame, d, p, n + 1) /\ latest[d] = Extreme(d, frame[p])
    BY <1>4 DEF Carries
  <2>2. \A q \in Rows(frame) : IsLatestSwing(frame, d, q, n + 1) => q = p
    BY <1>2, <2>1, SameLatest
  <2>3. broken[d] <=> \E j \in (p + 1)..n : Reaches(frame, d, p, j)
    BY <1>1, <2>1, <2>2 DEF PassedSince
  <2>4. Breaks(frame, d, n + 1) <=> /\ Reaches(frame, d, p, n + 1)
                                    /\ \A j \in (p + 1)..n : ~Reaches(frame, d, p, j)
    <3>1. (p + 1)..(n + 1 - 1) = (p + 1)..n
      OBVIOUS
    <3> QED BY <1>1, <2>1, <2>2, <3>1 DEF Breaks
  <2>5. Reaches(frame, d, p, n + 1) <=> Beyond(d, frame[n + 1].close, latest[d]) >= frame[n + 1].distance
    BY <2>1 DEF Reaches
  <2> QED BY <1>4, <2>3, <2>4, <2>5 DEF Passes
<1> QED BY <1>3, <1>4

LEMMA PassedCarries ==
  ASSUME IsFrame(frame), NEW n \in Nat, n + 1 \in Rows(frame), NEW d \in Dir,
         Carries(latest[d], d, n), broken[d] <=> PassedSince(d, n)
  PROVE  StillBroken(d, n + 1) <=> PassedSince(d, n + 1)
<1>1. 1..(n + 1) = (1..n) \cup {n + 1} /\ n + 1 + 1 = n + 2
  OBVIOUS
<1>2. CASE IsSwing(frame, d, n + 1)
  <2>1. \A p \in 1..(n + 1) : IsLatestSwing(frame, d, p, n + 2) => p = n + 1
    <3>1. \A p \in 1..(n + 1) : p # n + 1 => n + 1 \in (p + 1)..(n + 2 - 1)
      OBVIOUS
    <3> QED BY <1>2, <3>1 DEF IsLatestSwing
  <2>2. (n + 1 + 1)..(n + 1) = {}
    OBVIOUS
  <2>3. ~PassedSince(d, n + 1)
    BY <1>1, <2>1, <2>2 DEF PassedSince
  <2> QED BY <1>2, <2>3 DEF StillBroken
<1>3. CASE ~IsSwing(frame, d, n + 1)
  <2>1. \A p \in 1..(n + 1) : IsLatestSwing(frame, d, p, n + 2) => p \in 1..n
    BY <1>1, <1>3 DEF IsLatestSwing
  <2>2. \A p \in 1..n : IsLatestSwing(frame, d, p, n + 1) <=> IsLatestSwing(frame, d, p, n + 2)
    BY <1>3, LatestAfterRow
  <2>3. \A p \in 1..n : (p + 1)..(n + 1) = ((p + 1)..n) \cup {n + 1}
    OBVIOUS
  <2>4. PassedSince(d, n + 1) <=>
          \E p \in 1..n : /\ IsLatestSwing(frame, d, p, n + 1)
                          /\ \/ \E j \in (p + 1)..n : Reaches(frame, d, p, j)
                             \/ Reaches(frame, d, p, n + 1)
    BY <1>1, <2>1, <2>2, <2>3 DEF PassedSince
  <2>5. latest[d] = None => ~PassedSince(d, n) /\ ~PassedSince(d, n + 1)
    BY <2>4 DEF Carries, PassedSince, IsLatestSwing
  <2>6. ASSUME latest[d] # None
        PROVE  PassedSince(d, n + 1) <=>
                 PassedSince(d, n) \/ Beyond(d, frame[n + 1].close, latest[d]) >= frame[n + 1].distance
    <3>1. PICK p \in 1..n : IsLatestSwing(frame, d, p, n + 1) /\ latest[d] = Extreme(d, frame[p])
      BY <2>6 DEF Carries
    <3>2. \A q \in 1..n : IsLatestSwing(frame, d, q, n + 1) => q = p
      BY <3>1, SameLatest
    <3>3. Reaches(frame, d, p, n + 1) <=> Beyond(d, frame[n + 1].close, latest[d]) >= frame[n + 1].distance
      BY <3>1 DEF Reaches
    <3> QED BY <2>4, <3>1, <3>2, <3>3 DEF PassedSince
  <2> QED BY <1>3, <2>5, <2>6 DEF StillBroken, Passes
<1> QED BY <1>2, <1>3

LEMMA BosWritten ==
  ASSUME \A d \in Dir, i \in Rows(frame) : i = row + 1 => (Passes(d, i) <=> Breaks(frame, d, i)),
         row + 1 \in Rows(frame)
  PROVE  Broke(row + 1) = Bos(frame, row + 1)
BY DEF Broke, Bos, Dir

LEMMA ChochWritten ==
  ASSUME IsFrame(frame), NEW n \in Nat, n + 1 \in Rows(frame), LastBosIs(lastBos, n),
         lastBos \in Dir \cup {None}, Broke(n + 1) = Bos(frame, n + 1)
  PROVE  Changed(n + 1) = Choch(frame, n + 1)
<1> DEFINE b == Bos(frame, n + 1)
           Turns == \E p \in Rows(frame) :
                      /\ p < n + 1 /\ Bos(frame, p) # None /\ b = Opp(Bos(frame, p))
                      /\ \A q \in (p + 1)..(n + 1 - 1) : Bos(frame, q) = None
<1>1. \A i : Bos(frame, i) \in Dir \cup {None}
  BY DEF Bos, Dir
<1>2. \A x, y \in Dir : x = Opp(y) <=> y = Opp(x)
  BY DEF Dir, Opp
<1>3. \A p \in Rows(frame) : p < n + 1 => p \in 1..n
  BY RowFacts
<1>4. \A p \in 1..n : p \in Rows(frame) /\ p < n + 1 /\ (p + 1)..(n + 1 - 1) = (p + 1)..n
  BY RowFacts
<1>5. CASE b = None
  BY <1>5 DEF Choch, Changed
<1>6. CASE b # None
  <2>1. CASE lastBos = None
    <3>1. ~Turns
      BY <1>3, <2>1 DEF LastBosIs
    <3>2. Opp(b) # None
      BY <1>1, <1>6, NoneAssumption DEF Opp, Dir
    <3> QED BY <1>6, <2>1, <3>1, <3>2 DEF Choch, Changed
  <2>2. CASE lastBos # None
    <3>1. PICK p \in 1..n : Bos(frame, p) = lastBos /\ \A q \in (p + 1)..n : Bos(frame, q) = None
      BY <2>2 DEF LastBosIs
    <3>2. ASSUME NEW q \in 1..n, Bos(frame, q) # None, \A r \in (q + 1)..n : Bos(frame, r) = None
          PROVE  q = p
      <4>1. ~(p < q) /\ ~(q < p)
        BY <2>2, <3>1, <3>2
      <4> QED BY <4>1
    <3>3. Turns <=> b = Opp(lastBos)
      BY <1>3, <1>4, <2>2, <3>1, <3>2
    <3>4. b = Opp(lastBos) <=> lastBos = Opp(b)
      BY <1>1, <1>2, <1>6, <2>2
    <3> QED BY <1>6, <3>3, <3>4 DEF Choch, Changed
  <2> QED BY <2>1, <2>2
<1> QED BY <1>5, <1>6

LEMMA LastBosCarries ==
  ASSUME NEW n \in Nat, NEW x, LastBosIs(x, n), NEW y,
         y = IF Bos(frame, n + 1) # None THEN Bos(frame, n + 1) ELSE x
  PROVE  LastBosIs(y, n + 1)
<1>1. 1..(n + 1) = (1..n) \cup {n + 1} /\ n + 1 \in 1..(n + 1) /\ (n + 1 + 1)..(n + 1) = {}
  OBVIOUS
<1>2. \A p \in 1..n : (p + 1)..(n + 1) = ((p + 1)..n) \cup {n + 1}
  OBVIOUS
<1>3. CASE Bos(frame, n + 1) # None
  BY <1>1, <1>3 DEF LastBosIs
<1>4. CASE Bos(frame, n + 1) = None
  <2>1. CASE x = None
    BY <1>1, <1>4, <2>1 DEF LastBosIs
  <2>2. CASE x # None
    BY <1>1, <1>2, <1>4, <2>2 DEF LastBosIs
  <2> QED BY <2>1, <2>2
<1> QED BY <1>3, <1>4

\* The invariant of a request: types, what the loops carry, what they wrote.
ScanInv == TypeOK /\ ScanTypeOK /\ Carried(row) /\ ScanComputesColumns

LEMMA ScanRowKeeps == ASSUME ScanInv, ScanRow PROVE ScanInv'
<1> DEFINE i == row + 1
<1>1. /\ IsFrame(frame) /\ row \in Nat /\ i \in Rows(frame) /\ i \in 0..Len(frame) /\ i \in Nat
      /\ frame' = frame /\ row' = i
  BY FrameOfType, RowFacts DEF ScanInv, ScanTypeOK, ScanRow
<1>2. /\ \A d \in Dir : Carries(previous[d], d, row) /\ Carries(latest[d], d, row)
      /\ \A d \in Dir : broken[d] <=> PassedSince(d, row)
      /\ LastBosIs(lastBos, row)
      /\ previous \in [Dir -> Int \cup {None}] /\ latest \in [Dir -> Int \cup {None}]
      /\ broken \in [Dir -> BOOLEAN] /\ lastBos \in Dir \cup {None}
  BY DEF ScanInv, ScanTypeOK, Carried
<1>3. Classified(i) = Label(frame, i)
  BY <1>1, <1>2, LabelWritten
<1>4. \A d \in Dir : Passes(d, i) <=> Breaks(frame, d, i)
  BY <1>1, <1>2, FirstToPass
<1>5. Broke(i) = Bos(frame, i)
  BY <1>1, <1>4, BosWritten
<1>6. Changed(i) = Choch(frame, i)
  BY <1>1, <1>2, <1>5, ChochWritten
<1>7. \A d \in Dir : Carries(previous'[d], d, i) /\ Carries(latest'[d], d, i)
  BY <1>1, <1>2, TrackedCarries DEF ScanRow
<1>8. \A d \in Dir : broken'[d] <=> PassedSince(d, i)
  BY <1>1, <1>2, PassedCarries DEF ScanRow
<1>9. LastBosIs(lastBos', i)
  BY <1>1, <1>2, <1>5, LastBosCarries DEF ScanRow
<1>10. Carried(row)'
  BY <1>1, <1>7, <1>8, <1>9 DEF Carried, Carries, PassedSince, LastBosIs, IsLatestSwing,
     IsSwing, Reaches, Bos, Breaks, Rows
<1>11. ScanTypeOK'
  <2>1. \A d \in Dir : Extreme(d, frame[i]) \in Int
    BY <1>1, RowFacts, CandleFacts
  <2>2. previous' \in [Dir -> Int \cup {None}] /\ latest' \in [Dir -> Int \cup {None}]
    BY <1>2, <2>1 DEF ScanRow, Tracked
  <2>3. broken' \in [Dir -> BOOLEAN]
    BY DEF ScanRow, StillBroken
  <2>4. lastBos' \in Dir \cup {None}
    BY <1>2 DEF ScanRow, Broke, Dir
  <2>5. Classified(i) \in Labels \cup {None} /\ Broke(i) \in Dir \cup {None}
        /\ Changed(i) \in Dir \cup {None}
    BY DEF Classified, Compared, Labels, Broke, Changed, Dir
  <2>6. /\ structure' \in Seq(Labels \cup {None}) /\ Len(structure') = i
        /\ bos' \in Seq(Dir \cup {None}) /\ Len(bos') = i
        /\ choch' \in Seq(Dir \cup {None}) /\ Len(choch') = i
    BY <2>5 DEF ScanRow, ScanInv, ScanTypeOK
  <2> QED BY <1>1, <2>2, <2>3, <2>4, <2>6 DEF ScanTypeOK
<1>12. ScanComputesColumns'
  <2> SUFFICES ASSUME NEW k \in 1..i
               PROVE  /\ structure'[k] = Label(frame, k) /\ bos'[k] = Bos(frame, k)
                      /\ choch'[k] = Choch(frame, k)
    BY <1>1 DEF ScanComputesColumns
  <2>1. CASE k = i
    BY <1>1, <1>3, <1>5, <1>6, <2>1 DEF ScanRow, ScanInv, ScanTypeOK
  <2>2. CASE k # i
    <3>1. k \in 1..row
      BY <1>1, <2>2
    <3>2. structure'[k] = structure[k] /\ bos'[k] = bos[k] /\ choch'[k] = choch[k]
      BY <1>1, <3>1 DEF ScanRow, ScanInv, ScanTypeOK
    <3> QED BY <3>1, <3>2 DEF ScanInv, ScanComputesColumns
  <2> QED BY <2>1, <2>2
<1>13. TypeOK'
  BY <1>1 DEF ScanInv, TypeOK
<1> QED BY <1>10, <1>11, <1>12, <1>13 DEF ScanInv

\* Before its first row a loop has written nothing and carries nothing.
LEMMA NothingDone ==
  ASSUME row = 0, previous = NoPrices, latest = NoPrices, broken = Unbroken, lastBos = None,
         structure = <<>>, bos = <<>>, choch = <<>>, TypeOK
  PROVE  ScanInv
<1>1. Len(frame) \in Nat
  BY FrameOfType, RowFacts
<1>2. ScanTypeOK
  BY <1>1 DEF ScanTypeOK, NoPrices, Unbroken
<1>3. Carried(row) /\ ScanComputesColumns
  BY DEF Carried, Carries, PassedSince, LastBosIs, NoPrices, Unbroken, ScanComputesColumns
<1> QED BY <1>2, <1>3 DEF ScanInv

LEMMA NextRequestKeeps == ASSUME ScanInv, NextRequest PROVE ScanInv'
<1>1. TypeOK'
  BY TypeStep DEF NextRequest, Next, ScanInv
<1>2. /\ row' = 0 /\ previous' = NoPrices /\ latest' = NoPrices /\ broken' = Unbroken
      /\ lastBos' = None /\ structure' = <<>> /\ bos' = <<>> /\ choch' = <<>>
  BY DEF NextRequest
<1>3. Len(frame') \in Nat
  BY <1>1, FrameOfType, RowFacts DEF TypeOK
<1>4. ScanTypeOK'
  BY <1>2, <1>3 DEF ScanTypeOK, NoPrices, Unbroken
<1>5. (Carried(row) /\ ScanComputesColumns)'
  BY <1>2 DEF Carried, Carries, PassedSince, LastBosIs, NoPrices, Unbroken, ScanComputesColumns
<1> QED BY <1>1, <1>4, <1>5 DEF ScanInv

\* Between any two rows of a request the loops carry what SwingPoints says of
\* the rows done: the latest swings, which of them is broken, the last BOS.
THEOREM ScanInvariance == ScanSpec => []ScanInv
<1>1. ScanInit => ScanInv
  <2> SUFFICES ASSUME ScanInit PROVE ScanInv
    OBVIOUS
  <2>1. TypeOK
    BY WindowAssumption, BarsAssumption DEF ScanInit, Init, TypeOK
  <2> QED BY <2>1, NothingDone DEF ScanInit
<1>2. ScanInv /\ [ScanNext]_scanVars => ScanInv'
  <2> SUFFICES ASSUME ScanInv, [ScanNext]_scanVars PROVE ScanInv'
    OBVIOUS
  <2>1. CASE UNCHANGED scanVars
    BY <2>1 DEF scanVars, carried, columns, ScanInv, TypeOK, ScanTypeOK, Carried, Carries,
       PassedSince, LastBosIs, ScanComputesColumns
  <2> QED BY <2>1, ScanRowKeeps, NextRequestKeeps DEF ScanNext
<1> QED BY <1>1, <1>2, PTL DEF ScanSpec

\* The columns the loops of market_structure.py write are the ones SwingPoints
\* defines by looking at the whole window.
THEOREM ColumnsComputed == ScanSpec => []ScanComputesColumns
<1>1. ScanInv => ScanComputesColumns
  BY DEF ScanInv
<1> QED BY <1>1, ScanInvariance, PTL
=============================================================================

------------------------- MODULE ReversalSetupProofs -------------------------
(***************************************************************************)
(* The order block lifecycle and what the strategy reads off it, for       *)
(* frames of every length, every lookback, age limit and choice of source  *)
(* events.                                                                 *)
(***************************************************************************)
EXTENDS ReversalSetup, WellFoundedInduction, TLAPS

-----------------------------------------------------------------------------
(* The trend cycle: what a row of each kind does to it. *)

CycleOK ==
  /\ phase = "undecided" <=> dir = "neutral"
  /\ phase \in {"shifting", "armed"} <=> origin # None
  /\ origin # None => origin < at

\* The trend is the one before, or the first.
SameTrend == dir' \in Dir /\ (dir' = dir \/ phase = "undecided")

RowBos == /\ event' = "BOS" /\ heading' = dir' /\ cited' = None /\ SameTrend
          /\ origin = None /\ origin' = None /\ phase' = "trending"
RowMss == /\ event' = "MSS" /\ heading' = Opp(dir') /\ cited' = None /\ SameTrend
          /\ origin = None /\ origin' = at /\ phase' = "shifting"
RowChoch == /\ event' = "CHoCH" /\ heading' = dir' /\ cited' = None
            /\ dir \in Dir /\ dir' = Opp(dir)
            /\ origin \in Nat /\ origin' = None /\ phase' = "trending"
RowInvalidated == /\ event' = "MSS_INVALIDATED" /\ heading' = dir /\ cited' = origin
                  /\ dir \in Dir /\ dir' = dir
                  /\ origin \in Nat /\ origin' = None /\ phase' = "trending"
RowQuiet == /\ event' = None /\ heading' = None /\ cited' = None /\ origin' = origin
            /\ (phase' = "trending" <=> phase = "trending") \/ phase = "undecided"
            /\ SameTrend \/ dir' = dir

LEMMA Opposite == \A d \in Dir : Opp(d) \in Dir /\ Opp(Opp(d)) = d /\ Opp(d) # d
BY DEF Dir, Opp

LEMMA RowKinds ==
  ASSUME TypeOK, CycleOK, Cycle!Next
  PROVE  /\ at' = at + 1 /\ at \in Nat /\ phase' \in Cycle!Phases
         /\ dir' \in Dir \cup {"neutral"}
         /\ CycleOK'
         /\ RowBos \/ RowMss \/ RowChoch \/ RowInvalidated \/ RowQuiet
<1> USE DEF Cycle!Phases
<1>1. /\ at' = at + 1 /\ at \in Nat /\ phase \in Cycle!Phases /\ dir \in Dir \cup {"neutral"}
      /\ origin \in Nat \cup {None} /\ None \notin Nat /\ "neutral" \notin Dir
  BY RowsAssumption, NoneAssumption DEF TypeOK, Cycle!Next, Dir
<1>2. ASSUME NEW d \in Dir, Cycle!StayIn(d), dir' = d, origin = None, d = dir \/ phase = "undecided",
             phase = "trending" \/ phase = "undecided"
      PROVE  /\ phase' \in Cycle!Phases /\ dir' \in Dir /\ CycleOK'
             /\ RowBos \/ RowQuiet
  BY <1>1, <1>2 DEF Cycle!StayIn, Cycle!Silent, Cycle!Fires, CycleOK, RowBos, RowQuiet, SameTrend
<1>3. ASSUME NEW d \in Dir, Cycle!ShiftFrom(d), dir' = d, origin = None, d = dir \/ phase = "undecided"
      PROVE  phase' \in Cycle!Phases /\ dir' \in Dir /\ CycleOK' /\ RowMss
  BY <1>1, <1>3 DEF Cycle!ShiftFrom, Cycle!Opp, Opp, Cycle!Fires, CycleOK, RowMss, SameTrend
<1>4. ASSUME NEW d \in Dir, Cycle!Start(d)
      PROVE  /\ phase' \in Cycle!Phases /\ dir' \in Dir /\ CycleOK'
             /\ RowBos \/ RowMss \/ RowQuiet
  BY <1>2, <1>3, <1>4 DEF Cycle!Start, CycleOK
<1>5. ASSUME Cycle!Extend \/ Cycle!Shift
      PROVE  /\ phase' \in Cycle!Phases /\ dir' \in Dir /\ CycleOK'
             /\ RowBos \/ RowMss \/ RowQuiet
  <2>1. dir \in Dir /\ origin = None /\ dir' = dir /\ phase = "trending"
    BY <1>1, <1>5 DEF Cycle!Extend, Cycle!Shift, CycleOK
  <2> QED BY <1>2, <1>3, <1>5, <2>1 DEF Cycle!Extend, Cycle!Shift
<1>6. ASSUME Cycle!Arm
      PROVE  phase' \in Cycle!Phases /\ dir' \in Dir \cup {"neutral"} /\ CycleOK' /\ RowQuiet
  BY <1>1, <1>6 DEF Cycle!Arm, Cycle!Silent, Cycle!Fires, CycleOK, RowQuiet
<1>7. ASSUME Cycle!Turn
      PROVE  phase' \in Cycle!Phases /\ dir' \in Dir /\ CycleOK' /\ RowChoch
  <2>1. dir \in Dir /\ origin \in Nat
    BY <1>1, <1>7 DEF Cycle!Turn, CycleOK
  <2> QED BY <1>1, <1>7, <2>1, Opposite DEF Cycle!Turn, Cycle!Opp, Opp, Cycle!Fires, CycleOK, RowChoch
<1>8. ASSUME Cycle!Reassert
      PROVE  phase' \in Cycle!Phases /\ dir' \in Dir /\ CycleOK' /\ RowInvalidated
  <2>1. dir \in Dir /\ origin \in Nat
    BY <1>1, <1>8 DEF Cycle!Reassert, CycleOK
  <2> QED BY <1>1, <1>8, <2>1 DEF Cycle!Reassert, Cycle!Fires, CycleOK, RowInvalidated
<1>9. ASSUME Cycle!Rest
      PROVE  phase' \in Cycle!Phases /\ dir' \in Dir \cup {"neutral"} /\ CycleOK' /\ RowQuiet
  BY <1>1, <1>9 DEF Cycle!Rest, Cycle!Silent, Cycle!Fires, CycleOK, RowQuiet
<1> QED BY <1>1, <1>4, <1>5, <1>6, <1>7, <1>8, <1>9 DEF Cycle!Next, Cycle!Dir, Dir

-----------------------------------------------------------------------------
(* One block over one row *)

LEMMA AgedFacts ==
  ASSUME NEW b \in Block, NEW reach, at \in Nat
  PROVE  LET c == Aged(b, reach) IN
         /\ c \in Block
         /\ c.created = b.created /\ c.type = b.type /\ c.anchor = b.anchor /\ c.source = b.source
         /\ IsActive(c) => IsActive(b)
         /\ ~IsActive(b) => c.status = b.status /\ c.reason = b.reason
         /\ IF Promotes(b) THEN c.confirmation = "confirmed" /\ c.confirmed = at
                           ELSE c.confirmation = b.confirmation /\ c.confirmed = b.confirmed
         /\ event' = "MSS_INVALIDATED" /\ b.source = "MSS" /\ b.created = cited' => ~IsActive(c)
<1> DEFINE t == Touched(b, reach)
           k == Cascaded(t)
           p == Promoted(k)
           c == Expired(p)
<1>1. /\ t \in Block
      /\ t.created = b.created /\ t.type = b.type /\ t.anchor = b.anchor /\ t.source = b.source
      /\ t.confirmation = b.confirmation /\ t.confirmed = b.confirmed
      /\ IsActive(t) => IsActive(b)
      /\ ~IsActive(b) => t.status = b.status /\ t.reason = b.reason
  <2> DEFINE r == IF at > b.created THEN reach[b.anchor] ELSE "miss"
             seen == [b EXCEPT !.passed = b.passed \/ r = "breach"]
  <2>1. /\ seen \in Block /\ seen.status = b.status /\ seen.reason = b.reason
        /\ seen.created = b.created /\ seen.type = b.type
        /\ seen.anchor = b.anchor /\ seen.source = b.source
        /\ seen.confirmation = b.confirmation /\ seen.confirmed = b.confirmed
    BY DEF Block
  <2>2. t = IF ~IsActive(b) THEN seen
            ELSE IF r = "breach"
            THEN [seen EXCEPT !.status = "invalidated", !.reason = "price_penetration"]
            ELSE IF r = "touch" THEN [seen EXCEPT !.status = "mitigated"] ELSE seen
    BY DEF Touched
  <2> HIDE DEF seen, r, t
  <2>3. CASE ~IsActive(b) \/ r \notin {"breach", "touch"}
    <3>1. t = seen
      BY <2>2, <2>3
    <3> QED BY <2>1, <3>1 DEF IsActive
  <2>4. CASE IsActive(b) /\ r = "breach"
    <3>1. t = [seen EXCEPT !.status = "invalidated", !.reason = "price_penetration"]
      BY <2>2, <2>4
    <3> QED BY <2>1, <2>4, <3>1 DEF Block, Statuses
  <2>5. CASE IsActive(b) /\ r = "touch"
    <3>1. t = [seen EXCEPT !.status = "mitigated"]
      BY <2>2, <2>5
    <3> QED BY <2>1, <2>5, <3>1 DEF Block, Statuses
  <2> QED BY <2>3, <2>4, <2>5
<1> HIDE DEF t
<1>2. /\ k \in Block
      /\ k.created = t.created /\ k.type = t.type /\ k.anchor = t.anchor /\ k.source = t.source
      /\ k.confirmation = t.confirmation /\ k.confirmed = t.confirmed
      /\ IsActive(k) => IsActive(t)
      /\ ~IsActive(t) => k.status = t.status /\ k.reason = t.reason
      /\ event' = "MSS_INVALIDATED" /\ t.source = "MSS" /\ t.created = cited' => ~IsActive(k)
  <2> DEFINE falls == event' = "MSS_INVALIDATED" /\ t.source = "MSS" /\ t.created = cited'
                      /\ IsActive(t)
  <2>1. k = IF falls THEN [t EXCEPT !.status = "invalidated", !.reason = "mss_invalidated"] ELSE t
    BY DEF Cascaded
  <2>2. CASE falls
    <3>1. k = [t EXCEPT !.status = "invalidated", !.reason = "mss_invalidated"]
      BY <2>1, <2>2
    <3> HIDE DEF k, falls
    <3>2. /\ k \in Block /\ k.status = "invalidated"
          /\ k.created = t.created /\ k.type = t.type /\ k.anchor = t.anchor
          /\ k.source = t.source /\ k.confirmation = t.confirmation /\ k.confirmed = t.confirmed
      BY <1>1, <3>1 DEF Block, Statuses
    <3>3. IsActive(t)
      BY <2>2 DEF falls
    <3> QED BY <3>2, <3>3 DEF IsActive
  <2>3. CASE ~falls
    <3>1. k = t
      BY <2>1, <2>3
    <3> QED BY <1>1, <2>3, <3>1
  <2> QED BY <2>2, <2>3
<1> HIDE DEF k
<1>3. /\ p \in Block
      /\ p.created = k.created /\ p.type = k.type /\ p.anchor = k.anchor /\ p.source = k.source
      /\ p.status = k.status /\ p.reason = k.reason
      /\ IF Promotes(k) THEN p.confirmation = "confirmed" /\ p.confirmed = at
                        ELSE p.confirmation = k.confirmation /\ p.confirmed = k.confirmed
  BY <1>2 DEF Promoted, Block
<1> HIDE DEF p
<1>4. /\ c \in Block
      /\ c.created = p.created /\ c.type = p.type /\ c.anchor = p.anchor /\ c.source = p.source
      /\ c.confirmation = p.confirmation /\ c.confirmed = p.confirmed
      /\ IsActive(c) => IsActive(p)
      /\ ~IsActive(p) => c.status = p.status /\ c.reason = p.reason
  BY <1>3 DEF Expired, Block, IsActive, Statuses
<1> HIDE DEF c
<1>5. Promotes(k) <=> Promotes(b)
  BY <1>1, <1>2 DEF Promotes
<1>6. Aged(b, reach) = c
  BY DEF Aged, t, k, p, c
<1> QED BY <1>1, <1>2, <1>3, <1>4, <1>5, <1>6 DEF IsActive

-----------------------------------------------------------------------------
(* The registry over one row *)

\* Block c is what a row makes of block b.
Survives(b, c) ==
  /\ c \in Block
  /\ c.created = b.created /\ c.type = b.type /\ c.anchor = b.anchor /\ c.source = b.source
  /\ IsActive(c) => IsActive(b)
  /\ ~IsActive(b) => c.status = b.status /\ c.reason = b.reason
  /\ IF Promotes(b) THEN c.confirmation = "confirmed" /\ c.confirmed = at
                    ELSE c.confirmation = b.confirmation /\ c.confirmed = b.confirmed
  /\ event' = "MSS_INVALIDATED" /\ b.source = "MSS" /\ b.created = cited' => ~IsActive(c)

\* Block c is the one the row creates.
Born(c) ==
  /\ c \in Block /\ event' \in {"BOS", "MSS", "CHoCH"} /\ ~SameFootprint
  /\ c.created = at /\ c.type = heading' /\ c.source = event' /\ c.confirmed = None
  /\ c.anchor = Anchor(heading')
  /\ c.confirmation = IF event' = "MSS" THEN "provisional" ELSE "confirmed"

\* The registry after a row; born tells whether the row creates a block.
Registry(born) ==
  /\ \A c \in blocks' : (Born(c) /\ born) \/ \E b \in blocks : Survives(b, c)
  /\ \A b \in blocks : \E c \in blocks' : Survives(b, c)
  /\ born => \E c \in blocks' : Born(c)
  /\ pending' = NextPending(born)
  /\ last' \in [Dir -> Nat \cup {None}]

LEMMA NewBlockIsBorn ==
  ASSUME TypeOK, CycleOK, Cycle!Next, NEW colour, NEW displaced, Creates(colour, displaced)
  PROVE  Born(NewBlock)
<1>1. event' \in {"BOS", "MSS", "CHoCH"} /\ Anchor(heading') # None /\ ~SameFootprint
  BY EnabledAssumption DEF Creates
<1>2. heading' \in Dir /\ at \in Nat
  <2>1. dir' \in Dir
    BY <1>1, RowKinds, NoneAssumption, Opposite
       DEF RowBos, RowMss, RowChoch, RowInvalidated, RowQuiet, SameTrend, EventNames
  <2> QED BY <1>1, <2>1, RowKinds, NoneAssumption, Opposite
          DEF RowBos, RowMss, RowChoch, RowInvalidated, RowQuiet, EventNames
<1>3. Anchor(heading') \in Nat
  BY <1>1, <1>2, Opposite DEF Anchor, TypeOK
<1>4. NewBlock \in Block
  BY <1>1, <1>2, <1>3 DEF NewBlock, Block, Statuses
<1> QED BY <1>1, <1>4 DEF NewBlock, Born

LEMMA RegistryStep ==
  ASSUME TypeOK, CycleOK, Row PROVE \E born \in BOOLEAN : Registry(born)
<1>1. PICK colour \in Colours, displaced \in BOOLEAN,
           reach \in [{b.anchor : b \in blocks} -> Reach] : Process(colour, reach, displaced)
  BY DEF Row
<1> DEFINE born == Creates(colour, displaced)
<1>2. Cycle!Next /\ at \in Nat /\ blocks \subseteq Block
  BY RowsAssumption DEF Row, TypeOK
<1>3. /\ blocks' = {Aged(b, reach) : b \in blocks} \cup (IF born THEN {NewBlock} ELSE {})
      /\ pending' = NextPending(born)
      /\ last' = [c \in Dir |-> IF c = colour THEN at ELSE last[c]]
  BY <1>1 DEF Process
<1>4. born => Born(NewBlock)
  BY <1>2, NewBlockIsBorn
<1>5. \A b \in blocks : Survives(b, Aged(b, reach))
  BY <1>2, AgedFacts DEF Survives
<1>6. last' \in [Dir -> Nat \cup {None}]
  BY <1>2, <1>3 DEF TypeOK
<1>7. born \in BOOLEAN
  BY DEF Creates
<1> HIDE DEF born
<1> QED BY <1>3, <1>4, <1>5, <1>6, <1>7 DEF Registry

-----------------------------------------------------------------------------
(* The inductive invariant of the registry *)

BlocksOK ==
  \A b \in blocks :
    /\ b.created < at
    /\ b.confirmation = "provisional" => b.source = "MSS"
    /\ b.confirmed # None => /\ b.source = "MSS" /\ b.confirmation = "confirmed"
                             /\ b.confirmed < at
    /\ b.source = "MSS" /\ b.created = origin =>
         b.confirmation = "provisional" /\ pending = origin /\ b.type = Opp(dir)

RegistryOK == TypeOK /\ CycleOK /\ BlocksOK /\ PendingIsCurrent /\ OneFootprint

LEMMA RegistryType ==
  ASSUME RegistryOK, Row, NEW born \in BOOLEAN, Registry(born)
  PROVE  TypeOK' /\ CycleOK'
<1>1. TypeOK /\ CycleOK /\ Cycle!Next /\ at < MaxRows
  BY DEF RegistryOK, Row
<1>2. /\ at' = at + 1 /\ at \in Nat /\ phase' \in Cycle!Phases /\ dir' \in Dir \cup {"neutral"}
      /\ CycleOK'
      /\ RowBos \/ RowMss \/ RowChoch \/ RowInvalidated \/ RowQuiet
  BY <1>1, RowKinds
<1>3. /\ origin' \in Nat \cup {None} /\ cited' \in Nat \cup {None}
      /\ event' \in EventNames \cup {None} /\ heading' \in Dir \cup {None}
  BY <1>1, <1>2, Opposite
     DEF TypeOK, RowBos, RowMss, RowChoch, RowInvalidated, RowQuiet, EventNames, SameTrend
<1>4. at' \in 0..MaxRows
  BY <1>1, <1>2, RowsAssumption
<1>5. blocks' \subseteq Block /\ last' \in [Dir -> Nat \cup {None}]
  BY DEF Registry, Born, Survives
<1>6. pending' \in Nat \cup {None}
  BY <1>1, <1>2 DEF Registry, NextPending, TypeOK
<1> QED BY <1>2, <1>3, <1>4, <1>5, <1>6 DEF TypeOK, Cycle!Phases

\* Whatever a row promotes is the block of the shift it confirms.
LEMMA PromotesOfShift ==
  ASSUME RegistryOK, Row, NEW b \in blocks, Promotes(b)
  PROVE  /\ RowChoch /\ b.created = origin /\ b.source = "MSS" /\ b.confirmation = "provisional"
         /\ b.type = dir'
<1>1. RowBos \/ RowMss \/ RowChoch \/ RowInvalidated \/ RowQuiet
  BY RowKinds DEF RegistryOK, Row
<1>2. event' = "CHoCH" /\ pending # None /\ b.source = "MSS" /\ b.created = pending
      /\ b.confirmation = "provisional"
  BY DEF Promotes
<1>3. RowChoch
  BY <1>1, <1>2, NoneAssumption DEF RowBos, RowMss, RowInvalidated, RowQuiet, EventNames
<1>4. b.created = origin
  BY <1>2 DEF RegistryOK, PendingIsCurrent
<1> QED BY <1>2, <1>3, <1>4 DEF RegistryOK, BlocksOK, RowChoch

\* And every block of that shift is promoted.
LEMMA ShiftIsPromoted ==
  ASSUME RegistryOK, NEW b \in blocks, b.source = "MSS", b.created = origin, event' = "CHoCH"
  PROVE  Promotes(b)
<1>1. b.created # None
  BY NoneAssumption DEF RegistryOK, TypeOK, Block
<1> QED BY <1>1 DEF RegistryOK, BlocksOK, Promotes

LEMMA BlocksStep ==
  ASSUME RegistryOK, Row, NEW born \in BOOLEAN, Registry(born) PROVE BlocksOK'
<1>1. /\ at' = at + 1 /\ at \in Nat
      /\ RowBos \/ RowMss \/ RowChoch \/ RowInvalidated \/ RowQuiet
  BY RowKinds DEF RegistryOK, Row
<1>2. at # None /\ None \notin Nat /\ None \notin EventNames /\ None \notin Dir
  BY <1>1, NoneAssumption
<1> SUFFICES ASSUME NEW c \in blocks'
             PROVE  /\ c.created < at'
                    /\ c.confirmation = "provisional" => c.source = "MSS"
                    /\ c.confirmed # None => /\ c.source = "MSS" /\ c.confirmation = "confirmed"
                                             /\ c.confirmed < at'
                    /\ c.source = "MSS" /\ c.created = origin' =>
                         /\ c.confirmation = "provisional" /\ pending' = origin'
                         /\ c.type = Opp(dir')
  BY DEF BlocksOK
<1>3. CASE Born(c) /\ born
  <2>1. event' \in {"BOS", "MSS", "CHoCH"} /\ c.created = at /\ c.type = heading'
        /\ c.source = event' /\ c.confirmed = None
        /\ c.confirmation = IF event' = "MSS" THEN "provisional" ELSE "confirmed"
    BY <1>3 DEF Born
  <2>2. c.source = "MSS" => RowMss
    BY <1>1, <1>2, <2>1 DEF RowBos, RowChoch, RowInvalidated, RowQuiet, EventNames
  <2>3. RowMss => pending' = at /\ origin' = at /\ heading' = Opp(dir')
    BY <1>3 DEF RowMss, Registry, NextPending
  <2> QED BY <1>1, <2>1, <2>2, <2>3
<1>4. CASE \E b \in blocks : Survives(b, c)
  <2>1. PICK b \in blocks : Survives(b, c)
    BY <1>4
  <2>2. /\ b \in Block /\ b.created < at /\ b.created \in Nat
        /\ b.confirmed \in Nat \cup {None}
        /\ b.confirmation = "provisional" => b.source = "MSS"
        /\ b.confirmed # None => /\ b.source = "MSS" /\ b.confirmation = "confirmed"
                                 /\ b.confirmed < at
        /\ b.source = "MSS" /\ b.created = origin =>
             b.confirmation = "provisional" /\ pending = origin /\ b.type = Opp(dir)
    BY DEF RegistryOK, TypeOK, BlocksOK, Block
  <2>3. c.created = b.created /\ c.type = b.type /\ c.source = b.source
    BY <2>1 DEF Survives
  <2>4. CASE Promotes(b)
    <3>1. RowChoch /\ b.source = "MSS"
      BY <2>4, PromotesOfShift
    <3>2. c.confirmation = "confirmed" /\ c.confirmed = at
      BY <2>1, <2>4 DEF Survives
    <3> QED BY <1>1, <1>2, <2>2, <2>3, <3>1, <3>2 DEF RowChoch
  <2>5. CASE ~Promotes(b)
    <3>1. c.confirmation = b.confirmation /\ c.confirmed = b.confirmed
      BY <2>1, <2>5 DEF Survives
    <3>2. b.source = "MSS" /\ b.created = origin' =>
            /\ b.confirmation = "provisional" /\ pending' = origin' /\ b.type = Opp(dir')
      <4> SUFFICES ASSUME b.source = "MSS", b.created = origin'
                   PROVE  /\ b.confirmation = "provisional" /\ pending' = origin'
                          /\ b.type = Opp(dir')
        OBVIOUS
      <4>1. RowQuiet
        BY <1>1, <1>2, <2>2 DEF RowBos, RowMss, RowChoch, RowInvalidated
      <4>2. origin = origin' /\ origin # None /\ event' = None
        BY <1>2, <2>2, <4>1 DEF RowQuiet
      <4>3. dir' = dir
        BY <4>1, <4>2 DEF RowQuiet, SameTrend, RegistryOK, CycleOK
      <4>4. pending' = pending
        BY <1>2, <4>2 DEF Registry, NextPending, EventNames
      <4> QED BY <2>2, <4>2, <4>3, <4>4
    <3> QED BY <1>1, <2>2, <2>3, <3>1, <3>2
  <2> QED BY <2>4, <2>5
<1> QED BY <1>3, <1>4 DEF Registry

LEMMA PendingStep ==
  ASSUME RegistryOK, Row, NEW born \in BOOLEAN, Registry(born) PROVE PendingIsCurrent'
<1>1. /\ at' = at + 1 /\ at \in Nat
      /\ RowBos \/ RowMss \/ RowChoch \/ RowInvalidated \/ RowQuiet
  BY RowKinds DEF RegistryOK, Row
<1>2. /\ at # None /\ None \notin Nat /\ None \notin EventNames /\ None \notin Dir
      /\ pending # None => pending = origin
      /\ \A b \in blocks : IsActive(b) /\ b.confirmation = "provisional" =>
           b.source = "MSS" /\ b.created = pending /\ b.created \in Nat
  BY <1>1, NoneAssumption DEF RegistryOK, PendingIsCurrent, TypeOK, Block
\* The slot is the origin of the shift ...
<1>3. pending' # None => pending' = origin'
  BY <1>1, <1>2
     DEF Registry, NextPending, RowBos, RowMss, RowChoch, RowInvalidated, RowQuiet, EventNames
\* ... it is taken for a block, and kept as long as that block is provisional ...
<1>4. pending' # None => \E c \in blocks' : /\ c.source = "MSS" /\ c.created = pending'
                                            /\ c.confirmation = "provisional"
  <2>1. CASE event' = "MSS" /\ born
    <3>1. PICK c \in blocks' : Born(c)
      BY <2>1 DEF Registry
    <3>2. pending' = at
      BY <2>1 DEF Registry, NextPending
    <3> QED BY <2>1, <3>1, <3>2 DEF Born
  <2>2. CASE ~(event' = "MSS" /\ born) /\ pending' # None
    <3>1. pending' = pending /\ event' # "CHoCH"
      BY <2>2 DEF Registry, NextPending
    <3>2. PICK b \in blocks : /\ b.source = "MSS" /\ b.created = pending
                              /\ b.confirmation = "provisional"
      BY <2>2, <3>1 DEF RegistryOK, PendingIsCurrent
    <3>3. PICK c \in blocks' : Survives(b, c)
      BY DEF Registry
    <3>4. ~Promotes(b)
      BY <3>1 DEF Promotes
    <3> QED BY <3>1, <3>2, <3>3, <3>4 DEF Survives
  <2> QED BY <2>1, <2>2
\* ... and no other provisional block still trades.
<1>5. ASSUME NEW c \in blocks', IsActive(c), c.confirmation = "provisional"
      PROVE  c.source = "MSS" /\ c.created = pending'
  <2>1. CASE Born(c) /\ born
    <3>1. event' = "MSS" /\ c.source = "MSS" /\ c.created = at
      BY <1>5, <2>1 DEF Born
    <3>2. pending' = at
      BY <2>1, <3>1 DEF Registry, NextPending
    <3> QED BY <3>1, <3>2
  <2>2. CASE \E b \in blocks : Survives(b, c)
    <3>1. PICK b \in blocks : Survives(b, c)
      BY <2>2
    <3>2. ~Promotes(b) /\ IsActive(b) /\ b.confirmation = "provisional"
      BY <1>5, <3>1 DEF Survives
    <3>3. b.source = "MSS" /\ b.created = pending /\ pending # None /\ pending = origin
      BY <1>2, <3>2
    <3>4. event' # "CHoCH"
      BY <3>2, <3>3 DEF Promotes
    <3>5. event' # "MSS_INVALIDATED"
      <4> SUFFICES ASSUME event' = "MSS_INVALIDATED" PROVE FALSE
        OBVIOUS
      <4>1. cited' = origin
        BY <1>1, <1>2 DEF RowBos, RowMss, RowChoch, RowInvalidated, RowQuiet, EventNames
      <4> QED BY <1>5, <3>1, <3>3, <4>1 DEF Survives
    <3>6. event' # "MSS"
      BY <1>1, <1>2, <3>3 DEF RowBos, RowMss, RowChoch, RowInvalidated, RowQuiet, EventNames
    <3> QED BY <3>1, <3>3, <3>4, <3>5, <3>6 DEF Survives, Registry, NextPending
  <2> QED BY <2>1, <2>2 DEF Registry
<1> QED BY <1>3, <1>4, <1>5 DEF PendingIsCurrent, IsActive

LEMMA FootprintStep ==
  ASSUME RegistryOK, Row, NEW born \in BOOLEAN, Registry(born) PROVE OneFootprint'
<1>1. at \in Nat /\ None \notin Nat
  BY RowKinds, NoneAssumption DEF RegistryOK, Row
<1> SUFFICES ASSUME NEW b \in blocks', NEW c \in blocks', b.confirmed # None,
                    b.confirmed = c.created
             PROVE  b.anchor # c.anchor
  BY DEF OneFootprint
<1>2. PICK a \in blocks : Survives(a, b)
  BY DEF Registry, Born
<1>3. /\ a.confirmed # None => a.confirmed < at
      /\ \A e \in blocks : e.created < at /\ e.created \in Nat
      /\ a.confirmed \in Nat \cup {None}
  BY DEF RegistryOK, BlocksOK, TypeOK, Block
<1>4. CASE Promotes(a)
  <2>1. b.confirmed = at /\ b.anchor = a.anchor
    BY <1>2, <1>4 DEF Survives
  <2>2. ~\E e \in blocks : Survives(e, c)
    BY <1>1, <1>3, <2>1 DEF Survives
  <2>3. Born(c)
    BY <2>2 DEF Registry
  <2> QED BY <1>4, <2>1, <2>3 DEF Born, SameFootprint
<1>5. CASE ~Promotes(a)
  <2>1. b.confirmed = a.confirmed /\ b.anchor = a.anchor
    BY <1>2, <1>5 DEF Survives
  <2>2. ~Born(c)
    BY <1>1, <1>3, <2>1 DEF Born
  <2>3. PICK e \in blocks : Survives(e, c)
    BY <2>2 DEF Registry
  <2>4. a.confirmed = e.created /\ e.anchor = c.anchor
    BY <2>1, <2>3 DEF Survives
  <2> QED BY <2>1, <2>4 DEF RegistryOK, OneFootprint
<1> QED BY <1>4, <1>5

LEMMA RegistryInit == Init => RegistryOK
<1> SUFFICES ASSUME Init PROVE RegistryOK
  OBVIOUS
<1>1. TypeOK
  BY RowsAssumption DEF Init, Cycle!Init, TypeOK, Cycle!Phases
<1>2. CycleOK
  BY DEF Init, Cycle!Init, CycleOK
<1>3. BlocksOK /\ PendingIsCurrent /\ OneFootprint
  BY DEF Init, BlocksOK, PendingIsCurrent, OneFootprint
<1> QED BY <1>1, <1>2, <1>3 DEF RegistryOK

LEMMA RegistryNext == RegistryOK /\ [Next]_vars => RegistryOK'
<1>1. ASSUME RegistryOK, Row PROVE RegistryOK'
  <2>1. PICK born \in BOOLEAN : Registry(born)
    BY <1>1, RegistryStep DEF RegistryOK
  <2> QED BY <1>1, <2>1, RegistryType, BlocksStep, PendingStep, FootprintStep DEF RegistryOK
<1>2. ASSUME RegistryOK, UNCHANGED vars PROVE RegistryOK'
  <2> USE <1>2 DEF vars, blockVars, Cycle!vars
  <2>1. TypeOK' /\ CycleOK'
    BY DEF RegistryOK, TypeOK, CycleOK, Cycle!Phases
  <2>2. BlocksOK' /\ PendingIsCurrent' /\ OneFootprint'
    BY DEF RegistryOK, BlocksOK, PendingIsCurrent, OneFootprint
  <2> QED BY <2>1, <2>2 DEF RegistryOK
<1> QED BY <1>1, <1>2 DEF Next

-----------------------------------------------------------------------------
(* What one row may never do to a block *)

LEMMA ResolutionStep ==
  ASSUME RegistryOK, Row, NEW b \in blocks', b.source = "MSS", b.created = origin
  PROVE  /\ event' = "CHoCH" => /\ b.confirmation = "confirmed" /\ b.confirmed = at
                                /\ b.type = dir'
         /\ event' = "MSS_INVALIDATED" => b.confirmation = "provisional" /\ ~IsActive(b)
<1>1. /\ at' = at + 1 /\ at \in Nat
      /\ RowBos \/ RowMss \/ RowChoch \/ RowInvalidated \/ RowQuiet
  BY RowKinds DEF RegistryOK, Row
<1>2. PICK born \in BOOLEAN : Registry(born)
  BY RegistryStep DEF RegistryOK
<1>3. b.created # at
  BY <1>1, NoneAssumption DEF RegistryOK, CycleOK, TypeOK
<1>4. PICK a \in blocks : Survives(a, b)
  BY <1>2, <1>3 DEF Registry, Born
<1>5. a.source = "MSS" /\ a.created = origin /\ b.type = a.type
  BY <1>4 DEF Survives
<1>6. CASE event' = "CHoCH"
  <2>1. Promotes(a)
    BY <1>5, <1>6, ShiftIsPromoted
  <2> QED BY <1>4, <1>5, <1>6, <2>1, PromotesOfShift DEF Survives
<1>7. CASE event' = "MSS_INVALIDATED"
  <2>1. cited' = origin
    BY <1>1, <1>7, NoneAssumption DEF RowBos, RowMss, RowChoch, RowInvalidated, RowQuiet, EventNames
  <2>2. ~Promotes(a) /\ a.confirmation = "provisional"
    BY <1>5, <1>7 DEF Promotes, RegistryOK, BlocksOK
  <2> QED BY <1>4, <1>5, <1>7, <2>1, <2>2 DEF Survives
<1> QED BY <1>6, <1>7

LEMMA LifecycleStep ==
  ASSUME RegistryOK, Row, NEW b \in blocks
  PROVE  \E c \in blocks' :
           /\ <<c.created, c.type, c.anchor, c.source>> = <<b.created, b.type, b.anchor, b.source>>
           /\ ~IsActive(b) => <<c.status, c.reason>> = <<b.status, b.reason>>
           /\ IF b.confirmation = "provisional" /\ event' = "CHoCH" /\ b.created = origin
              THEN c.confirmation = "confirmed"
              ELSE <<c.confirmation, c.confirmed>> = <<b.confirmation, b.confirmed>>
<1>1. PICK born \in BOOLEAN : Registry(born)
  BY RegistryStep DEF RegistryOK
<1>2. PICK c \in blocks' : Survives(b, c)
  BY <1>1 DEF Registry
<1>3. Promotes(b) <=> b.confirmation = "provisional" /\ event' = "CHoCH" /\ b.created = origin
  <2>1. ASSUME b.confirmation = "provisional", event' = "CHoCH", b.created = origin
        PROVE  Promotes(b)
    BY <2>1, ShiftIsPromoted DEF RegistryOK, BlocksOK
  <2>2. ASSUME Promotes(b)
        PROVE  b.confirmation = "provisional" /\ event' = "CHoCH" /\ b.created = origin
    BY <2>2, PromotesOfShift DEF RowChoch
  <2> QED BY <2>1, <2>2
<1> QED BY <1>2, <1>3 DEF Survives

-----------------------------------------------------------------------------
(* The events the strategy reads *)

Resolving == Of({"CHoCH", "MSS_INVALIDATED"})

\* No resolution has come on or after row i: i is in the cycle that is running.
IsOpen(i) == \A r \in Resolving : r.index < i

\* Every event has a row of its own, before the next one.
RowsApart ==
  /\ \A e \in events : e.index < at
  /\ \A e, f \in events : e.index = f.index => e = f
  /\ phase = "undecided" => events = {}

\* Since the last CHoCH everything goes along the trend, but for the shifts
\* against it; a CHoCH the other way has been superseded.
SinceTurn ==
  /\ \A e \in events : (\A c \in Of({"CHoCH"}) : c.index <= e.index) =>
       e.direction = IF e.type = "MSS" THEN Opp(dir) ELSE dir
  /\ \A e \in Of({"CHoCH"}) : e.direction # dir =>
       \E c \in Of({"CHoCH"}) : c.direction = dir /\ e.index < c.index

\* The running cycle: breaks along the trend, then the shift against it.
RunningCycle ==
  /\ \A e \in events : IsOpen(e.index) =>
       \/ e.type = "BOS" /\ e.direction = dir /\ (origin # None => e.index < origin)
       \/ e.type = "MSS" /\ e.direction = Opp(dir) /\ e.index = origin
  /\ origin # None =>
       /\ IsOpen(origin)
       /\ \E m \in Of({"MSS"}) : m.index = origin /\ m.direction = Opp(dir)
       /\ \A e \in events : e.index <= origin

\* An invalidation ends a shift before it.
OriginsBehind ==
  \A e \in Of({"MSS_INVALIDATED"}) : e.origin \in Nat /\ e.origin < e.index

IsLatest(e) ==
  e \in Of({"BOS", "MSS", "CHoCH"}) /\ \A f \in Of({"BOS", "MSS", "CHoCH"}) : f.index <= e.index

LatestAgrees ==
  \A e \in events : IsLatest(e) =>
    IF e.type = "MSS"
    THEN /\ e.direction = Opp(dir)
         /\ phase = "trending" <=> \E f \in Of({"MSS_INVALIDATED"}) : f.origin = e.index
    ELSE e.direction = dir

\* A block is of the event of its row; its confirmation lies in its cycle.
BlocksHaveEvents ==
  \A b \in blocks :
    /\ \E e \in events : e.type = b.source /\ e.index = b.created /\ e.direction = b.type
    /\ b.confirmed # None => InCycleOf(b.created, b.confirmed)

SetupOK ==
  /\ RegistryOK /\ events \subseteq MarketEvent
  /\ RowsApart /\ SinceTurn /\ RunningCycle /\ OriginsBehind /\ LatestAgrees
  /\ SweepCycleHoldsOneShift /\ BlocksHaveEvents

-----------------------------------------------------------------------------
(* One row more *)

\* The event of the row, if it has one, is the last.
LEMMA NewEvent ==
  ASSUME SetupOK, Row, events' = events \cup StructureEvents
  PROVE  /\ event' = None => events' = events
         /\ event' # None =>
              \E e \in MarketEvent :
                /\ events' = events \cup {e} /\ e.index = at
                /\ e.type = event' /\ e.direction = heading' /\ e.origin = cited'
<1>1. RegistryOK /\ TypeOK'
  <2>1. RegistryOK
    BY DEF SetupOK
  <2>2. PICK born \in BOOLEAN : Registry(born)
    BY <2>1, RegistryStep DEF RegistryOK
  <2> QED BY <2>1, <2>2, RegistryType
<1>2. at \in Nat /\ event' \in EventNames \cup {None} /\ cited' \in Nat \cup {None}
  BY <1>1, RowsAssumption DEF RegistryOK, TypeOK
<1>3. event' # None => heading' \in Dir
  BY <1>1, RowKinds, Opposite
     DEF RegistryOK, Row, RowBos, RowMss, RowChoch, RowInvalidated, RowQuiet, SameTrend
<1>4. CASE event' = None
  BY <1>4 DEF StructureEvents
<1>5. CASE event' # None
  <2> DEFINE e == [type |-> event', index |-> at, direction |-> heading', origin |-> cited']
  <2>1. e \in MarketEvent
    BY <1>2, <1>3, <1>5 DEF MarketEvent
  <2>2. events' = events \cup {e}
    BY <1>5 DEF StructureEvents
  <2>3. e.index = at /\ e.type = event' /\ e.direction = heading' /\ e.origin = cited'
    OBVIOUS
  <2> HIDE DEF e
  <2> QED BY <1>5, <2>1, <2>2, <2>3
<1> QED BY <1>4, <1>5

\* What is known of the events before a row, in the form the steps use.
LEMMA EventFacts ==
  ASSUME SetupOK
  PROVE  /\ at \in Nat /\ None \notin Nat /\ None \notin EventNames /\ None \notin Dir
         /\ \A e \in events :
              /\ e \in MarketEvent /\ e.index \in Nat /\ e.index < at /\ e.type \in EventNames
              /\ e.direction \in Dir
         /\ origin # None => origin \in Nat /\ origin < at
<1>1. at \in Nat /\ None \notin Nat /\ None \notin EventNames /\ None \notin Dir
  BY RowsAssumption, NoneAssumption DEF SetupOK, RegistryOK, TypeOK
<1>2. \A e \in events :
        /\ e \in MarketEvent /\ e.index \in Nat /\ e.type \in EventNames /\ e.direction \in Dir
  BY DEF SetupOK, MarketEvent
<1> QED BY <1>1, <1>2 DEF SetupOK, RegistryOK, RowsApart, TypeOK, CycleOK

LEMMA ApartStep ==
  ASSUME SetupOK, Row, events' = events \cup StructureEvents
  PROVE  events' \subseteq MarketEvent /\ RowsApart'
<1>1. /\ at' = at + 1
      /\ RowBos \/ RowMss \/ RowChoch \/ RowInvalidated \/ RowQuiet
      /\ CycleOK'
  BY RowKinds DEF SetupOK, RegistryOK, Row
<1>2. phase' = "undecided" => phase = "undecided" /\ event' = None
  BY <1>1, EventFacts, Opposite, NoneAssumption
     DEF RowBos, RowMss, RowChoch, RowInvalidated, RowQuiet, SameTrend, CycleOK, Dir, SetupOK,
         RegistryOK
<1>3. CASE event' = None
  BY <1>1, <1>2, <1>3, NewEvent, EventFacts DEF SetupOK, RowsApart
<1>4. CASE event' # None
  <2>1. PICK e \in MarketEvent : events' = events \cup {e} /\ e.index = at
    BY <1>4, NewEvent
  <2> QED BY <1>1, <1>2, <1>4, <2>1, EventFacts DEF SetupOK, RowsApart
<1> QED BY <1>3, <1>4

\* A row is quiet, or it adds an event of one of four kinds; before the first
\* trend there is no event.
LEMMA EventCases ==
  ASSUME SetupOK, Row, events' = events \cup StructureEvents
  PROVE  /\ at' = at + 1
         /\ ~RowChoch => dir' = dir \/ events = {}
         /\ \/ RowQuiet /\ events' = events
            \/ /\ RowBos \/ RowMss \/ RowChoch \/ RowInvalidated
               /\ \E e \in MarketEvent :
                    /\ events' = events \cup {e} /\ e.index = at
                    /\ e.type = event' /\ e.direction = heading' /\ e.origin = cited'
<1>1. /\ at' = at + 1
      /\ RowBos \/ RowMss \/ RowChoch \/ RowInvalidated \/ RowQuiet
  BY RowKinds DEF SetupOK, RegistryOK, Row
<1>2. phase = "undecided" => events = {}
  BY DEF SetupOK, RowsApart
<1>3. ~RowChoch => dir' = dir \/ events = {}
  BY <1>1, <1>2 DEF RowBos, RowMss, RowInvalidated, RowQuiet, SameTrend
<1>4. event' = None <=> RowQuiet
  BY <1>1, EventFacts DEF RowBos, RowMss, RowChoch, RowInvalidated, RowQuiet, EventNames
<1> QED BY <1>1, <1>3, <1>4, NewEvent

LEMMA SinceTurnStep ==
  ASSUME SetupOK, Row, events' = events \cup StructureEvents PROVE SinceTurn'
<1>1. SinceTurn
  BY DEF SetupOK
<1>2. CASE RowQuiet /\ events' = events
  <2>1. dir' = dir \/ events = {}
    BY <1>2, EventCases, EventFacts DEF RowQuiet, RowChoch, EventNames
  <2> QED BY <1>1, <1>2, <2>1 DEF SinceTurn, Of
<1>3. ASSUME NEW e \in MarketEvent, events' = events \cup {e}, e.index = at, e.type = event',
             e.direction = heading', RowChoch
      PROVE  SinceTurn'
  <2>1. e \in Of({"CHoCH"})' /\ e.direction = dir' /\ e.type = "CHoCH"
    BY <1>3 DEF RowChoch, Of
  <2>2. \A f \in events' : f.index >= at => f = e
    BY <1>3, EventFacts
  <2>3. \A f \in events' : f # e => f.index < e.index
    BY <1>3, EventFacts
  <2>4. ASSUME NEW f \in events', \A c \in Of({"CHoCH"})' : c.index <= f.index
        PROVE  f.direction = IF f.type = "MSS" THEN Opp(dir') ELSE dir'
    <3>1. f.index >= at
      BY <1>3, <2>1, <2>4
    <3> QED BY <2>1, <2>2, <3>1
  <2>5. ASSUME NEW f \in Of({"CHoCH"})', f.direction # dir'
        PROVE  \E c \in Of({"CHoCH"})' : c.direction = dir' /\ f.index < c.index
    BY <2>1, <2>3, <2>5 DEF Of
  <2> QED BY <2>4, <2>5 DEF SinceTurn
<1>4. ASSUME NEW e \in MarketEvent, events' = events \cup {e}, e.type = event',
             e.direction = heading', RowBos \/ RowMss \/ RowInvalidated
      PROVE  SinceTurn'
  <2>1. dir' = dir \/ events = {}
    BY <1>4, EventCases DEF RowBos, RowMss, RowInvalidated, RowChoch
  <2>2. e.type # "CHoCH" /\ e.direction = IF e.type = "MSS" THEN Opp(dir') ELSE dir'
    BY <1>4 DEF RowBos, RowMss, RowInvalidated
  <2>3. Of({"CHoCH"})' = Of({"CHoCH"})
    BY <1>4, <2>2 DEF Of
  <2> QED BY <1>1, <1>4, <2>1, <2>2, <2>3 DEF SinceTurn, Of
<1> QED BY <1>2, <1>3, <1>4, EventCases

LEMMA RunningStep ==
  ASSUME SetupOK, Row, events' = events \cup StructureEvents PROVE RunningCycle'
<1>1. RunningCycle
  BY DEF SetupOK
<1>2. CASE RowQuiet /\ events' = events
  <2>1. dir' = dir \/ events = {}
    BY <1>2, EventCases, EventFacts DEF RowQuiet, RowChoch, EventNames
  <2>2. origin' = origin
    BY <1>2 DEF RowQuiet
  <2> QED BY <1>1, <1>2, <2>1, <2>2 DEF RunningCycle, IsOpen, Resolving, Of
<1>3. ASSUME NEW e \in MarketEvent, events' = events \cup {e}, e.index = at, e.type = event',
             RowChoch \/ RowInvalidated
      PROVE  RunningCycle'
  <2>1. origin' = None /\ e \in Resolving'
    BY <1>3 DEF RowChoch, RowInvalidated, Resolving, Of
  <2>2. \A f \in events' : ~(e.index < f.index)
    BY <1>3, EventFacts
  <2> QED BY <2>1, <2>2 DEF RunningCycle, IsOpen
<1>4. ASSUME NEW e \in MarketEvent, events' = events \cup {e}, e.index = at, e.type = event',
             e.direction = heading', RowBos \/ RowMss
      PROVE  RunningCycle'
  <2>1. dir' = dir \/ events = {}
    BY <1>4, EventCases DEF RowBos, RowMss, RowChoch
  <2>2. e.type \in {"BOS", "MSS"} /\ origin = None
    BY <1>4 DEF RowBos, RowMss
  <2>3. Resolving' = Resolving
    BY <1>4, <2>2 DEF Resolving, Of
  <2>4. ASSUME NEW f \in events, IsOpen(f.index)
        PROVE  f.type = "BOS" /\ f.direction = dir' /\ f.index < at
    BY <1>1, <2>1, <2>2, <2>4, EventFacts DEF RunningCycle
  <2>5. CASE RowBos
    <3>1. e.type = "BOS" /\ e.direction = dir' /\ origin' = None
      BY <1>4, <2>5 DEF RowBos
    <3> QED BY <1>4, <2>3, <2>4, <3>1 DEF RunningCycle, IsOpen
  <2>6. CASE RowMss
    <3>1. e.type = "MSS" /\ e.direction = Opp(dir') /\ origin' = at
      BY <1>4, <2>6 DEF RowMss
    <3>2. \A r \in Resolving' : r.index < at
      BY <2>3, EventFacts DEF Resolving, Of
    <3>3. \A f \in events' : f.index <= at
      BY <1>4, EventFacts
    <3>4. e \in Of({"MSS"})'
      BY <1>4, <3>1 DEF Of
    <3> QED BY <1>4, <2>3, <2>4, <3>1, <3>2, <3>3, <3>4 DEF RunningCycle, IsOpen
  <2> QED BY <1>4, <2>5, <2>6
<1> QED BY <1>2, <1>3, <1>4, EventCases

LEMMA OriginsStep ==
  ASSUME SetupOK, Row, events' = events \cup StructureEvents PROVE OriginsBehind'
<1>1. OriginsBehind
  BY DEF SetupOK
<1>2. CASE events' = events
  BY <1>1, <1>2 DEF OriginsBehind, Of
<1>3. ASSUME NEW e \in MarketEvent, events' = events \cup {e}, e.index = at, e.type = event',
             e.origin = cited', RowBos \/ RowMss \/ RowChoch \/ RowInvalidated
      PROVE  OriginsBehind'
  <2>1. e.type = "MSS_INVALIDATED" => e.origin \in Nat /\ e.origin < e.index
    BY <1>3, EventFacts DEF RowBos, RowMss, RowChoch, RowInvalidated
  <2> QED BY <1>1, <1>3, <2>1 DEF OriginsBehind, Of
<1> QED BY <1>2, <1>3, EventCases

LEMMA LatestStep ==
  ASSUME SetupOK, Row, events' = events \cup StructureEvents PROVE LatestAgrees'
<1>1. LatestAgrees /\ RunningCycle /\ RowsApart /\ CycleOK
  BY DEF SetupOK, RegistryOK
<1> SUFFICES ASSUME NEW l \in events', IsLatest(l)'
             PROVE  IF l.type = "MSS"
                    THEN /\ l.direction = Opp(dir')
                         /\ phase' = "trending" <=>
                              \E f \in Of({"MSS_INVALIDATED"})' : f.origin = l.index
                    ELSE l.direction = dir'
  BY DEF LatestAgrees
<1>2. CASE RowQuiet /\ events' = events
  <2>1. dir' = dir /\ (phase' = "trending" <=> phase = "trending")
    <3>1. phase # "undecided"
      BY <1>1, <1>2 DEF RowsApart
    <3> QED BY <1>2, <3>1 DEF RowQuiet, SameTrend
  <2>2. IsLatest(l)
    BY <1>2 DEF IsLatest, Of
  <2> QED BY <1>1, <1>2, <2>1, <2>2 DEF LatestAgrees, Of
<1>3. ASSUME NEW e \in MarketEvent, events' = events \cup {e}, e.index = at, e.type = event',
             e.direction = heading', RowBos \/ RowMss \/ RowChoch
      PROVE  IF l.type = "MSS"
             THEN /\ l.direction = Opp(dir')
                  /\ phase' = "trending" <=>
                       \E f \in Of({"MSS_INVALIDATED"})' : f.origin = l.index
             ELSE l.direction = dir'
  <2>1. e \in Of({"BOS", "MSS", "CHoCH"})'
    BY <1>3 DEF Of, RowBos, RowMss, RowChoch
  <2>2. l = e
    BY <1>3, <2>1, EventFacts DEF IsLatest
  <2>3. \A f \in Of({"MSS_INVALIDATED"})' : f.origin # at
    BY <1>3, EventFacts DEF SetupOK, OriginsBehind, Of, RowBos, RowMss, RowChoch
  <2> QED BY <1>3, <2>2, <2>3 DEF RowBos, RowMss, RowChoch
<1>4. ASSUME NEW e \in MarketEvent, events' = events \cup {e}, e.index = at, e.type = event',
             e.origin = cited', RowInvalidated
      PROVE  IF l.type = "MSS"
             THEN /\ l.direction = Opp(dir')
                  /\ phase' = "trending" <=>
                       \E f \in Of({"MSS_INVALIDATED"})' : f.origin = l.index
             ELSE l.direction = dir'
  <2>1. /\ e.type = "MSS_INVALIDATED" /\ e.origin = origin /\ origin \in Nat /\ origin # None
        /\ dir' = dir /\ phase' = "trending"
    BY <1>4, EventFacts DEF RowInvalidated
  <2>2. Of({"BOS", "MSS", "CHoCH"})' = Of({"BOS", "MSS", "CHoCH"})
    BY <1>4, <2>1 DEF Of
  <2>3. l \in events /\ l.index \in Nat /\ \A f \in Of({"BOS", "MSS", "CHoCH"}) : f.index <= l.index
    BY <2>2, EventFacts DEF IsLatest, Of
  <2>4. PICK m \in Of({"MSS"}) : m.index = origin /\ m.direction = Opp(dir)
    BY <1>1, <2>1 DEF RunningCycle
  <2>5. m \in events /\ m.type = "MSS" /\ m \in Of({"BOS", "MSS", "CHoCH"})
    BY <2>4 DEF Of
  <2>6. l.index = origin
    BY <1>1, <2>1, <2>3, <2>4, <2>5 DEF RunningCycle
  <2>7. l = m
    BY <1>1, <2>3, <2>4, <2>5, <2>6 DEF RowsApart
  <2>8. e \in Of({"MSS_INVALIDATED"})'
    BY <1>4, <2>1 DEF Of
  <2> QED BY <2>1, <2>4, <2>5, <2>6, <2>7, <2>8
<1> QED BY <1>2, <1>3, <1>4, EventCases

\* An event on the last row does not change the cycles before it.
LEMMA CycleStays ==
  ASSUME SetupOK, Row, events' = events \cup StructureEvents, NEW i, NEW before \in Nat, before <= at
  PROVE  InCycleOf(i, before)' <=> InCycleOf(i, before)
<1>1. CASE events' = events
  BY <1>1 DEF InCycleOf, Of
<1>2. ASSUME NEW e \in MarketEvent, events' = events \cup {e}, e.index = at
      PROVE  InCycleOf(i, before)' <=> InCycleOf(i, before)
  <2>1. ~(e.index < before)
    BY <1>2, EventFacts
  <2> QED BY <1>2, <2>1 DEF InCycleOf, Of
<1> QED BY <1>1, <1>2, EventCases

LEMMA OpenIsInCycle ==
  ASSUME SetupOK, NEW i \in Nat, i <= at PROVE InCycleOf(i, at) <=> IsOpen(i)
BY EventFacts DEF InCycleOf, IsOpen, Resolving, Of

LEMMA SweepStep ==
  ASSUME SetupOK, Row, events' = events \cup StructureEvents PROVE SweepCycleHoldsOneShift'
<1>1. SweepCycleHoldsOneShift /\ RunningCycle /\ RowsApart
  BY DEF SetupOK
\* The cycles of the earlier CHoCHs.
<1>2. ASSUME NEW c \in Of({"CHoCH"})
      PROVE  \E m \in Of({"MSS"})' :
               /\ m.direction = c.direction /\ m.index < c.index /\ InCycleOf(m.index, c.index)'
               /\ \A f \in events' \ {m, c} : InCycleOf(f.index, c.index)' =>
                    f.type = "BOS" /\ f.direction = Opp(c.direction) /\ f.index < m.index
  <2>1. c \in events /\ c.index \in Nat /\ c.index < at /\ at \in Nat
    BY EventFacts DEF Of
  <2>2. PICK m \in Of({"MSS"}) :
          /\ m.direction = c.direction /\ m.index < c.index /\ InCycleOf(m.index, c.index)
          /\ \A f \in events \ {m, c} : InCycleOf(f.index, c.index) =>
               f.type = "BOS" /\ f.direction = Opp(c.direction) /\ f.index < m.index
    BY <1>1 DEF SweepCycleHoldsOneShift
  <2>3. m \in Of({"MSS"})'
    BY <2>2 DEF Of
  <2>4. \A i : InCycleOf(i, c.index)' <=> InCycleOf(i, c.index)
    BY <2>1, CycleStays
  <2>5. \A f \in events' : f \in events \/ ~InCycleOf(f.index, c.index)'
    BY <2>1, EventCases DEF InCycleOf
  <2> QED BY <2>2, <2>3, <2>4, <2>5
\* The cycle that a CHoCH on this row ends.
<1>3. ASSUME NEW e \in MarketEvent, events' = events \cup {e}, e.index = at, e.type = event',
             e.direction = heading', RowChoch
      PROVE  \E m \in Of({"MSS"})' :
               /\ m.direction = e.direction /\ m.index < e.index /\ InCycleOf(m.index, e.index)'
               /\ \A f \in events' \ {m, e} : InCycleOf(f.index, e.index)' =>
                    f.type = "BOS" /\ f.direction = Opp(e.direction) /\ f.index < m.index
  <2>1. /\ origin \in Nat /\ origin # None /\ origin < at /\ at \in Nat
        /\ e.direction = Opp(dir) /\ Opp(e.direction) = dir
    BY <1>3, EventFacts, Opposite DEF RowChoch
  <2>2. PICK m \in Of({"MSS"}) : m.index = origin /\ m.direction = Opp(dir)
    BY <1>1, <2>1 DEF RunningCycle
  <2>3. m \in Of({"MSS"})' /\ m \in events
    BY <2>2 DEF Of
  <2>4. InCycleOf(m.index, e.index)'
    BY <1>1, <1>3, <2>1, <2>2, CycleStays, OpenIsInCycle DEF RunningCycle
  <2>5. ASSUME NEW f \in events' \ {m, e}, InCycleOf(f.index, e.index)'
        PROVE  f.type = "BOS" /\ f.direction = Opp(e.direction) /\ f.index < m.index
    <3>1. f \in events /\ f.index \in Nat /\ f.index < at
      BY <1>3, <2>5, EventFacts
    <3>2. IsOpen(f.index)
      BY <1>3, <2>1, <2>5, <3>1, CycleStays, OpenIsInCycle
    <3>3. f.index # origin
      BY <1>1, <2>2, <2>3, <2>5, <3>1 DEF RowsApart
    <3> QED BY <1>1, <2>1, <2>2, <3>1, <3>2, <3>3 DEF RunningCycle
  <2> QED BY <1>3, <2>1, <2>2, <2>3, <2>4, <2>5
<1>4. ASSUME NEW c \in Of({"CHoCH"})', c \notin Of({"CHoCH"})
      PROVE  \E e \in MarketEvent : /\ c = e /\ events' = events \cup {e} /\ e.index = at
                                    /\ e.type = event' /\ e.direction = heading' /\ RowChoch
  BY <1>4, EventCases DEF Of, RowBos, RowMss, RowInvalidated
<1> QED BY <1>2, <1>3, <1>4 DEF SweepCycleHoldsOneShift

LEMMA BlocksEventsStep ==
  ASSUME SetupOK, Row, events' = events \cup StructureEvents PROVE BlocksHaveEvents'
<1>1. BlocksHaveEvents /\ RunningCycle /\ RegistryOK
  BY DEF SetupOK
<1>2. PICK born \in BOOLEAN : Registry(born)
  BY <1>1, RegistryStep DEF RegistryOK
<1> SUFFICES ASSUME NEW c \in blocks'
             PROVE  /\ \E e \in events' :
                         e.type = c.source /\ e.index = c.created /\ e.direction = c.type
                    /\ c.confirmed # None => InCycleOf(c.created, c.confirmed)'
  BY DEF BlocksHaveEvents
<1>3. CASE Born(c)
  <2>1. event' # None
    BY <1>3, EventFacts DEF Born, EventNames
  <2>2. PICK e \in MarketEvent :
          events' = events \cup {e} /\ e.index = at /\ e.type = event' /\ e.direction = heading'
    BY <2>1, NewEvent
  <2> QED BY <1>3, <2>2 DEF Born
<1>4. CASE \E b \in blocks : Survives(b, c)
  <2>1. PICK b \in blocks : Survives(b, c)
    BY <1>4
  <2>2. c.created = b.created /\ c.type = b.type /\ c.source = b.source
    BY <2>1 DEF Survives
  <2>3. \E e \in events' : e.type = c.source /\ e.index = c.created /\ e.direction = c.type
    BY <1>1, <2>2 DEF BlocksHaveEvents
  <2>4. ASSUME Promotes(b) PROVE InCycleOf(c.created, c.confirmed)'
    <3>1. RowChoch /\ b.created = origin /\ c.confirmed = at
      BY <1>1, <2>1, <2>4, PromotesOfShift DEF Survives
    <3>2. origin \in Nat /\ origin # None /\ origin <= at /\ at \in Nat
      BY <3>1, EventFacts DEF RowChoch
    <3>3. InCycleOf(origin, at)
      BY <1>1, <3>2, OpenIsInCycle DEF RunningCycle
    <3> QED BY <2>2, <3>1, <3>2, <3>3, CycleStays
  <2>5. ASSUME ~Promotes(b), c.confirmed # None PROVE InCycleOf(c.created, c.confirmed)'
    <3>1. c.confirmed = b.confirmed /\ b.confirmed # None
      BY <2>1, <2>5 DEF Survives
    <3>2. b.confirmed \in Nat /\ b.confirmed <= at
      BY <1>1, <3>1, EventFacts DEF RegistryOK, BlocksOK, TypeOK, Block
    <3> QED BY <1>1, <2>2, <3>1, <3>2, CycleStays DEF BlocksHaveEvents
  <2> QED BY <2>3, <2>4, <2>5
<1> QED BY <1>2, <1>3, <1>4 DEF Registry

LEMMA SetupInitOK == SetupInit => SetupOK
<1> SUFFICES ASSUME SetupInit PROVE SetupOK
  OBVIOUS
<1>1. RegistryOK /\ events = {} /\ blocks = {} /\ origin = None
  BY RegistryInit DEF SetupInit, Init, Cycle!Init
<1>2. RowsApart /\ SinceTurn /\ RunningCycle /\ OriginsBehind /\ LatestAgrees
  BY <1>1 DEF RowsApart, SinceTurn, RunningCycle, OriginsBehind, LatestAgrees, Of
<1>3. SweepCycleHoldsOneShift /\ BlocksHaveEvents
  BY <1>1 DEF SweepCycleHoldsOneShift, BlocksHaveEvents, Of
<1> QED BY <1>1, <1>2, <1>3 DEF SetupOK

LEMMA SetupNextOK == SetupOK /\ [SetupNext]_setupVars => SetupOK'
<1>1. ASSUME SetupOK, SetupNext PROVE SetupOK'
  <2>1. Row /\ events' = events \cup StructureEvents
    BY <1>1 DEF SetupNext
  <2>2. RegistryOK'
    BY <1>1, <2>1, RegistryNext DEF SetupOK, Next
  <2> QED BY <1>1, <2>1, <2>2, ApartStep, SinceTurnStep, RunningStep, OriginsStep, LatestStep,
             SweepStep, BlocksEventsStep DEF SetupOK
<1>2. ASSUME SetupOK, UNCHANGED setupVars PROVE SetupOK'
  <2>1. UNCHANGED vars /\ events' = events
    BY <1>2 DEF setupVars
  <2>2. RegistryOK'
    BY <1>2, <2>1, RegistryNext DEF SetupOK
  <2>3. /\ at' = at /\ dir' = dir /\ phase' = phase /\ origin' = origin /\ blocks' = blocks
        /\ events' = events
    BY <2>1 DEF vars, blockVars, Cycle!vars
  <2>4. RowsApart' /\ SinceTurn' /\ RunningCycle' /\ OriginsBehind' /\ LatestAgrees'
    BY <1>2, <2>3 DEF SetupOK, RowsApart, SinceTurn, RunningCycle, OriginsBehind, LatestAgrees,
                      IsLatest, IsOpen, Resolving, Of
  <2>5. SweepCycleHoldsOneShift' /\ BlocksHaveEvents'
    BY <1>2, <2>3 DEF SetupOK, SweepCycleHoldsOneShift, BlocksHaveEvents, InCycleOf, Of
  <2> QED BY <1>2, <2>2, <2>3, <2>4, <2>5 DEF SetupOK
<1> QED BY <1>1, <1>2

-----------------------------------------------------------------------------
(* What the strategy may rely on *)

LEMMA CurrentFollows == SetupOK => ChochIsCurrent
<1> SUFFICES ASSUME SetupOK, NEW d \in Dir, NEW i \in 0..at, IsChoch(d, i),
                    NEW e \in events, e.index > i
             PROVE  e.type # "CHoCH" /\ e.direction = IF e.type = "MSS" THEN Opp(d) ELSE d
  BY DEF ChochIsCurrent
<1>1. i \in Nat /\ e.index \in Nat /\ \A f \in events : f.index \in Nat
  BY EventFacts
<1>2. ~\E c \in Of({"CHoCH"}) : c.index > i
  <2> SUFFICES ASSUME NEW c \in Of({"CHoCH"}), c.index > i PROVE FALSE
    OBVIOUS
  <2>1. c \in events
    BY DEF Of
  <2>2. CASE c.direction = dir
    BY <1>1, <2>1, <2>2 DEF IsChoch
  <2>3. CASE c.direction # dir
    <3>1. PICK f \in Of({"CHoCH"}) : f.direction = dir /\ c.index < f.index
      BY <2>3 DEF SetupOK, SinceTurn
    <3>2. f \in events /\ f.index > i
      BY <1>1, <2>1, <3>1 DEF Of
    <3> QED BY <1>1, <3>1, <3>2 DEF IsChoch
  <2> QED BY <2>2, <2>3
<1>3. \A c \in Of({"CHoCH"}) : c.index <= e.index
  BY <1>1, <1>2 DEF Of
<1>4. e.type # "CHoCH"
  BY <1>2 DEF Of
<1> QED BY <1>3, <1>4 DEF SetupOK, SinceTurn, IsChoch

LEMMA BlockFollows == SetupOK => BlockIsOfThisShift
<1> SUFFICES ASSUME SetupOK, NEW d \in Dir, NEW i \in 0..at, NEW b \in blocks,
                    IsChoch(d, i), IsChosen(b, d, i)
             PROVE  \/ b.source = "CHoCH" /\ b.created = i
                    \/ /\ b.source = "MSS" /\ InCycleOf(b.created, i)
                       /\ \E m \in Of({"MSS"}) : m.index = b.created /\ m.direction = d
  BY DEF BlockIsOfThisShift
<1>1. b.type = d /\ i = IF b.confirmed # None THEN b.confirmed ELSE b.created
  BY DEF IsChosen, IsLinked
<1>2. PICK e \in events : e.type = b.source /\ e.index = b.created /\ e.direction = d
  BY <1>1 DEF SetupOK, BlocksHaveEvents
<1>3. CASE b.confirmed # None
  <2>1. b.source = "MSS" /\ InCycleOf(b.created, i)
    BY <1>1, <1>3 DEF SetupOK, RegistryOK, BlocksOK, BlocksHaveEvents
  <2> QED BY <1>2, <2>1 DEF Of
<1>4. CASE b.confirmed = None
  <2>1. PICK c \in Of({"CHoCH"}) : c.index = i
    BY DEF IsChoch
  <2>2. e = c
    BY <1>1, <1>2, <1>4, <2>1 DEF SetupOK, RowsApart, Of
  <2> QED BY <1>1, <1>2, <1>4, <2>1, <2>2 DEF Of
<1> QED BY <1>3, <1>4

LEMMA Least == ASSUME NEW S \in SUBSET Nat, S # {}
               PROVE  \E n \in S : \A m \in S : n <= m
<1> DEFINE Smaller == {ss \in Nat \X Nat : ss[1] < ss[2]}
<1>1. IsWellFoundedOn(Smaller, Nat)
  BY NatLessThanWellFounded, Zenon DEF OpToRel
<1> HIDE DEF Smaller
<1>2. \E n \in S : \A m \in S : <<m, n>> \notin Smaller
  BY <1>1, WFMin
<1>3. \A n, m \in Nat : <<m, n>> \notin Smaller => n <= m
  BY DEF Smaller
<1> QED BY <1>2, <1>3

\* A list with a BOS, an MSS or a CHoCH has a latest one.
LEMMA LatestExists ==
  ASSUME SetupOK, Of({"BOS", "MSS", "CHoCH"}) # {}
  PROVE  IsLatest(LatestEvent)
<1> DEFINE Three == Of({"BOS", "MSS", "CHoCH"})
           Ages == {at - e.index : e \in Three}
<1>1. at \in Nat /\ \A e \in Three : e.index \in Nat /\ e.index < at
  BY EventFacts DEF Of
<1> HIDE DEF Three
<1>2. Ages \in SUBSET Nat /\ Ages # {}
  BY <1>1 DEF Three
<1>3. PICK n \in Ages : \A m \in Ages : n <= m
  BY <1>2, Least
<1>4. PICK e \in Three : n = at - e.index
  BY <1>3
<1>5. \A f \in Three : f.index <= e.index
  BY <1>1, <1>3, <1>4
<1>6. LatestEvent = CHOOSE x \in Three : \A f \in Three : f.index <= x.index
  BY DEF LatestEvent, Three
<1>7. LatestEvent \in Three /\ \A f \in Three : f.index <= LatestEvent.index
  BY <1>5, <1>6
<1> QED BY <1>7 DEF IsLatest, Three

LEMMA SnapshotFollows == SetupOK => SnapshotAgrees
<1> SUFFICES ASSUME SetupOK, Of({"BOS", "MSS", "CHoCH"}) # {}
             PROVE  IF LatestEvent.type = "MSS"
                    THEN /\ LatestEvent.direction = Opp(dir)
                         /\ phase = "trending" <=>
                              \E f \in Of({"MSS_INVALIDATED"}) : f.origin = LatestEvent.index
                    ELSE LatestEvent.direction = dir
  BY DEF SnapshotAgrees
<1>1. IsLatest(LatestEvent)
  BY LatestExists
<1>2. LatestEvent \in events
  BY <1>1 DEF IsLatest, Of
<1> QED BY <1>1, <1>2 DEF SetupOK, LatestAgrees

-----------------------------------------------------------------------------
\* The registry and the events stay as the properties need them.
THEOREM Invariance == SetupSpec => []SetupOK
BY SetupInitOK, SetupNextOK, PTL DEF SetupSpec

\* Type correctness of the registry and of the event list.
THEOREM TypeCorrect == SetupSpec => []SetupTypeOK
<1>1. SetupOK => SetupTypeOK
  BY DEF SetupOK, RegistryOK, SetupTypeOK
<1> QED BY <1>1, Invariance, PTL

\* The block engine's pending shift is the structure engine's.
THEOREM PendingCurrent == SetupSpec => []PendingIsCurrent
<1>1. SetupOK => PendingIsCurrent
  BY DEF SetupOK, RegistryOK
<1> QED BY <1>1, Invariance, PTL

\* A CHoCH leaves one block on an anchor candle.
THEOREM FootprintsDiffer == SetupSpec => []OneFootprint
<1>1. SetupOK => OneFootprint
  BY DEF SetupOK, RegistryOK
<1> QED BY <1>1, Invariance, PTL

\* The CHoCH a signal is anchored on made the trend that rules.
THEOREM ChochCurrent == SetupSpec => []ChochIsCurrent
<1>1. SetupOK => ChochIsCurrent
  BY CurrentFollows
<1> QED BY <1>1, Invariance, PTL

\* The rows in which a sweep is accepted hold exactly the shift it belongs to.
THEOREM SweepCycleOneShift == SetupSpec => []SweepCycleHoldsOneShift
<1>1. SetupOK => SweepCycleHoldsOneShift
  BY DEF SetupOK
<1> QED BY <1>1, Invariance, PTL

\* The chosen block was created by the reversal of the CHoCH.
THEOREM BlockOfThisShift == SetupSpec => []BlockIsOfThisShift
<1>1. SetupOK => BlockIsOfThisShift
  BY BlockFollows
<1> QED BY <1>1, Invariance, PTL

\* The snapshot's latest event agrees with the trend it is shown with.
THEOREM SnapshotsAgree == SetupSpec => []SnapshotAgrees
<1>1. SetupOK => SnapshotAgrees
  BY SnapshotFollows
<1> QED BY <1>1, Invariance, PTL

\* The row that resolves a shift settles every block of that shift.
THEOREM ResolutionComplete == SetupSpec => ResolutionIsComplete
<1> DEFINE Settles ==
      \A b \in blocks' : b.source = "MSS" /\ b.created = origin =>
        /\ event' = "CHoCH" => /\ b.confirmation = "confirmed" /\ b.confirmed = at
                               /\ b.type = dir'
        /\ event' = "MSS_INVALIDATED" => b.confirmation = "provisional" /\ ~IsActive(b)
<1>1. SetupOK /\ [SetupNext]_setupVars => [Settles]_vars
  BY ResolutionStep DEF SetupOK, SetupNext, setupVars
<1> HIDE DEF Settles
<1>2. SetupSpec => [][Settles]_vars
  BY <1>1, Invariance, PTL DEF SetupSpec
<1> QED BY <1>2 DEF Settles, ResolutionIsComplete

\* No row revives a block, takes a promotion back or promotes another shift's.
THEOREM LifecycleFinal == SetupSpec => LifecycleIsFinal
<1> DEFINE Keeps ==
      \A b \in blocks : \E c \in blocks' :
        /\ <<c.created, c.type, c.anchor, c.source>> = <<b.created, b.type, b.anchor, b.source>>
        /\ ~IsActive(b) => <<c.status, c.reason>> = <<b.status, b.reason>>
        /\ IF b.confirmation = "provisional" /\ event' = "CHoCH" /\ b.created = origin
           THEN c.confirmation = "confirmed"
           ELSE <<c.confirmation, c.confirmed>> = <<b.confirmation, b.confirmed>>
<1>1. SetupOK /\ [SetupNext]_setupVars => [Keeps]_vars
  BY LifecycleStep DEF SetupOK, SetupNext, setupVars
<1> HIDE DEF Keeps
<1>2. SetupSpec => [][Keeps]_vars
  BY <1>1, Invariance, PTL DEF SetupSpec
<1> QED BY <1>2 DEF Keeps, LifecycleIsFinal
=============================================================================

------------------------- MODULE ManualSignalProofs -------------------------
(***************************************************************************)
(* The properties of ManualSignal for every account balance, risk, price,  *)
(* block and volume limit.                                                 *)
(***************************************************************************)
EXTENDS ManualSignal, TLAPS

-----------------------------------------------------------------------------
(* What an evaluation has established when it comes to a step. *)

AfterH4 == {"H1", "M15", "M5", "entry", "levels", "size"}
AfterH1 == AfterH4 \ {"H1"}
AfterM15 == AfterH1 \ {"M15"}
AfterM5 == AfterM15 \ {"M5"}

Progress ==
  /\ step # "done" => answer = None
  /\ step \in AfterH4 \cup {"positions", "H4"} => read \in Accounts /\ read.demo
  /\ step \in AfterH4 => heading \in Dir /\ "h4_bias" \in passed
  /\ step \in AfterH1 => "h1_confirmation" \in passed
  /\ step \in AfterM15 =>
       /\ block \in Blocks \cap BlockOf(heading)
       /\ {"choch", "liquidity_sweep", "order_block", "retracement"} \subseteq passed
  /\ step \in AfterM5 => entry \in Prices
  /\ step = "size" => StopIsBehind(heading, entry, block.distal)

\* A position that has been open all along has been seen, or its read failed.
PositionSeen ==
  /\ kept => traded
  /\ step \in AfterH4 \cup {"H4"} /\ kept => blind

\* A rejection leaves the evidence of the gates before the one that rejected.
EvidenceBehind ==
  IsRejection =>
    /\ answer.reason \in Reasons
    /\ answer.reason \notin {"account", "position", "h4"} => "h4_bias" \in passed
    /\ answer.reason \notin {"account", "position", "h4", "h1"} => "h1_confirmation" \in passed
    /\ answer.reason \notin {"account", "position", "h4", "h1", "choch"} => "choch" \in passed
    /\ answer.reason \notin {"account", "position", "h4", "h1", "choch", "sweep"} =>
         "liquidity_sweep" \in passed
    /\ answer.reason \notin {"account", "position", "h4", "h1", "choch", "sweep",
                             "order_block", "retracement"} => "retracement" \in passed

IInv == TypeOK /\ Progress /\ PositionSeen /\ EvidenceBehind /\ OneTradeAtATime /\ SignalIsSound

-----------------------------------------------------------------------------
(* Sizing *)

LEMMA DivisionBound == ASSUME NEW a \in Int, NEW n \in Nat \ {0}
                       PROVE  a \div n \in Int /\ (a \div n) * n <= a
BY Z3

LEMMA Monotone == ASSUME NEW a \in Int, NEW b \in Int, NEW c \in Nat, a <= b
                  PROVE  a * c <= b * c
BY Z3

\* A volume that is traded loses at most the part of the balance at risk.
LEMMA VolumeWithinRisk ==
  ASSUME NEW balance \in Int, NEW distance \in Nat \ {0}, Volume(balance, distance) # 0
  PROVE  /\ Volume(balance, distance) \in VolumeMin..VolumeMax
         /\ Volume(balance, distance) * distance * RiskPart <= balance
<1> DEFINE part == balance \div RiskPart
           steps == part \div distance
           v == Volume(balance, distance)
<1>1. part \in Int /\ part * RiskPart <= balance
  BY DivisionBound, MoneyAssumption
<1>2. steps \in Int /\ steps * distance <= part
  BY <1>1, DivisionBound
<1>3. v \in VolumeMin..VolumeMax /\ v <= steps
  BY <1>2, VolumeAssumption DEF Volume
<1> HIDE DEF part, steps, v
<1>4. v \in Int /\ v * distance <= part
  BY <1>1, <1>2, <1>3, Monotone, VolumeAssumption, Z3
<1>5. v * distance \in Int
  BY <1>4
<1>6. v * distance * RiskPart <= part * RiskPart
  BY <1>1, <1>4, <1>5, Monotone, MoneyAssumption
<1>7. v * distance * RiskPart \in Int /\ part * RiskPart \in Int
  BY <1>1, <1>5, MoneyAssumption
<1> QED BY <1>1, <1>3, <1>6, <1>7 DEF v

-----------------------------------------------------------------------------
(* Categories *)

\* A category comes from a rule all of whose keywords occur.
LEMMA DepthFromRule ==
  ASSUME NEW reason \in Reasons
  PROVE  Depth(reason) = 0 \/ \E i \in 1..5 : Depth(reason) = Rules[i].depth /\ Matches(i, reason)
<1>1. DOMAIN Rules = 1..5
  BY DEF Rules
<1>2. CASE ~\E i \in DOMAIN Rules : Matches(i, reason)
  BY <1>2 DEF Depth
<1>3. CASE \E i \in DOMAIN Rules : Matches(i, reason)
  <2> DEFINE First(i) == Matches(i, reason) /\ \A j \in 1..(i - 1) : ~Matches(j, reason)
  <2> HIDE DEF First
  <2>1. \E i \in DOMAIN Rules : First(i)
    <3>1. \A i \in 1..5 : 1..(i - 1) = {j \in 1..5 : j < i}
      OBVIOUS
    <3>2. /\ Matches(1, reason) => First(1)
          /\ Matches(2, reason) /\ ~Matches(1, reason) => First(2)
          /\ Matches(3, reason) /\ ~Matches(1, reason) /\ ~Matches(2, reason) => First(3)
          /\ Matches(4, reason) /\ ~Matches(1, reason) /\ ~Matches(2, reason)
             /\ ~Matches(3, reason) => First(4)
          /\ Matches(5, reason) /\ ~Matches(1, reason) /\ ~Matches(2, reason)
             /\ ~Matches(3, reason) /\ ~Matches(4, reason) => First(5)
      BY <3>1 DEF First
    <3>3. \E i \in {1, 2, 3, 4, 5} : Matches(i, reason)
      BY <1>1, <1>3
    <3> QED BY <1>1, <3>2, <3>3
  <2> DEFINE k == CHOOSE i \in DOMAIN Rules : First(i)
  <2>2. k \in DOMAIN Rules /\ First(k)
    BY <2>1
  <2>3. Depth(reason) = Rules[k].depth
    BY <1>3 DEF Depth, First
  <2> QED BY <1>1, <2>2, <2>3 DEF First
<1> QED BY <1>2, <1>3

\* What a category says about the reason it was derived from.
LEMMA DepthBound ==
  ASSUME NEW reason \in Reasons
  PROVE  /\ Depth(reason) \in 0..5
         /\ Depth(reason) >= 1 => reason \notin {"account", "position", "h4", "levels", "size"}
         /\ Depth(reason) >= 2 => reason \in {"choch", "sweep", "order_block", "retracement", "m5", "entry"}
         /\ Depth(reason) >= 3 => reason \in {"sweep", "order_block", "retracement", "m5", "entry"}
         /\ Depth(reason) >= 4 => reason \in {"order_block", "retracement", "m5", "entry"}
         /\ Depth(reason) >= 5 => reason = "m5"
<1>1. /\ Rules[1].depth = 5 /\ Rules[2].depth = 1 /\ Rules[3].depth = 4
      /\ Rules[4].depth = 3 /\ Rules[5].depth = 2
  BY DEF Rules
<1>2. /\ Matches(1, reason) => {"m5", "candles"} \subseteq Words(reason)
      /\ Matches(2, reason) => {"h1", "h4", "bias"} \subseteq Words(reason)
      /\ Matches(3, reason) => "order block" \in Words(reason)
      /\ Matches(4, reason) => {"liquidity sweep", "m15"} \subseteq Words(reason)
      /\ Matches(5, reason) => {"choch", "m15"} \subseteq Words(reason)
  BY DEF Matches, Rules
<1>3. /\ "candles" \in Words(reason) => reason = "m5"
      /\ "h1" \in Words(reason) => reason = "h1"
      /\ "order block" \in Words(reason) => reason \in {"order_block", "retracement", "entry"}
      /\ {"liquidity sweep", "m15"} \subseteq Words(reason) => reason = "sweep"
      /\ {"choch", "m15"} \subseteq Words(reason) => reason \in {"choch", "sweep", "order_block"}
  BY DEF Words, Reasons
<1>4. CASE Depth(reason) = 0
  BY <1>4
<1>5. ASSUME NEW i \in 1..5, Depth(reason) = Rules[i].depth, Matches(i, reason)
      PROVE  \/ Depth(reason) = 5 /\ reason = "m5"
             \/ Depth(reason) = 1 /\ reason = "h1"
             \/ Depth(reason) = 4 /\ reason \in {"order_block", "retracement", "entry"}
             \/ Depth(reason) = 3 /\ reason = "sweep"
             \/ Depth(reason) = 2 /\ reason \in {"choch", "sweep", "order_block"}
  <2>1. i = 1 \/ i = 2 \/ i = 3 \/ i = 4 \/ i = 5
    BY <1>5
  <2> QED BY <2>1, <1>1, <1>2, <1>3, <1>5
<1>6. Depth(reason) = 0 \/ \E i \in 1..5 : Depth(reason) = Rules[i].depth /\ Matches(i, reason)
  BY DepthFromRule
<1>7. CASE \E i \in 1..5 : Depth(reason) = Rules[i].depth /\ Matches(i, reason)
  <2>1. \/ Depth(reason) = 5 /\ reason = "m5"
        \/ Depth(reason) = 1 /\ reason = "h1"
        \/ Depth(reason) = 4 /\ reason \in {"order_block", "retracement", "entry"}
        \/ Depth(reason) = 3 /\ reason = "sweep"
        \/ Depth(reason) = 2 /\ reason \in {"choch", "sweep", "order_block"}
    BY <1>5, <1>7
  <2> HIDE DEF Depth
  <2> QED BY <2>1
<1> QED BY <1>4, <1>6, <1>7

LEMMA CategoryFollows == EvidenceBehind => CategoryNeverDeeper
BY DepthBound DEF EvidenceBehind, CategoryNeverDeeper, Reasons

-----------------------------------------------------------------------------
(* The inductive invariant, step by step. *)

LEMMA InitIInv == Init => IInv
<1> SUFFICES ASSUME Init PROVE IInv
  OBVIOUS
<1>1. TypeOK
  BY DEF Init, Fresh, TypeOK, Steps
<1>2. Progress /\ PositionSeen
  BY DEF Init, Fresh, Progress, PositionSeen, AfterH4, AfterH1, AfterM15, AfterM5
<1>3. ~IsSignal /\ ~IsRejection
  BY DEF Init, Fresh, IsSignal, IsRejection
<1> QED BY <1>1, <1>2, <1>3 DEF IInv, EvidenceBehind, OneTradeAtATime, SignalIsSound

\* The world moves while the evaluation stands still.
LEMMA WorldStep == ASSUME IInv, Trade \/ Login PROVE IInv'
<1>1. TypeOK'
  BY DEF IInv, TypeOK, Trade, Login
<1>2. Progress' /\ EvidenceBehind' /\ SignalIsSound'
  BY DEF IInv, Trade, Login, Progress, EvidenceBehind, SignalIsSound, IsSignal, IsRejection
<1>3. PositionSeen' /\ OneTradeAtATime'
  BY DEF IInv, TypeOK, Trade, Login, PositionSeen, OneTradeAtATime, IsSignal
<1> QED BY <1>1, <1>2, <1>3 DEF IInv

\* A failure is neither a signal nor a rejection.
LEMMA FailStep == ASSUME IInv, Fail PROVE IInv'
<1>1. PICK status \in {"400", "500", "503"} : Answer([status |-> status])
  BY DEF Fail
<1>2. TypeOK'
  BY <1>1 DEF IInv, TypeOK, Fail, Answer, Failure, Steps, world
<1>3. Progress'
  BY <1>1 DEF IInv, Progress, Fail, Answer, AfterH4, AfterH1, AfterM15, AfterM5, world
<1>4. PositionSeen'
  BY <1>1 DEF IInv, PositionSeen, Fail, Answer, AfterH4, world
<1>5. ~IsSignal' /\ ~IsRejection'
  BY <1>1 DEF Answer, IsSignal, IsRejection
<1> QED BY <1>2, <1>3, <1>4, <1>5 DEF IInv, EvidenceBehind, OneTradeAtATime, SignalIsSound

LEMMA Rejected ==
  ASSUME NEW reason \in Reasons, Reject(reason)
  PROVE  /\ step' = "done" /\ answer' \in Rejection /\ answer'.reason = reason
         /\ ~IsSignal'
BY DEF Reject, Answer, Rejection, IsSignal, Blocking

LEMMA Continued ==
  ASSUME IInv, NEW next, Continue(next), step # "done"
  PROVE  step' = next /\ answer' = answer /\ answer = None /\ ~IsSignal' /\ ~IsRejection'
BY DEF IInv, Progress, Continue, IsSignal, IsRejection

LEMMA AccountStep == ASSUME IInv, ReadAccount PROVE IInv'
<1>1. CASE account.demo /\ Continue("positions")
  <2>1. step' = "positions" /\ answer' = answer /\ answer = None /\ ~IsSignal' /\ ~IsRejection'
    BY <1>1, Continued DEF ReadAccount
  <2>2. TypeOK' /\ Progress' /\ PositionSeen'
    BY <1>1, <2>1 DEF IInv, TypeOK, ReadAccount, Steps, world, Progress, PositionSeen,
                      AfterH4, AfterH1, AfterM15, AfterM5
  <2> QED BY <2>1, <2>2 DEF IInv, EvidenceBehind, OneTradeAtATime, SignalIsSound
<1>2. CASE Reject("account")
  <2>1. step' = "done" /\ answer' \in Rejection /\ answer'.reason = "account" /\ ~IsSignal'
    BY <1>2, Rejected DEF Reasons
  <2>2. TypeOK' /\ Progress' /\ PositionSeen'
    BY <2>1 DEF IInv, TypeOK, ReadAccount, Steps, world, Progress, PositionSeen,
                AfterH4, AfterH1, AfterM15, AfterM5
  <2>3. EvidenceBehind'
    BY <2>1 DEF EvidenceBehind, Reasons
  <2> QED BY <2>1, <2>2, <2>3 DEF IInv, OneTradeAtATime, SignalIsSound
<1> QED BY <1>1, <1>2 DEF ReadAccount

LEMMA PositionsStep == ASSUME IInv, CountPositions PROVE IInv'
<1>1. CASE ~(traded /\ ~blind') /\ Continue("H4")
  <2>1. step' = "H4" /\ answer' = answer /\ answer = None /\ ~IsSignal' /\ ~IsRejection'
    BY <1>1, Continued DEF CountPositions
  <2>2. TypeOK' /\ Progress' /\ PositionSeen'
    BY <1>1, <2>1 DEF IInv, TypeOK, CountPositions, Steps, world, Progress, PositionSeen,
                      AfterH4, AfterH1, AfterM15, AfterM5
  <2> QED BY <2>1, <2>2 DEF IInv, EvidenceBehind, OneTradeAtATime, SignalIsSound
<1>2. CASE Reject("position")
  <2>1. step' = "done" /\ answer' \in Rejection /\ answer'.reason = "position" /\ ~IsSignal'
    BY <1>2, Rejected DEF Reasons
  <2>2. TypeOK' /\ Progress' /\ PositionSeen'
    BY <2>1 DEF IInv, TypeOK, CountPositions, Steps, world, Progress, PositionSeen,
                AfterH4, AfterH1, AfterM15, AfterM5
  <2>3. EvidenceBehind'
    BY <2>1 DEF EvidenceBehind, Reasons
  <2> QED BY <2>1, <2>2, <2>3 DEF IInv, OneTradeAtATime, SignalIsSound
<1> QED BY <1>1, <1>2 DEF CountPositions

LEMMA H4Step == ASSUME IInv, ReadH4 PROVE IInv'
<1>1. CASE Reject("h4") /\ UNCHANGED <<heading, passed>>
  <2>1. step' = "done" /\ answer' \in Rejection /\ answer'.reason = "h4" /\ ~IsSignal'
    BY <1>1, Rejected DEF Reasons
  <2>2. TypeOK' /\ Progress' /\ PositionSeen'
    BY <1>1, <2>1 DEF IInv, TypeOK, ReadH4, Steps, world, Progress, PositionSeen,
                      AfterH4, AfterH1, AfterM15, AfterM5
  <2>3. EvidenceBehind'
    BY <2>1 DEF EvidenceBehind, Reasons
  <2> QED BY <2>1, <2>2, <2>3 DEF IInv, OneTradeAtATime, SignalIsSound
<1>2. CASE heading' \in Dir /\ passed' = {"h4_bias"} /\ Continue("H1")
  <2>1. step' = "H1" /\ answer' = answer /\ answer = None /\ ~IsSignal' /\ ~IsRejection'
    BY <1>2, Continued DEF ReadH4
  <2>2. TypeOK' /\ Progress' /\ PositionSeen'
    BY <1>2, <2>1 DEF IInv, TypeOK, ReadH4, Steps, Gates, world, Progress, PositionSeen,
                      AfterH4, AfterH1, AfterM15, AfterM5
  <2> QED BY <2>1, <2>2 DEF IInv, EvidenceBehind, OneTradeAtATime, SignalIsSound
<1> QED BY <1>1, <1>2 DEF ReadH4

LEMMA H1Step == ASSUME IInv, ReadH1 PROVE IInv'
<1>1. CASE Reject("h1") /\ UNCHANGED passed
  <2>1. step' = "done" /\ answer' \in Rejection /\ answer'.reason = "h1" /\ ~IsSignal'
    BY <1>1, Rejected DEF Reasons
  <2>2. TypeOK' /\ Progress' /\ PositionSeen' /\ "h4_bias" \in passed'
    BY <1>1, <2>1 DEF IInv, TypeOK, ReadH1, Steps, world, Progress, PositionSeen,
                      AfterH4, AfterH1, AfterM15, AfterM5
  <2>3. EvidenceBehind'
    BY <2>1, <2>2 DEF EvidenceBehind, Reasons
  <2> QED BY <2>1, <2>2, <2>3 DEF IInv, OneTradeAtATime, SignalIsSound
<1>2. CASE passed' = passed \cup {"h1_confirmation"} /\ Continue("M15")
  <2>1. step' = "M15" /\ answer' = answer /\ answer = None /\ ~IsSignal' /\ ~IsRejection'
    BY <1>2, Continued DEF ReadH1
  <2>2. TypeOK' /\ Progress' /\ PositionSeen'
    BY <1>2, <2>1 DEF IInv, TypeOK, ReadH1, Steps, Gates, world, Progress, PositionSeen,
                      AfterH4, AfterH1, AfterM15, AfterM5
  <2> QED BY <2>1, <2>2 DEF IInv, EvidenceBehind, OneTradeAtATime, SignalIsSound
<1> QED BY <1>1, <1>2 DEF ReadH1

\* Whichever check of the M15 series rejects, the earlier ones have passed.
LEMMA M15Rejects ==
  ASSUME IInv, ReadM15,
         NEW reason \in {"choch", "sweep", "order_block", "retracement"}, Reject(reason),
         passed \subseteq passed', passed' \subseteq Gates,
         reason # "choch" => "choch" \in passed',
         reason \notin {"choch", "sweep"} => "liquidity_sweep" \in passed',
         block' \in Blocks \cup {None}
  PROVE  IInv'
<1>1. step' = "done" /\ answer' \in Rejection /\ answer'.reason = reason /\ ~IsSignal'
  BY Rejected DEF Reasons
<1>2. TypeOK' /\ Progress' /\ PositionSeen'
  BY <1>1 DEF IInv, TypeOK, ReadM15, Steps, world, Progress, PositionSeen,
              AfterH4, AfterH1, AfterM15, AfterM5
<1>3. "h4_bias" \in passed' /\ "h1_confirmation" \in passed'
  BY DEF IInv, Progress, ReadM15, AfterH4, AfterH1
<1>4. EvidenceBehind'
  BY <1>1, <1>3 DEF EvidenceBehind, Reasons
<1> QED BY <1>1, <1>2, <1>4 DEF IInv, OneTradeAtATime, SignalIsSound

LEMMA M15Step == ASSUME IInv, ReadM15 PROVE IInv'
<1>1. passed \subseteq Gates /\ block \in Blocks \cup {None}
  BY DEF IInv, TypeOK
<1>2. CASE Reject("choch") /\ UNCHANGED <<block, passed>>
  BY <1>1, <1>2, M15Rejects
<1>3. CASE Reject("sweep") /\ passed' = passed \cup {"choch"} /\ UNCHANGED block
  BY <1>1, <1>3, M15Rejects DEF Gates
<1>4. CASE Reject("order_block") /\ passed' = passed \cup {"choch", "liquidity_sweep"}
           /\ UNCHANGED block
  BY <1>1, <1>4, M15Rejects DEF Gates
<1>5. CASE /\ block' \in Blocks \cap BlockOf(heading)
           /\ Reject("retracement")
           /\ passed' = passed \cup {"choch", "liquidity_sweep", "order_block"}
  BY <1>1, <1>5, M15Rejects DEF Gates
<1>6. CASE /\ block' \in Blocks \cap BlockOf(heading)
           /\ Continue("M5")
           /\ passed' = passed \cup {"choch", "liquidity_sweep", "order_block", "retracement"}
  <2>1. step' = "M5" /\ answer' = answer /\ answer = None /\ ~IsSignal' /\ ~IsRejection'
    BY <1>6, Continued DEF ReadM15
  <2>2. TypeOK' /\ PositionSeen'
    BY <1>6, <2>1 DEF IInv, TypeOK, ReadM15, Steps, Gates, world, PositionSeen, AfterH4
  <2>3. Progress'
    BY <1>6, <2>1 DEF IInv, ReadM15, world, Progress, AfterH4, AfterH1, AfterM15, AfterM5
  <2> QED BY <2>1, <2>2, <2>3 DEF IInv, EvidenceBehind, OneTradeAtATime, SignalIsSound
<1> QED BY <1>2, <1>3, <1>4, <1>5, <1>6 DEF ReadM15

\* From the M5 series on, a rejection finds every gate before it passed.
LEMMA LateRejection ==
  ASSUME IInv, step \in AfterM15, NEW reason \in {"m5", "entry", "levels", "size"},
         Reject(reason), UNCHANGED <<account, traded, read, blind, kept, heading, block, passed>>,
         entry' \in Prices \cup {None}
  PROVE  IInv'
<1>1. step' = "done" /\ answer' \in Rejection /\ answer'.reason = reason /\ ~IsSignal'
  BY Rejected DEF Reasons
<1>2. TypeOK' /\ Progress' /\ PositionSeen'
  BY <1>1 DEF IInv, TypeOK, Steps, Progress, PositionSeen, AfterH4, AfterH1, AfterM15, AfterM5
<1>3. {"h4_bias", "h1_confirmation", "choch", "liquidity_sweep", "retracement"} \subseteq passed'
  BY DEF IInv, Progress, AfterH4, AfterH1, AfterM15
<1>4. EvidenceBehind'
  BY <1>1, <1>3 DEF EvidenceBehind, Reasons
<1> QED BY <1>1, <1>2, <1>4 DEF IInv, OneTradeAtATime, SignalIsSound

LEMMA M5Step == ASSUME IInv, ReadM5 PROVE IInv'
<1>1. step \in AfterM15 /\ entry \in Prices \cup {None}
  BY DEF IInv, TypeOK, ReadM5, AfterH4, AfterH1, AfterM15
<1>2. CASE Reject("m5") /\ UNCHANGED <<entry, passed>>
  BY <1>1, <1>2, LateRejection DEF ReadM5, world
<1>3. CASE entry' \in Prices /\ passed' = passed \cup {"m5_confirmation"} /\ Continue("entry")
  <2>1. step' = "entry" /\ answer' = answer /\ answer = None /\ ~IsSignal' /\ ~IsRejection'
    BY <1>3, Continued DEF ReadM5
  <2>2. TypeOK' /\ Progress' /\ PositionSeen'
    BY <1>3, <2>1 DEF IInv, TypeOK, ReadM5, Steps, Gates, world, Progress, PositionSeen,
                      AfterH4, AfterH1, AfterM15, AfterM5
  <2> QED BY <2>1, <2>2 DEF IInv, EvidenceBehind, OneTradeAtATime, SignalIsSound
<1> QED BY <1>2, <1>3 DEF ReadM5

LEMMA EntryStep == ASSUME IInv, CheckEntry PROVE IInv'
<1>1. step \in AfterM15 /\ entry \in Prices \cup {None}
  BY DEF IInv, TypeOK, CheckEntry, AfterH4, AfterH1, AfterM15
<1>2. CASE Reject("entry")
  BY <1>1, <1>2, LateRejection DEF CheckEntry, world
<1>3. CASE Continue("levels")
  <2>1. step' = "levels" /\ answer' = answer /\ answer = None /\ ~IsSignal' /\ ~IsRejection'
    BY <1>3, Continued DEF CheckEntry
  <2>2. TypeOK' /\ Progress' /\ PositionSeen'
    BY <2>1 DEF IInv, TypeOK, CheckEntry, Steps, world, Progress, PositionSeen,
                AfterH4, AfterH1, AfterM15, AfterM5
  <2> QED BY <2>1, <2>2 DEF IInv, EvidenceBehind, OneTradeAtATime, SignalIsSound
<1> QED BY <1>2, <1>3 DEF CheckEntry

LEMMA LevelsStep == ASSUME IInv, CheckLevels PROVE IInv'
<1>1. step \in AfterM15 /\ entry \in Prices \cup {None}
  BY DEF IInv, TypeOK, CheckLevels, AfterH4, AfterH1, AfterM15
<1>2. CASE Reject("levels")
  BY <1>1, <1>2, LateRejection DEF CheckLevels, world
<1>3. CASE StopIsBehind(heading, entry, block.distal) /\ Continue("size")
  <2>1. step' = "size" /\ answer' = answer /\ answer = None /\ ~IsSignal' /\ ~IsRejection'
    BY <1>3, Continued DEF CheckLevels
  <2>2. TypeOK' /\ Progress' /\ PositionSeen'
    BY <1>3, <2>1 DEF IInv, TypeOK, CheckLevels, Steps, world, Progress, PositionSeen,
                      AfterH4, AfterH1, AfterM15, AfterM5, StopIsBehind
  <2> QED BY <2>1, <2>2 DEF IInv, EvidenceBehind, OneTradeAtATime, SignalIsSound
<1> QED BY <1>2, <1>3 DEF CheckLevels

LEMMA SizeStep == ASSUME IInv, Size PROVE IInv'
<1> DEFINE risk == Beyond(heading, entry, block.distal)
           volume == Volume(read.balance, risk)
<1>1. /\ step = "size" /\ step \in AfterM15 /\ entry \in Prices /\ heading \in Dir
      /\ block \in Blocks /\ block \in BlockOf(heading)
      /\ read \in Accounts /\ read.demo /\ risk > 0
  BY DEF Size, IInv, Progress, AfterH4, AfterH1, AfterM15, AfterM5, StopIsBehind
<1>2. /\ entry \in Nat /\ block.distal \in Nat /\ read.balance \in Int
      /\ risk \in Nat \ {0}
  <2>1. entry \in Nat /\ block.distal \in Nat
    BY <1>1, PricesAssumption DEF BlockOf
  <2>2. read.balance \in Int
    BY <1>1, MoneyAssumption DEF Accounts
  <2>3. risk \in Int
    BY <2>1 DEF Beyond
  <2> QED BY <1>1, <2>1, <2>2, <2>3
<1>3. UNCHANGED <<account, traded, read, blind, kept, heading, block, entry, passed>>
  BY DEF Size, world
<1>4. CASE Answer([status |-> "400"])
  <2>1. step' = "done" /\ answer' = [status |-> "400"] /\ ~IsSignal' /\ ~IsRejection'
    BY <1>4 DEF Answer, IsSignal, IsRejection
  <2>2. TypeOK' /\ Progress' /\ PositionSeen'
    BY <1>3, <2>1 DEF IInv, TypeOK, Steps, Failure, Progress, PositionSeen,
                      AfterH4, AfterH1, AfterM15, AfterM5
  <2> QED BY <2>1, <2>2 DEF IInv, EvidenceBehind, OneTradeAtATime, SignalIsSound
<1>5. CASE Reject("size")
  BY <1>1, <1>3, <1>5, LateRejection
<1>6. CASE /\ volume # 0
           /\ Answer([status |-> "SIGNAL_PENDING_APPROVAL", direction |-> heading,
                      entry |-> entry, stop |-> block.distal,
                      target |-> Target(entry, block.distal), volume |-> volume])
  <2>1. volume \in VolumeMin..VolumeMax /\ volume * risk * RiskPart <= read.balance
    BY <1>2, <1>6, VolumeWithinRisk
  <2> HIDE DEF volume
  <2>2. /\ step' = "done"
        /\ answer' = [status |-> "SIGNAL_PENDING_APPROVAL", direction |-> heading,
                      entry |-> entry, stop |-> block.distal,
                      target |-> Target(entry, block.distal), volume |-> volume]
    BY <1>6 DEF Answer
  <2>3. volume \in Nat /\ Target(entry, block.distal) \in Int
    BY <1>2, <2>1, VolumeAssumption DEF Target
  <2>4. answer' \in Signal
    BY <1>1, <1>2, <2>2, <2>3 DEF Signal
  <2>5. TypeOK' /\ Progress' /\ PositionSeen'
    BY <1>3, <2>2, <2>4 DEF IInv, TypeOK, Steps, Progress, PositionSeen,
                            AfterH4, AfterH1, AfterM15, AfterM5
  <2>6. ~IsRejection'
    BY <2>2 DEF IsRejection
  <2>7. OneTradeAtATime'
    BY <1>1, <1>3 DEF IInv, PositionSeen, OneTradeAtATime, AfterH4
  <2>8. Beyond(heading, Target(entry, block.distal), entry) = 2 * risk
    BY <1>1, <1>2 DEF Target, Beyond, Dir
  <2>9. /\ answer'.direction = heading /\ answer'.entry = entry /\ answer'.stop = block.distal
        /\ answer'.target = Target(entry, block.distal) /\ answer'.volume = volume
    BY <2>2
  <2>10. SignalIsSound'
    <3> HIDE DEF risk
    <3>1. Beyond(answer'.direction, answer'.entry, answer'.stop) = risk
      BY <2>9 DEF risk
    <3>2. Beyond(answer'.direction, answer'.target, answer'.entry) = 2 * risk
      BY <2>8, <2>9
    <3>3. answer'.volume * risk * RiskPart <= read'.balance /\ read'.demo
          /\ answer'.volume \in VolumeMin..VolumeMax /\ risk > 0
      BY <1>1, <1>2, <1>3, <2>1, <2>9
    <3> QED BY <3>1, <3>2, <3>3 DEF SignalIsSound
  <2> QED BY <2>5, <2>6, <2>7, <2>10 DEF IInv, EvidenceBehind
<1> QED BY <1>4, <1>5, <1>6 DEF Size

LEMMA RequestStep == ASSUME IInv, Request PROVE IInv'
<1>1. TypeOK'
  BY DEF IInv, TypeOK, Request, Steps, world
<1>2. Progress' /\ PositionSeen'
  BY DEF IInv, Request, Progress, PositionSeen, AfterH4, AfterH1, AfterM15, AfterM5, world
<1>3. ~IsSignal' /\ ~IsRejection'
  BY DEF Request, IsSignal, IsRejection
<1> QED BY <1>1, <1>2, <1>3 DEF IInv, EvidenceBehind, OneTradeAtATime, SignalIsSound

LEMMA IdleStep == ASSUME IInv, UNCHANGED vars PROVE IInv'
<1> USE DEF vars, world
<1>1. TypeOK' /\ Progress' /\ PositionSeen'
  BY DEF IInv, TypeOK, Progress, PositionSeen
<1>2. EvidenceBehind' /\ OneTradeAtATime' /\ SignalIsSound'
  BY DEF IInv, EvidenceBehind, OneTradeAtATime, SignalIsSound, IsSignal, IsRejection
<1> QED BY <1>1, <1>2 DEF IInv

LEMMA NextStep == IInv /\ [Next]_vars => IInv'
BY WorldStep, FailStep, AccountStep, PositionsStep, H4Step, H1Step, M15Step, M5Step, EntryStep,
   LevelsStep, SizeStep, RequestStep, IdleStep DEF Next, Evaluate

-----------------------------------------------------------------------------
\* An evaluation has established, at every step, what the gates before it check.
THEOREM Invariance == Spec => []IInv
<1>1. Init => IInv
  BY InitIInv
<1>2. IInv /\ [Next]_vars => IInv'
  BY NextStep
<1> QED BY <1>1, <1>2, PTL DEF Spec

\* Type correctness of an evaluation, for every account and symbol.
THEOREM TypeCorrect == Spec => []TypeOK
<1>1. IInv => TypeOK
  BY DEF IInv
<1> QED BY <1>1, Invariance, PTL

\* No signal while a position is open, unless its read failed.
THEOREM OneTradeHolds == Spec => []OneTradeAtATime
<1>1. IInv => OneTradeAtATime
  BY DEF IInv
<1> QED BY <1>1, Invariance, PTL

\* Every signal is on a demo account, has its stop behind and its target ahead,
\* and loses at most the part of the balance that may be risked.
THEOREM SignalsAreSound == Spec => []SignalIsSound
<1>1. IInv => SignalIsSound
  BY DEF IInv
<1> QED BY <1>1, Invariance, PTL

\* The category read off a rejection's text never claims a gate that the
\* evaluation did not pass.
THEOREM CategoriesAreEarned == Spec => []CategoryNeverDeeper
<1>1. IInv => CategoryNeverDeeper
  BY CategoryFollows DEF IInv
<1> QED BY <1>1, Invariance, PTL
=============================================================================

---------------------------- MODULE ManualSignal ----------------------------
(***************************************************************************)
(* One evaluation of the manual-signal strategy: the gates and reads of    *)
(* generate_eurusd_manual_signal (app/strategies/smc_manual_signal.py)     *)
(* behind /api/v2/strategy/smc-signal, the sizing of app/risk/             *)
(* calculator.py, and the category scripts/analyze_rejection_outcomes.py   *)
(* later derives from the text of the rejection.                           *)
(*                                                                         *)
(* The evaluation reads the account, the open positions, four candle       *)
(* series and the symbol one after the other, over seconds; the account    *)
(* holder acts in between.  A read is a step of its own.  What the M15     *)
(* series yields is described in ReversalSetup; here it is the gate the    *)
(* sequence stops at, or a block.                                          *)
(*                                                                         *)
(* Volumes are in broker steps; money is in the value of one step moving   *)
(* one price unit.                                                         *)
(***************************************************************************)
EXTENDS Directions, Sequences

CONSTANTS Balances,              \* account balances that occur
          RiskPart,              \* a trade may risk 1/RiskPart of the balance
          Prices,                \* M5 closes
          Blocks,                \* [distal, proximal, tolerance] of a block
          VolumeMin, VolumeMax,  \* the symbol's volume limits
          None                   \* nothing yet

\* An order block lies between its levels: distal below for bullish, above for
\* bearish.  tolerance is 0.25 ATR.
BlockOf(d) == {b \in [distal: Nat \ {0}, proximal: Nat \ {0}, tolerance: Nat] :
                 Beyond(d, b.proximal, b.distal) > 0}

ASSUME MoneyAssumption == Balances \subseteq Int /\ RiskPart \in Nat \ {0}
ASSUME PricesAssumption == Prices \subseteq Nat \ {0}
ASSUME BlocksAssumption == Blocks \subseteq BlockOf("bullish") \cup BlockOf("bearish")
ASSUME VolumeAssumption ==
  VolumeMin \in Nat \ {0} /\ VolumeMax \in Nat \ {0} /\ VolumeMin <= VolumeMax

VARIABLES account,  \* the account the terminal is logged in to
          traded,   \* an EURUSD position is open
          step,     \* what the evaluation does next
          read,     \* the account snapshot it has read
          blind,    \* history: the positions read failed
          kept,     \* history: a position was open all along
          heading,  \* the H4 bias
          block,    \* the order block
          entry,    \* the M5 close
          passed,   \* the gates its evidence shows as passed
          answer    \* what the client gets

world == <<account, traded>>
vars == <<world, step, read, blind, kept, heading, block, entry, passed, answer>>

Accounts == [demo: BOOLEAN, balance: Balances]
Steps == {"account", "positions", "H4", "H1", "M15", "M5", "entry", "levels", "size", "done"}
Gates == {"h4_bias", "h1_confirmation", "choch", "liquidity_sweep", "order_block",
          "retracement", "m5_confirmation"}

\* The checks that reject an evaluation, named for what their reason says.
Reasons == {"account", "position", "h4", "h1", "choch", "sweep", "order_block",
            "retracement", "m5", "entry", "levels", "size"}
Blocking == {"account", "position", "levels", "size"}

Rejection == [status: {"BLOCKED", "NO_SETUP"}, reason: Reasons]
Failure == [status: {"400", "500", "503"}]
Signal == [status: {"SIGNAL_PENDING_APPROVAL"}, direction: Dir, entry: Prices,
           stop: Nat, target: Int, volume: Nat]

-----------------------------------------------------------------------------
(* calculator.py *)

\* evaluate_entry_within_order_block.
WithinBlock(d, b, price) ==
  Beyond(d, price, b.distal) >= 0 /\ Beyond(d, price, b.proximal) <= b.tolerance

\* calculate_structural_trade_levels at a risk-reward of 2.
StopIsBehind(d, price, stop) == Beyond(d, price, stop) > 0
Target(price, stop) == price + 2 * (price - stop)

\* Mutant of Volume: the minimum volume is traded when the risk allows less.
VolumeAtLeastMin(balance, distance) ==
  LET steps == (balance \div RiskPart) \div distance
  IN  IF steps < VolumeMin THEN VolumeMin ELSE IF steps > VolumeMax THEN VolumeMax ELSE steps

\* calculate_position_size: whole steps, 0 when not sufficient_size.
Volume(balance, distance) ==
  LET steps == (balance \div RiskPart) \div distance
  IN  IF steps < VolumeMin THEN 0 ELSE IF steps > VolumeMax THEN VolumeMax ELSE steps

-----------------------------------------------------------------------------
(* The world: whoever owns the account, between any two reads. *)

Trade ==
  /\ traded' \in BOOLEAN /\ traded' # traded
  /\ kept' = (kept /\ traded')
  /\ UNCHANGED <<account, step, read, blind, heading, block, entry, passed, answer>>

Login ==
  /\ account' \in Accounts
  /\ UNCHANGED <<traded, step, read, blind, kept, heading, block, entry, passed, answer>>

-----------------------------------------------------------------------------
(* generate_eurusd_manual_signal *)

Answer(a) == step' = "done" /\ answer' = a
Reject(reason) ==
  Answer([status |-> IF reason \in Blocking THEN "BLOCKED" ELSE "NO_SETUP", reason |-> reason])
Continue(next) == step' = next /\ UNCHANGED answer

\* A read raises; the endpoint maps it.  A failed account_info is a
\* RuntimeError; positions_get only raises when it times out.
Fail ==
  /\ \E status \in IF step = "positions" THEN {"503"}
                    ELSE IF step = "account" THEN {"500", "503"} ELSE {"400", "500", "503"} :
       Answer([status |-> status])
  /\ step \in {"account", "positions", "H4", "H1", "M15", "M5", "size"}
  /\ UNCHANGED <<world, read, blind, kept, heading, block, entry, passed>>

ReadAccount ==
  /\ step = "account" /\ read' = account
  /\ IF account.demo THEN Continue("positions") ELSE Reject("account")
  /\ UNCHANGED <<world, blind, kept, heading, block, entry, passed>>

\* Mutant of CountPositions: the count is taken but not compared.
CountPositionsLoosely ==
  /\ step = "positions" /\ blind' \in BOOLEAN
  /\ Continue("H4")
  /\ UNCHANGED <<world, read, kept, heading, block, entry, passed>>

\* get_open_position_count: None, a failed read, counts as no position.
CountPositions ==
  /\ step = "positions" /\ blind' \in BOOLEAN
  /\ IF traded /\ ~blind' THEN Reject("position") ELSE Continue("H4")
  /\ UNCHANGED <<world, read, kept, heading, block, entry, passed>>

ReadH4 ==
  /\ step = "H4"
  /\ \/ Reject("h4") /\ UNCHANGED <<heading, passed>>
     \/ heading' \in Dir /\ passed' = {"h4_bias"} /\ Continue("H1")
  /\ UNCHANGED <<world, read, blind, kept, block, entry>>

ReadH1 ==
  /\ step = "H1"
  /\ \/ Reject("h1") /\ UNCHANGED passed
     \/ passed' = passed \cup {"h1_confirmation"} /\ Continue("M15")
  /\ UNCHANGED <<world, read, blind, kept, heading, block, entry>>

ReadM15 ==
  /\ step = "M15"
  /\ \/ Reject("choch") /\ UNCHANGED <<block, passed>>
     \/ Reject("sweep") /\ passed' = passed \cup {"choch"} /\ UNCHANGED block
     \/ Reject("order_block") /\ passed' = passed \cup {"choch", "liquidity_sweep"}
        /\ UNCHANGED block
     \/ /\ block' \in Blocks \cap BlockOf(heading)
        /\ \/ /\ Reject("retracement")
              /\ passed' = passed \cup {"choch", "liquidity_sweep", "order_block"}
           \/ /\ Continue("M5")
              /\ passed' = passed \cup {"choch", "liquidity_sweep", "order_block", "retracement"}
  /\ UNCHANGED <<world, read, blind, kept, heading, entry>>

ReadM5 ==
  /\ step = "M5"
  /\ \/ Reject("m5") /\ UNCHANGED <<entry, passed>>
     \/ entry' \in Prices /\ passed' = passed \cup {"m5_confirmation"} /\ Continue("entry")
  /\ UNCHANGED <<world, read, blind, kept, heading, block>>

\* The entry-zone check and the levels need no read.
CheckEntry ==
  /\ step = "entry"
  /\ IF WithinBlock(heading, block, entry) THEN Continue("levels") ELSE Reject("entry")
  /\ UNCHANGED <<world, read, blind, kept, heading, block, entry, passed>>

CheckLevels ==
  /\ step = "levels"
  /\ IF StopIsBehind(heading, entry, block.distal) THEN Continue("size") ELSE Reject("levels")
  /\ UNCHANGED <<world, read, blind, kept, heading, block, entry, passed>>

\* The symbol is read and the position sized; a balance that is not positive is
\* a ValueError, which the endpoint answers like a bad request.
Size ==
  /\ step = "size"
  /\ LET volume == Volume(read.balance, Beyond(heading, entry, block.distal)) IN
     IF read.balance <= 0 THEN Answer([status |-> "400"])
     ELSE IF volume = 0 THEN Reject("size")
     ELSE Answer([status |-> "SIGNAL_PENDING_APPROVAL", direction |-> heading, entry |-> entry,
                  stop |-> block.distal, target |-> Target(entry, block.distal),
                  volume |-> volume])
  /\ UNCHANGED <<world, read, blind, kept, heading, block, entry, passed>>

Fresh ==
  /\ step = "account" /\ read = None /\ blind = FALSE /\ heading = None
  /\ block = None /\ entry = None /\ passed = {} /\ answer = None

\* The next request.
Request ==
  /\ step = "done"
  /\ step' = "account" /\ read' = None /\ blind' = FALSE /\ heading' = None
  /\ block' = None /\ entry' = None /\ passed' = {} /\ answer' = None
  /\ kept' = traded /\ UNCHANGED world

Evaluate == \/ Fail \/ ReadAccount \/ CountPositions \/ ReadH4 \/ ReadH1 \/ ReadM15
            \/ ReadM5 \/ CheckEntry \/ CheckLevels \/ Size

Init == account \in Accounts /\ traded \in BOOLEAN /\ kept = traded /\ Fresh
Next == Trade \/ Login \/ Evaluate \/ Request
Spec == Init /\ [][Next]_vars

-----------------------------------------------------------------------------
(* analyze_rejection_outcomes.py: the category of a logged rejection. *)

\* The keywords of CATEGORY_RULES that the reason's text contains.
Words(reason) ==
  CASE reason = "h4" -> {"h4", "bias"}
    [] reason = "h1" -> {"h1", "h4", "bias"}
    [] reason = "choch" -> {"choch", "m15"}
    [] reason = "sweep" -> {"liquidity sweep", "m15", "choch"}
    [] reason = "order_block" -> {"order block", "choch", "m15"}
    [] reason = "retracement" -> {"order block"}
    [] reason = "m5" -> {"liquidity sweep", "choch", "m5", "candles"}
    [] reason = "entry" -> {"m5", "m15", "order block"}
    [] OTHER -> {}

\* Mutant of Rules: the rule for sweeps lost a keyword.
RulesWithoutSweep ==
  <<[depth |-> 5, words |-> {"m5", "candles"}],
    [depth |-> 1, words |-> {"h1", "h4", "bias"}],
    [depth |-> 4, words |-> {"order block"}],
    [depth |-> 3, words |-> {"m15"}],
    [depth |-> 2, words |-> {"choch", "m15"}]>>

\* CATEGORY_RULES with CATEGORY_DEPTH; a category is named by its depth.
Rules ==
  <<[depth |-> 5, words |-> {"m5", "candles"}],
    [depth |-> 1, words |-> {"h1", "h4", "bias"}],
    [depth |-> 4, words |-> {"order block"}],
    [depth |-> 3, words |-> {"liquidity sweep", "m15"}],
    [depth |-> 2, words |-> {"choch", "m15"}]>>

\* categorize_reason: the first rule whose keywords all occur.
Matches(i, reason) == Rules[i].words \subseteq Words(reason)
Depth(reason) ==
  IF \E i \in DOMAIN Rules : Matches(i, reason)
  THEN Rules[CHOOSE i \in DOMAIN Rules :
               Matches(i, reason) /\ \A j \in 1..(i - 1) : ~Matches(j, reason)].depth
  ELSE 0

-----------------------------------------------------------------------------
TypeOK ==
  /\ account \in Accounts /\ traded \in BOOLEAN
  /\ step \in Steps /\ read \in Accounts \cup {None}
  /\ blind \in BOOLEAN /\ kept \in BOOLEAN
  /\ heading \in Dir \cup {None} /\ block \in Blocks \cup {None} /\ entry \in Prices \cup {None}
  /\ passed \subseteq Gates
  /\ answer \in Rejection \cup Failure \cup Signal \cup {None}

IsSignal == answer # None /\ answer.status = "SIGNAL_PENDING_APPROVAL"
IsRejection == answer # None /\ answer.status \in {"BLOCKED", "NO_SETUP"}

\* One open trade: while a position is open from the start of an evaluation to
\* its end, the evaluation yields no signal, unless the positions read failed.
OneTradeAtATime == IsSignal /\ kept => blind

\* A signal is sound for the account that passed the demo gate, whatever has
\* been logged in since: the stop is on the losing side, the target twice as
\* far on the other, the volume tradable, and the loss at the stop within the
\* part of that account's balance that may be risked.
SignalIsSound ==
  IsSignal =>
    LET risk == Beyond(answer.direction, answer.entry, answer.stop) IN
    /\ read.demo
    /\ risk > 0 /\ Beyond(answer.direction, answer.target, answer.entry) = 2 * risk
    /\ answer.volume \in VolumeMin..VolumeMax
    /\ answer.volume * risk * RiskPart <= read.balance

\* The category of a rejection never claims more progress than the evaluation
\* made: it is at most the gate after the ones its evidence shows as passed.
\* (Retracement is no category of its own.)
CategoryNeverDeeper ==
  IsRejection =>
    /\ Depth(answer.reason) >= 1 => "h4_bias" \in passed
    /\ Depth(answer.reason) >= 2 => "h1_confirmation" \in passed
    /\ Depth(answer.reason) >= 3 => "choch" \in passed
    /\ Depth(answer.reason) >= 4 => "liquidity_sweep" \in passed
    /\ Depth(answer.reason) >= 5 => "retracement" \in passed

\* analyze_rejection_outcomes.py: the depth of a category is how far the
\* strategy progressed before rejecting, so an evaluation with an M5
\* confirmation is not counted as stopped before M5.
DepthIsProgress ==
  IsRejection /\ "m5_confirmation" \in passed => Depth(answer.reason) >= 5
=============================================================================

------------------------------ MODULE Liquidation ------------------------------
(***************************************************************************)
(* A breached account being closed, against the clock.                     *)
(*                                                                         *)
(* OrderEngine has the liquidation without time.  Here is its time: the    *)
(* closing order waits out the environment's latency before it may fill,   *)
(* and in the meantime quotes, the engine's own wake-up timers and the     *)
(* valuation timer all look at the account again (publishValuations,       *)
(* scheduleEligibilityWake, onMarketEvent, rulesLocked and                 *)
(* liquidateLocked in apps/server/src/trading/engine.ts).                  *)
(*                                                                         *)
(* Time is in ticks.  Everything that lies ahead is kept as the number of  *)
(* ticks still to go.                                                      *)
(***************************************************************************)
EXTENDS Integers

CONSTANTS
  Latency,    \* environment.latencyMs (OrderEngine has the case of none)
  Margin,     \* how long after an order is eligible its wake-up fires
  Interval,   \* VALUATION_INTERVAL_MS
  MinGap,     \* the market's quotes are at least this far apart...
  MaxGap,     \* ...and at most this far
  Held        \* the position at the time of the breach

ASSUME TimesAssumption ==
  /\ Latency \in Nat \ {0} /\ Margin \in Nat \ {0} /\ Interval \in Nat \ {0}
  /\ MinGap \in Nat \ {0} /\ MaxGap \in Nat /\ MinGap <= MaxGap
ASSUME HeldAssumption == Held \in Nat \ {0}

VARIABLES
  replay,     \* a recording is being replayed; it is, or is not, all along
  holding,    \* the position
  failed,     \* the account's status is FAILED
  inFlight,   \* what liquidation orders will sell, by the ticks they wait
  wakes,      \* pendingWakes
  quiet,      \* ticks since the last quote
  valuation   \* ticks to the next valuation

clockVars == <<replay, holding, failed, inFlight, wakes, quiet, valuation>>

LiquidationTypeOK ==
  /\ replay \in BOOLEAN
  /\ holding \in Int
  /\ failed \in BOOLEAN
  /\ inFlight \in [0..Latency -> Nat]
  /\ wakes \subseteq 0..(Latency + Margin)
  /\ quiet \in 0..MaxGap
  /\ valuation \in 0..Interval

(* Latency runs on the wall clock, and in a replay on the recording's,     *)
(* which stands still between two quotes.                                  *)
DueOnTheWallClock(sinceQuote) == Latency \* mutant: a replay measured on the server's clock

Due(sinceQuote) ==
  IF ~replay THEN Latency ELSE IF sinceQuote < Latency THEN Latency - sinceQuote ELSE 0

Nothing == [d \in 0..Latency |-> 0]

LiquidateAgain(p, sinceQuote, sent) == \* mutant: what is in flight is left in flight
  [sent EXCEPT ![Due(sinceQuote)] = @ + p]

(* cancelAllLocked, and then a market order for all that is held.          *)
liquidate(p, sinceQuote, sent) == [Nothing EXCEPT ![Due(sinceQuote)] = p]

(* rulesLocked on an account that has failed: liquidation is started over  *)
(* for as long as anything is left, and a live one gets a wake-up.         *)
rulesLocked(p, sinceQuote, sent, timers) ==
  IF ~failed' \/ (p = 0 /\ sent = Nothing)
  THEN holding' = p /\ inFlight' = sent /\ wakes' = timers
  ELSE /\ holding' = p
       /\ inFlight' = liquidate(p, sinceQuote, sent)
       /\ wakes' = IF replay \/ p = 0 THEN timers ELSE timers \cup {Latency + Margin}

(* matchLocked: what is eligible fills, then the rules have their say.     *)
match(sinceQuote, timers) ==
  rulesLocked(holding - inFlight[0], sinceQuote, [inFlight EXCEPT ![0] = 0], timers)

LiquidationInit ==
  /\ replay \in BOOLEAN
  /\ holding = Held
  /\ failed = FALSE
  /\ inFlight = Nothing
  /\ wakes = {}
  /\ quiet = 0
  /\ valuation \in 1..Interval

(* A quote is matched; its price may be the one that breaches the account. *)
QuoteComes ==
  /\ quiet >= MinGap
  /\ quiet' = 0
  /\ failed' \in {failed, TRUE}
  /\ match(0, wakes)
  /\ UNCHANGED <<replay, valuation>>

(* A wake-up matches against the current quote.                            *)
Wake ==
  /\ 0 \in wakes
  /\ UNCHANGED <<replay, failed, quiet, valuation>>
  /\ match(quiet, wakes \ {0})

(* The valuation timer has the rules look at the account, and matches      *)
(* nothing.                                                                *)
Valuation ==
  /\ valuation = 0
  /\ valuation' = Interval
  /\ failed' \in {failed, TRUE}
  /\ rulesLocked(holding, quiet, inFlight, wakes)
  /\ UNCHANGED <<replay, quiet>>

(* Time passes once whatever is due has happened.                          *)
Tick ==
  /\ 0 \notin wakes
  /\ valuation > 0
  /\ quiet < MaxGap
  /\ inFlight' = [d \in 0..Latency |-> (IF d = 0 THEN inFlight[0] ELSE 0)
                                     + (IF d < Latency THEN inFlight[d + 1] ELSE 0)]
  /\ wakes' = {w - 1 : w \in wakes}
  /\ valuation' = valuation - 1
  /\ quiet' = quiet + 1
  /\ UNCHANGED <<replay, holding, failed>>

LiquidationNext == QuoteComes \/ Wake \/ Valuation \/ Tick

LiquidationSpec ==
  /\ LiquidationInit /\ [][LiquidationNext]_clockVars
  /\ WF_clockVars(LiquidationNext) /\ WF_clockVars(Tick)

(* Liquidation closes the position and never trades through to the other   *)
(* side, however often it is started over.                                 *)
NeverReverses == holding >= 0

(* What is in flight is one order for the whole position, or nothing: why  *)
(* it cannot be sold twice.                                                *)
Single(d, q) == [e \in 0..Latency |-> IF e = d THEN q ELSE 0]

AllOrNothing ==
  holding >= 0 /\ \E d \in 0..Latency : \E q \in {0, holding} : inFlight = Single(d, q)

(* A failed account does not hold its position forever.                    *)
FlatAtLast == failed ~> holding = 0

(* In a replay it does not, when quotes are a latency apart: the clock the *)
(* closing order waits on stands still between two quotes, so no timer     *)
(* that starts liquidation over puts it off beyond the next quote.         *)
ReplayGoesFlat == replay /\ failed ~> holding = 0
===============================================================================

------------------------------ MODULE Allocation ------------------------------
(***************************************************************************)
(* How much a new trade gets: the slots and the cash of evaluate_cycle in  *)
(* services/trade_manager.py, with the sizing of _risk_based_allocation    *)
(* and of services/portfolio_risk.py, while operators, the monitor and the *)
(* account change the trades and the cash that are counted.                *)
(*                                                                         *)
(* Money is counted in cents.  Each member of Trades is a symbol that may  *)
(* be traded once: that a symbol has one active trade, calls that fail and *)
(* restarts are the subject of module TradeLifecycle, of which the monitor *)
(* is only kept as far as it moves trades and cash.  Nobody else takes     *)
(* money out of the account.                                               *)
(***************************************************************************)
EXTENDS Integers, FiniteSets

CONSTANTS
  Trades,
  CategoryOf,
  MaxOpenStock,   \* max_open_trades_stock
  MaxOpenCrypto,  \* max_open_trades_crypto
  Minimum,        \* etoro_min_trade_amount
  Dollar,         \* the minimum of _risk_based_allocation when that one is zero
  StartCash,
  RiskSizes,      \* what the risk budget may allow, before any other limit
  Proceeds,       \* what a closed position may pay back
  None,
  MaxFaults       \* bound: account lookups that fail

Categories == {"STOCK", "CRYPTO"}

ASSUME TradeAssumption ==
  IsFiniteSet(Trades) /\ None \notin Trades /\ CategoryOf \in [Trades -> Categories]
ASSUME LimitAssumption ==
  /\ MaxOpenStock \in Nat /\ MaxOpenCrypto \in Nat
  /\ Minimum \in Nat /\ Dollar \in Nat \ {0} /\ StartCash \in Nat
  /\ RiskSizes \subseteq Nat /\ Proceeds \subseteq Nat
  /\ MaxFaults \in Nat

VARIABLES
  status,   \* the table: status of each trade, "NONE" before its INSERT
  amount,   \* the table: allocated_capital
  account,  \* what the account has of a trade's entry order
  cash,     \* get_available_cash: the credit less what waiting orders will take
  pc,       \* where the job that holds the scheduler's lock is
  batch,    \* trades the monitor read as PENDING and has not reached yet
  signals,  \* signals the evaluation has not looked at yet
  trade,    \* the trade of the signal it looks at
  free,     \* its "cash": as read, then less the commitments
  slots,    \* the slots it shares the cash among
  size,     \* the size it has come to
  tries,    \* how often it has halved the size
  faults

table      == <<status, amount>>
evaluation == <<signals, trade, free, slots, size, tries>>
vars       == <<table, account, cash, pc, batch, evaluation, faults>>

MaxTries == 8
Sizing == {"size", "equal", "project", "save"}

TypeOK ==
  /\ status \in [Trades -> {"NONE", "PENDING", "OPEN", "CLOSED", "CANCELLED"}]
  /\ amount \in [Trades -> Nat]
  /\ account \in [Trades -> {"none", "waiting", "held", "over"}]
  /\ cash \in Nat
  /\ pc \in {"idle", "sync", "signal", "lookup"} \cup Sizing
  /\ batch \subseteq Trades /\ signals \subseteq Trades
  /\ trade \in Trades \cup {None} /\ (pc \in {"lookup"} \cup Sizing => trade \in Trades)
  /\ free \in Nat /\ slots \in Nat \ {0} /\ tries \in 0..MaxTries
  /\ size \in Nat /\ (pc \in {"project", "save"} => size > 0)
  /\ faults \in Nat

-----------------------------------------------------------------------------
(* Counting.                                                               *)

Pending == {t \in Trades : status[t] = "PENDING"}
Active  == {t \in Trades : status[t] \in {"PENDING", "OPEN"}}
Of(c)   == {t \in Trades : CategoryOf[t] = c}

\* The sum of the amounts of S, as the number of its cents.
Cents(S) == UNION {{t} \X (1..amount[t]) : t \in S}
Total(S) == Cardinality(Cents(S))

Lower(a, b)  == IF a <= b THEN a ELSE b
Higher(a, b) == IF a >= b THEN a ELSE b

\* n / d, rounded to the cent; either way at a half.
Nearest(n, d) == {q \in 0..n : 2 * n - d <= 2 * q * d /\ 2 * q * d <= 2 * n + d}

MaxOpen(c) == IF c = "STOCK" THEN MaxOpenStock ELSE MaxOpenCrypto

\* (mutant) trades that wait for their fill take no slot
AvailableOfOpen(c) ==
  Higher(MaxOpen(c) - Cardinality({t \in Of(c) : status[t] = "OPEN"}), 0)

Available(c) == Higher(MaxOpen(c) - Cardinality(Active \cap Of(c)), 0)

\* Both categories share one pool of cash.
SlotsLeft == Higher(MaxOpenStock + MaxOpenCrypto - Cardinality(Active), 1)

\* (mutant) the broker's balance is taken as it is
FreeGross(read) == read

FreeOf(read) == Higher(read - Total(Pending), 0)

Init ==
  /\ status = [t \in Trades |-> "NONE"] /\ amount = [t \in Trades |-> 0]
  /\ account = [t \in Trades |-> "none"] /\ cash = StartCash
  /\ pc = "idle" /\ batch = {} /\ signals = {} /\ trade = None
  /\ free = 0 /\ slots = 1 /\ size = 0 /\ tries = 0 /\ faults = 0

-----------------------------------------------------------------------------
(* Evaluation: one category of evaluate_cycle.                             *)

Goto(label) == pc' = label

Forget == trade' = None /\ free' = 0 /\ slots' = 1 /\ size' = 0 /\ tries' = 0

Fault == faults < MaxFaults /\ faults' = faults + 1

\* The gate before the model is asked lets the category through when the cash
\* cannot be read; the model answers with signals for some of the symbols.
StartEvaluation(c, S) ==
  /\ pc = "idle" /\ Available(c) > 0
  /\ \/ cash >= Minimum /\ UNCHANGED faults
     \/ Fault
  /\ S # {} /\ S \subseteq {t \in Of(c) : status[t] = "NONE"}
  /\ signals' = S /\ Goto("signal")
  /\ UNCHANGED <<table, account, cash, batch, trade, free, slots, size, tries>>

\* Signals are looked at by their score; any order is allowed here.
NextSignal(t) ==
  /\ pc = "signal" /\ t \in signals /\ Available(CategoryOf[t]) > 0
  /\ signals' = signals \ {t} /\ trade' = t /\ Goto("lookup")
  /\ UNCHANGED <<table, account, cash, batch, free, slots, size, tries, faults>>

\* A position, the levels, the regime, the instrument or the exchange speak
\* against it.
Refuse ==
  /\ pc \in {"lookup", "save"}
  /\ Goto("signal") /\ Forget
  /\ UNCHANGED <<table, account, cash, batch, signals, faults>>

\* Equity and cash are asked for; without them the slots share the cash equally,
\* and the cash is asked for again.
Lookup ==
  /\ pc = "lookup"
  /\ free' = cash
  /\ \/ Goto("size") /\ UNCHANGED faults
     \/ Goto("equal") /\ Fault
  /\ UNCHANGED <<table, account, cash, batch, signals, trade, slots, size, tries>>

\* suggest_size, of a risk size r.
Suggested(r, available) ==
  LET value == Lower(r, available) IN
  IF value >= Minimum THEN value ELSE IF available >= Minimum THEN Minimum ELSE 0

Least == IF Minimum = 0 THEN Dollar ELSE Minimum

\* (mutant) a size is not held to its share
SharedWithoutLimit(s, share, available) == IF s >= Least THEN s ELSE 0

\* No more than an even share, but no less than the least trade.
Shared(s, share, available) ==
  IF Lower(s, share) >= Least THEN Lower(s, share)
  ELSE IF available >= Least THEN Least ELSE 0

\* (mutant) a size of zero is traded
SettleAny(available, s, label) ==
  /\ Goto(label)
  /\ free' = available /\ slots' = SlotsLeft /\ size' = s
  /\ UNCHANGED <<table, account, cash, batch, signals, trade, tries, faults>>

\* A size of zero skips the signal.
Settle(available, s, label) ==
  /\ \/ s = 0 /\ Goto("signal") /\ Forget
     \/ /\ s > 0 /\ Goto(label)
        /\ free' = available /\ slots' = SlotsLeft /\ size' = s
        /\ UNCHANGED <<trade, tries>>
  /\ UNCHANGED <<table, account, cash, batch, signals, faults>>

RiskBasedAllocation(r) ==
  LET available == FreeOf(free)
      suggested == Suggested(r, available)
  IN
  /\ pc = "size"
  /\ \E share \in Nearest(available, SlotsLeft) :
       Settle(available, IF suggested = 0 THEN 0 ELSE Shared(suggested, share, available), "project")

ComputeAllocatedCapital ==
  LET available == FreeOf(free) IN
  /\ pc = "equal"
  /\ \E share \in Nearest(available, SlotsLeft) :
       Settle(available,
              IF share \in 1..(Minimum - 1) /\ available >= Minimum THEN Minimum ELSE share,
              "save")

\* The portfolio's risk with the trade in it: acceptable, or too high.  Then the
\* size is halved, a few times and not below the least trade.
Project ==
  /\ pc = "project"
  /\ \/ Goto("save") /\ UNCHANGED <<trade, free, slots, size, tries>>
     \/ /\ size > Least /\ tries < MaxTries
        /\ \E half \in Nearest(size, 2) : size' = Higher(Least, half)
        /\ tries' = tries + 1 /\ UNCHANGED <<pc, trade, free, slots>>
     \/ (size <= Least \/ tries = MaxTries) /\ Goto("signal") /\ Forget
  /\ UNCHANGED <<table, account, cash, batch, signals, faults>>

SaveNewTrade ==
  /\ pc = "save"
  /\ status' = [status EXCEPT ![trade] = "PENDING"]
  /\ amount' = [amount EXCEPT ![trade] = size]
  /\ Goto("signal") /\ Forget
  /\ UNCHANGED <<account, cash, batch, signals, faults>>

\* No signal or slot is left, or a call raises.
EvaluationEnds ==
  /\ pc \in {"signal", "lookup"} \cup Sizing
  /\ signals' = {} /\ Goto("idle") /\ Forget
  /\ UNCHANGED <<table, account, cash, batch, faults>>

-----------------------------------------------------------------------------
(* The monitor: what sync_broker_state does to trades and cash.            *)

StartSync ==
  /\ pc = "idle" /\ Pending # {}
  /\ batch' = Pending /\ Goto("sync")
  /\ UNCHANGED <<table, account, cash, evaluation, faults>>

Visit(t, s) ==
  /\ pc = "sync" /\ t \in batch
  /\ batch' = batch \ {t}
  /\ status' = [status EXCEPT ![t] = s]
  /\ UNCHANGED <<amount, pc, evaluation, faults>>

Adjust(t, a, c) == account' = [account EXCEPT ![t] = a] /\ cash' = c

\* The price is right and the account takes the order: the POST's answer stores
\* its id, or fills the trade at once, or the POST raises after all.
SendOrder(t) ==
  /\ account[t] = "none" /\ amount[t] <= cash
  /\ \E s \in {status[t], "OPEN", "CANCELLED"} : Visit(t, s)
  /\ Adjust(t, "waiting", cash - amount[t])

\* Nothing is to be done yet, the entry is over or refused, or the trade takes a
\* position opened by hand for its own.
LeaveUnsent(t) ==
  /\ account[t] = "none"
  /\ \E s \in {status[t], "OPEN", "CANCELLED"} : Visit(t, s)
  /\ UNCHANGED <<account, cash>>

\* The order is awaited, or abandoned; its cancellation may fail.
AwaitOrder(t) ==
  /\ account[t] = "waiting"
  /\ \/ \E s \in {status[t], "CANCELLED"} : Visit(t, s) /\ UNCHANGED <<account, cash>>
     \/ Visit(t, "CANCELLED") /\ Adjust(t, "over", cash + amount[t])

\* Whatever the row has become, an order that was executed opens the trade.
FillOrRefuse(t) ==
  /\ account[t] \in {"held", "over"}
  /\ \E s \in {status[t], "OPEN", "CANCELLED"} : Visit(t, s)
  /\ UNCHANGED <<account, cash>>

SyncEnds ==
  /\ pc = "sync" /\ batch = {}
  /\ Goto("idle")
  /\ UNCHANGED <<table, account, cash, batch, evaluation, faults>>

Monitor ==
  \/ StartSync \/ SyncEnds
  \/ \E t \in Trades : SendOrder(t) \/ LeaveUnsent(t) \/ AwaitOrder(t) \/ FillOrRefuse(t)

-----------------------------------------------------------------------------
(* Operators and the account, at any moment.                               *)

\* Cancelled by hand, perhaps from a row read while it was pending; or closed,
\* by hand or by the monitor.
EndTrade(t) ==
  /\ \/ status[t] \in {"PENDING", "OPEN"} /\ status' = [status EXCEPT ![t] = "CANCELLED"]
     \/ status[t] = "OPEN" /\ status' = [status EXCEPT ![t] = "CLOSED"]
  /\ UNCHANGED <<amount, account, cash, pc, batch, evaluation, faults>>

OrderEnds(t) ==
  /\ account[t] = "waiting"
  /\ Adjust(t, "held", cash) \/ Adjust(t, "over", cash + amount[t])
  /\ UNCHANGED <<table, pc, batch, evaluation, faults>>

PositionCloses(t) ==
  /\ account[t] = "held"
  /\ \E p \in Proceeds : Adjust(t, "over", cash + p)
  /\ UNCHANGED <<table, pc, batch, evaluation, faults>>

Evaluate ==
  \/ \E c \in Categories, S \in SUBSET Trades : StartEvaluation(c, S)
  \/ (\E t \in Trades : NextSignal(t)) \/ Refuse \/ Lookup
  \/ (\E r \in RiskSizes : RiskBasedAllocation(r)) \/ ComputeAllocatedCapital
  \/ Project \/ SaveNewTrade \/ EvaluationEnds

Next ==
  \/ Evaluate \/ Monitor
  \/ \E t \in Trades : EndTrade(t) \/ OrderEnds(t) \/ PositionCloses(t)

Spec == Init /\ [][Next]_vars
-----------------------------------------------------------------------------
(* Properties.                                                             *)

\* _available_trade_slots: a category never has more active trades than its
\* limit, although trades that were cancelled under the monitor come back.
SlotsRespected ==
  \A c \in Categories : Cardinality(Active \cap Of(c)) <= MaxOpen(c)

\* Trades the account has not heard of yet.
Unsent == {t \in Pending : account[t] = "none"}

\* _pending_allocated_capital: a batch never commits more than the cash, so
\* every trade it opens can be paid for when its price comes.
Funded == Total(Unsent) <= cash

\* _uniform_cash_share: where the cash was enough for the least trade in every
\* slot, it still is for the others once this trade is paid for, whatever came
\* between its sizing and now.
OthersFunded ==
  pc \in {"project", "save"} /\ free >= slots * Minimum
    => cash - Total(Pending) - size >= (slots - 1) * Minimum
=============================================================================

------------------------------ MODULE ExitRules ------------------------------
(***************************************************************************)
(* When an open trade is closed: the price rules of services/exit_eval.py, *)
(* applied every minute by sync_open_trade, while the model's review of    *)
(* open trades and operators (services/trade_admin.py) change its levels.  *)
(*                                                                         *)
(* One trade is followed from its fill to the first exit the broker        *)
(* accepts; module TradeLifecycle has what comes before and after.  Prices *)
(* are whole numbers of some tick and percentages whole parts of Scale:    *)
(* rounding to eight decimals is left out.                                 *)
(***************************************************************************)
EXTENDS Integers

CONSTANTS
  Entry,      \* entry_price of the trade
  Prices,     \* what the market may quote
  Scale,      \* one hundred percent
  Buffer,     \* trailing_tp_min_profit_buffer_pct
  Signals,    \* levels the trade may be created with
  Payloads,   \* bodies of PATCH /api/trades/{id}: functions from some fields
  Proposals,  \* the model's answers when it reviews the trade
  Operators,  \* API threads
  None,
  MaxEdits    \* bound: requests of operators

Positive == Nat \ {0}
Fields   == {"take_profit", "stop_loss", "dist", "act", "stop_dist"}
Trailing == {"dist", "act", "stop_dist"}
Raw      == Nat \cup {None}        \* as received: 0 stands for all that is not positive
Levels   == [Fields -> Positive \cup {None}]

Paired(l) == (l["dist"] = None) = (l["act"] = None)

ASSUME PriceAssumption ==
  /\ Entry \in Positive /\ Prices \subseteq Positive
  /\ Scale \in Positive /\ Buffer \in Nat
ASSUME LevelAssumption ==
  /\ None \notin Int
  /\ \A l \in Signals : l \in Levels /\ Paired(l)
  /\ \A d \in Payloads : \E F \in SUBSET Fields : d \in [F -> Raw]
  /\ Proposals \subseteq [{"dist", "act"} -> Raw]
ASSUME EditAssumption == MaxEdits \in Nat /\ None \notin Payloads

VARIABLES
  levels,   \* the row: take profit, stop loss, trailing distances and activation
  hwm,      \* the row: high_water_mark
  current,  \* the row: current_price
  ttp,      \* the row: trailing_take_profit_price, in parts of Scale
  ts,       \* the row: trailing_stop_price
  market,   \* the price on the market
  pc,       \* where the job that holds the scheduler's lock is
  seen,     \* the row as that job read it, None while there is no job
  draft,    \* per operator: a request that is checked and not written yet
  asked,    \* why the broker was asked to close, once it has accepted
  edits,    \* requests of operators so far
  basis,    \* (history) the trailing levels ttp and ts were computed from
  top       \* (history) the highest price the trade has seen

row  == <<levels, hwm, current, ttp, ts>>
vars == <<row, market, pc, seen, draft, asked, edits, basis, top>>

Reasons == {"TRAILING_TAKE_PROFIT", "TAKE_PROFIT", "TRAILING_STOP", "STOP_LOSS"}
Seen == [levels: Levels, hwm: Positive, current: Positive]

TypeOK ==
  /\ levels \in Levels
  /\ hwm \in Positive /\ current \in Positive
  /\ ttp \in Int \cup {None} /\ ts \in Int \cup {None}
  /\ market \in Prices
  /\ pc \in {"idle", "mark", "decide", "review"}
  /\ seen \in Seen \cup {None} /\ (pc # "idle" => seen \in Seen)
  /\ draft \in [Operators -> Payloads \cup {None}]
  /\ asked \in Reasons \cup {None}
  /\ edits \in Nat
  /\ basis \in [Trailing -> Positive \cup {None}]
  /\ top \in Positive

-----------------------------------------------------------------------------
(* The rules.                                                              *)

Higher(a, b) == IF a >= b THEN a ELSE b
Scaled(p) == p * Scale

\* (mutant) the stored mark is forgotten
HighMarkOfNow(stored, price) == Higher(Entry, price)

HighMark(stored, price) == Higher(stored, price)

TrailingStop(mark, l) == IF l["stop_dist"] = None THEN None ELSE mark - l["stop_dist"]

\* The least profit an armed trailing take profit is to lock in.
Floor == Entry * (Scale + Buffer)

Armed(mark, l) ==
  l["dist"] # None /\ l["act"] # None /\ Scaled(mark) >= Entry * (Scale + l["act"])

TrailingTakeProfit(mark, l) ==
  IF Armed(mark, l) THEN Higher(Scaled(mark - l["dist"]), Floor) ELSE None

Hit(price, trigger) == trigger # None /\ price <= trigger

\* (mutant) the stop loss alone is not looked at
DownsideOfBoth(price, stop, trailing) ==
  IF Hit(price, trailing) THEN "TRAILING_STOP"
  ELSE IF trailing # None /\ Hit(price, stop) THEN "STOP_LOSS" ELSE None

\* The higher of the two stops names the reason.
Downside(price, stop, trailing) ==
  IF Hit(price, trailing) /\ (stop = None \/ trailing >= stop) THEN "TRAILING_STOP"
  ELSE IF Hit(price, stop) THEN "STOP_LOSS"
  ELSE IF Hit(price, trailing) THEN "TRAILING_STOP" ELSE None

\* A take profit only counts while the trailing one is not armed.
CloseReason(price, l, takeProfit, stop) ==
  IF Hit(Scaled(price), takeProfit) THEN "TRAILING_TAKE_PROFIT"
  ELSE IF l["take_profit"] # None /\ takeProfit = None /\ price >= l["take_profit"]
  THEN "TAKE_PROFIT"
  ELSE Downside(price, l["stop_loss"], stop)

\* What the model proposes is only taken if it locks in a profit when it arms.
PairIsValid(p) == p["act"] * Entry >= Scaled(p["dist"]) + Buffer * Entry

Sound(p) ==
  \/ p["dist"] = None /\ p["act"] = None
  \/ p["dist"] \in Positive /\ p["act"] \in Positive /\ PairIsValid(p)

Init ==
  /\ levels \in Signals /\ market \in Prices
  /\ current = market /\ hwm = Higher(Entry, market) /\ top = hwm
  /\ basis = [f \in Trailing |-> levels[f]]
  /\ ttp = TrailingTakeProfit(hwm, basis) /\ ts = TrailingStop(hwm, basis)
  /\ pc = "idle" /\ seen = None
  /\ draft = [o \in Operators |-> None] /\ asked = None /\ edits = 0

-----------------------------------------------------------------------------
(* The job that holds the lock: sync_open_trade, or the review.            *)

Read(label) ==
  /\ pc = "idle" /\ asked = None
  /\ seen' = [levels |-> levels, hwm |-> hwm, current |-> current]
  /\ pc' = label
  /\ UNCHANGED <<row, market, draft, asked, edits, basis, top>>

\* (mutant) the triggers are only computed again when the mark rises
MarkOnRise(price) ==
  LET mark == HighMark(seen.hwm, price) IN
  /\ pc = "mark"
  /\ current' = price /\ hwm' = mark /\ top' = Higher(top, price)
  /\ IF mark > seen.hwm
     THEN /\ basis' = [f \in Trailing |-> seen.levels[f]]
          /\ ttp' = TrailingTakeProfit(mark, basis') /\ ts' = TrailingStop(mark, basis')
     ELSE UNCHANGED <<basis, ttp, ts>>
  /\ pc' = "decide"
  /\ UNCHANGED <<levels, market, seen, draft, asked, edits>>

\* The marks and triggers follow from the row as read and the price, which is
\* the stored one when the broker quotes none.
Mark(price) ==
  LET mark == HighMark(seen.hwm, price) IN
  /\ pc = "mark"
  /\ current' = price /\ hwm' = mark /\ top' = Higher(top, price)
  /\ basis' = [f \in Trailing |-> seen.levels[f]]
  /\ ttp' = TrailingTakeProfit(mark, basis') /\ ts' = TrailingStop(mark, basis')
  /\ pc' = "decide"
  /\ UNCHANGED <<levels, market, seen, draft, asked, edits>>

Decide ==
  /\ pc = "decide"
  /\ asked' = CloseReason(current, seen.levels, ttp, ts)
  /\ pc' = "idle" /\ seen' = None
  /\ UNCHANGED <<row, market, draft, edits, basis, top>>

\* (mutant) the review starts the mark afresh
ReviewResets(p) ==
  /\ pc = "review" /\ Sound(p)
  /\ levels' = [levels EXCEPT !["dist"] = p["dist"], !["act"] = p["act"]]
  /\ basis' = [basis EXCEPT !["dist"] = p["dist"], !["act"] = p["act"]]
  /\ hwm' = Entry /\ ttp' = TrailingTakeProfit(Entry, basis')
  /\ pc' = "idle" /\ seen' = None
  /\ UNCHANGED <<current, ts, market, draft, asked, edits, top>>

\* The model's answer is written unless it is what the row had when it was read.
Review(p) ==
  /\ pc = "review" /\ Sound(p)
  /\ \E f \in {"dist", "act"} : p[f] # seen.levels[f]
  /\ levels' = [levels EXCEPT !["dist"] = p["dist"], !["act"] = p["act"]]
  /\ basis' = [basis EXCEPT !["dist"] = p["dist"], !["act"] = p["act"]]
  /\ ttp' = TrailingTakeProfit(seen.hwm, basis')
  /\ pc' = "idle" /\ seen' = None
  /\ UNCHANGED <<hwm, current, ts, market, draft, asked, edits, top>>

\* Any call of the job raises, or the process dies: the next job starts afresh.
\* The review also ends like this when it refuses the answer.
JobStops ==
  /\ pc # "idle" /\ pc' = "idle" /\ seen' = None
  /\ UNCHANGED <<row, market, draft, asked, edits, basis, top>>

-----------------------------------------------------------------------------
(* Operators, who take no lock, and the market.                            *)

\* (mutant) values are stored as they come
AnyValue(d) == TRUE

PositiveOrNone(d) == \A f \in DOMAIN d : d[f] # 0

Edited(l, d) == [f \in Fields |-> IF f \in DOMAIN d THEN d[f] ELSE l[f]]

\* update_trade up to its last check, on the row it reads.
Check(o, d) ==
  /\ draft[o] = None /\ edits < MaxEdits
  /\ edits' = edits + 1
  /\ PositiveOrNone(d) /\ Paired(Edited(levels, d))
  /\ draft' = [draft EXCEPT ![o] = d]
  /\ UNCHANGED <<row, market, pc, seen, asked, basis, top>>

\* Its UPDATE, of the fields of the request alone.
Write(o) ==
  /\ draft[o] # None
  /\ levels' = Edited(levels, draft[o])
  /\ draft' = [draft EXCEPT ![o] = None]
  /\ UNCHANGED <<hwm, current, ttp, ts, market, pc, seen, asked, edits, basis, top>>

Quote(price) ==
  /\ asked = None
  /\ market' = price
  /\ UNCHANGED <<row, pc, seen, draft, asked, edits, basis, top>>

Next ==
  \/ Read("mark") \/ Read("review")
  \/ Mark(market) \/ Mark(seen.current)
  \/ Decide \/ JobStops
  \/ \E p \in Proposals : Review(p)
  \/ \E o \in Operators : Write(o) \/ \E d \in Payloads : Check(o, d)
  \/ \E price \in Prices : Quote(price)

Spec == Init /\ [][Next]_vars

\* The monitor's minute comes again and again, its calls do not fail for ever,
\* and a request that was checked is written.
FairSpec ==
  /\ Spec
  /\ SF_vars(Read("mark")) /\ SF_vars(Mark(market)) /\ SF_vars(Decide)
  /\ WF_vars(JobStops) /\ \A o \in Operators : WF_vars(Write(o))
-----------------------------------------------------------------------------
(* Properties.                                                             *)

\* The stored mark and triggers are those of the highest price the trade has
\* seen, although every job writes them from a row it read before, and the
\* review and the operators write the same row.
TriggersFollowTop ==
  /\ hwm = top
  /\ ts = TrailingStop(top, basis)
  /\ ttp = TrailingTakeProfit(top, basis)

\* A trailing trigger never steps back, and never disarms, unless the levels it
\* is computed from have changed.
TriggersRatchet ==
  [][basis' = basis =>
       /\ ts # None => ts' # None /\ ts' >= ts
       /\ ttp # None => ttp' # None /\ ttp' >= ttp]_vars

\* While the market stays at or below the stop loss of the row, the trade is
\* asked to close, whatever edits, reviews and failures come between.
Due == levels["stop_loss"] # None /\ market <= levels["stop_loss"]
ExitsWhenDue == asked = None /\ Due ~> asked # None \/ ~Due

\* The last edit of an operator reaches the triggers.
EditsTakeEffect ==
  edits = MaxEdits /\ (\A o \in Operators : draft[o] = None)
    ~> \/ asked # None
       \/ ts = TrailingStop(hwm, levels) /\ ttp = TrailingTakeProfit(hwm, levels)

\* backend/README.md:77 and services/trade_admin.py:69: the trailing take profit
\* has both its fields or none.
PairComplete == Paired(levels)
=============================================================================

---------------------------- MODULE TradeLifecycle ----------------------------
(***************************************************************************)
(* The life of a trade: services/trade_manager.py (entry, fill, exit) run  *)
(* by the scheduler thread, services/trade_admin.py (manual close or       *)
(* cancel) run by API threads, the SQLite table trades they share, and     *)
(* the eToro account as those files use it.                                *)
(*                                                                         *)
(* Every function of the manager takes a row read earlier and writes the   *)
(* table with "UPDATE ... WHERE id = ?", never guarded by the status, so   *)
(* an actor's row may be stale when it writes.  A step of this module is   *)
(* one statement on the table or one call to the broker; the rest of a     *)
(* function is local to its thread.  The scheduler's lock lets one job run *)
(* at a time (module Scheduler); operators do not take it.                 *)
(***************************************************************************)
EXTENDS Naturals, FiniteSets

CONSTANTS
  Trades,       \* ids of the rows the table may come to hold
  Orders,       \* entry orders the account may come to receive, numbered: a bound
  Externals,    \* positions opened on eToro by hand, outside the program
  Symbols,
  SymbolOf,     \* the symbol of a trade and of an external position
  Scheduler,    \* the thread that runs the scheduled jobs
  Operators,    \* API threads in POST /api/trades/{id}/close
  None,         \* SQL NULL, Python None
  HonoursRequestId, \* whether the account takes a repeated request only once
  MaxManual,    \* bound: manual requests
  MaxFailures   \* bound: broker calls and statements that fail, and restarts, in all

ASSUME SymbolAssumption == SymbolOf \in [Trades \cup Externals -> Symbols]
ASSUME NumberAssumption == Orders \subseteq Nat \ {0}
ASSUME DistinctAssumption ==
  /\ Trades \cap Externals = {}
  /\ Orders \cap Externals = {}
  /\ None \notin Trades \cup Orders \cup Externals
  /\ Scheduler \notin Operators
ASSUME BoundAssumption ==
  /\ HonoursRequestId \in BOOLEAN
  /\ MaxManual \in Nat /\ MaxFailures \in Nat

VARIABLES
  row,        \* the table: one row per trade, status "NONE" before its INSERT
  age,        \* how far past created_at a row is: see EntryWindow
  order,      \* the broker's state of each entry order
  owner,      \* the trade an entry order was sent for
  position,   \* the broker's state of each position
  closing,    \* positions whose market close the broker has accepted
  job,        \* the job that holds the scheduler's lock
  batch,      \* rows the job read when it started and has not reached yet
  pc, at, seen, found, why,  \* per thread: step, trade, its row as read, ...
  manual, failures,  \* how much of each bound is used
  lost        \* how many order ids failures may have lost (history): see Fails, Cut

table  == <<row, age>>
broker == <<order, owner, position, closing>>
thread == <<pc, at, seen, found, why>>
used   == <<manual, failures, lost>>
vars   == <<table, broker, job, batch, thread, used>>

Actors    == Operators \cup {Scheduler}
Positions == Orders \cup Externals
Statuses  == {"NONE", "PENDING", "OPEN", "CLOSED", "CANCELLED"}
Reasons   == {"ENTRY_TIMEOUT", "ENTRY_FAILED", "ENTRY_REJECTED", "ORDER_AWAIT_TIMEOUT",
              "STALE_PENDING_CANCELED", "MANUAL_CANCEL"}

\* NULL is not a text.
ASSUME NullAssumption == None \notin Reasons

\* opened: open_timestamp is set; exit: exit_order_id is set; reason: the
\* close_reason of a CANCELLED row (those of closed rows are not told apart).
Row == [status: Statuses, order: Orders \cup {None}, pos: Positions \cup {None},
        confirmed: BOOLEAN, opened: BOOLEAN, exit: BOOLEAN, reason: Reasons \cup {None}]

NoRow == [status |-> "NONE", order |-> None, pos |-> None,
          confirmed |-> FALSE, opened |-> FALSE, exit |-> FALSE, reason |-> None]

\* The three ages anything depends on.  An entry order is only sent inside the
\* entry window, so its own timeout runs out once and later, and by default
\* (20 minutes, 12 hours) before the seven days after which a row is reviewed.
EntryWindow == 1
AwaitTimeout == 2
StaleAge == 3

Labels == {"idle", "next", "save", "entry", "decide", "submitted", "await", "fetch",
           "activate", "activateBlind", "abandon", "cancel",
           "watch", "confirm", "rules", "request", "exitSave", "exit", "close"}

TypeOK ==
  /\ row \in [Trades -> Row]
  /\ age \in [Trades -> 0..StaleAge]
  /\ order \in [Orders -> {"none", "waiting", "executed", "refused"}]
  /\ owner \in [Orders -> Trades \cup {None}]
  /\ position \in [Positions -> {"none", "settling", "live", "gone"}]
  /\ closing \subseteq Positions
  /\ job \in {"none", "sync", "review", "evaluate"}
  /\ batch \in [Trades -> Row]
  /\ pc \in [Actors -> Labels]
  /\ at \in [Actors -> Trades \cup {None}]
  /\ seen \in [Actors -> Row]
  /\ found \in [Actors -> Positions \cup {None}]
  /\ why \in [Actors -> Reasons \cup {None}]
  /\ manual \in Nat /\ failures \in Nat /\ lost \in Nat

Active(r) == r.status \in {"PENDING", "OPEN"}

\* get_open_position matches by instrument only: any position of the trade's
\* symbol that the portfolio already shows, whoever opened it.
SymbolOfPosition(p) ==
  IF p \in Externals THEN SymbolOf[p]
  ELSE IF owner[p] = None THEN None ELSE SymbolOf[owner[p]]
Visible(t) == {p \in Positions : position[p] = "live" /\ SymbolOfPosition(p) = SymbolOf[t]}

Init ==
  /\ row = [t \in Trades |-> NoRow] /\ age = [t \in Trades |-> 0]
  /\ order = [o \in Orders |-> "none"] /\ owner = [o \in Orders |-> None]
  /\ position = [p \in Positions |-> "none"] /\ closing = {}
  /\ job = "none" /\ batch = [t \in Trades |-> NoRow]
  /\ pc = [a \in Actors |-> "idle"] /\ at = [a \in Actors |-> None]
  /\ seen = [a \in Actors |-> NoRow]
  /\ found = [a \in Actors |-> None] /\ why = [a \in Actors |-> None]
  /\ manual = 0 /\ failures = 0 /\ lost = 0

-----------------------------------------------------------------------------
(* Control: how a thread moves to its next statement or ends.              *)

Goto(a, label) ==
  /\ pc' = [pc EXCEPT ![a] = label]
  /\ UNCHANGED <<at, seen, found, why, job, batch>>

\* The thread has nothing left to do for its trade.  The job takes the next
\* row it read, or ends and frees the lock.
Done(a) ==
  LET more == a = Scheduler /\ \E t \in Trades : Active(batch[t])
  IN  /\ pc' = [pc EXCEPT ![a] = IF more THEN "next" ELSE "idle"]
      /\ job' = IF a = Scheduler /\ ~more THEN "none" ELSE job
      /\ at' = [at EXCEPT ![a] = None]
      /\ seen' = [seen EXCEPT ![a] = NoRow]
      /\ found' = [found EXCEPT ![a] = None]
      /\ why' = [why EXCEPT ![a] = None]
      /\ UNCHANGED batch

\* The broker call of this step raises, or an attempt of it that is repeated.  The
\* account may have taken what the attempt sent, and nobody keeps the id of it.
Fails(n) ==
  /\ failures + n <= MaxFailures /\ failures' = failures + n
  /\ lost' = IF HonoursRequestId THEN lost ELSE lost + n
  /\ UNCHANGED manual
Fault == Fails(1)

\* Something ends a thread's turn before it has written what it knows.
Cut ==
  /\ failures < MaxFailures /\ failures' = failures + 1
  /\ lost' = lost + 1
  /\ UNCHANGED manual

\* (mutant) the number that int(... or 0) makes of no id
NoIdNumber == 0

\* str(... or "") or None: what is kept of an answer without an id.
NoId == None

\* The labels before a statement that writes the table.
Writing == {"save", "submitted", "activate", "activateBlind", "cancel",
            "confirm", "exitSave", "close"}

\* The statement raises and leaves the table alone.  The "except" of the pass, of the
\* evaluation or of the request ends the turn of this trade only; what the broker has
\* done before stays done.
StatementFails(a) ==
  /\ pc[a] \in Writing
  /\ Cut
  /\ Done(a)
  /\ UNCHANGED <<table, broker>>

CancelNext(a, reason) ==
  /\ pc' = [pc EXCEPT ![a] = "cancel"]
  /\ why' = [why EXCEPT ![a] = reason]
  /\ UNCHANGED <<at, seen, found, job, batch>>

-----------------------------------------------------------------------------
(* The jobs: sync_broker_state, review_stale_pending_trades, evaluate.     *)

\* A pass reads all the rows it will visit before it visits the first.
StartPass(kind, chosen) ==
  /\ pc[Scheduler] = "idle" /\ job = "none"
  /\ chosen # {}
  /\ job' = kind
  /\ batch' = [t \in Trades |-> IF t \in chosen THEN row[t] ELSE NoRow]
  /\ pc' = [pc EXCEPT ![Scheduler] = "next"]
  /\ UNCHANGED <<table, broker, at, seen, found, why, used>>

SyncBrokerState == StartPass("sync", {t \in Trades : Active(row[t])})

ReviewStalePending ==
  StartPass("review", {t \in Trades : row[t].status = "PENDING" /\ age[t] >= StaleAge})

\* (mutant) the stored order id is not looked at
EntranceForgetful(r) ==
  IF r.status = "PENDING" THEN "entry" ELSE IF r.exit THEN "exit" ELSE "watch"

\* sync_pending_trade or sync_open_trade, and which half of it.
Entrance(r) ==
  IF r.status = "PENDING" THEN IF r.order = None THEN "entry" ELSE "await"
  ELSE IF r.exit THEN "exit" ELSE "watch"

\* The pass visits its rows in the order of created_at; any order is allowed here.
NextTrade(t) ==
  /\ pc[Scheduler] = "next" /\ Active(batch[t])
  /\ at' = [at EXCEPT ![Scheduler] = t]
  /\ seen' = [seen EXCEPT ![Scheduler] = batch[t]]
  /\ batch' = [batch EXCEPT ![t] = NoRow]
  /\ \/ /\ job = "sync"
        /\ pc' = [pc EXCEPT ![Scheduler] = Entrance(batch[t])]
        /\ UNCHANGED why
     \/ \* the model's review of a stale pending trade answers CANCEL
        /\ job = "review"
        /\ pc' = [pc EXCEPT ![Scheduler] = "cancel"]
        /\ why' = [why EXCEPT ![Scheduler] = "STALE_PENDING_CANCELED"]
  /\ UNCHANGED <<table, broker, job, found, used>>

\* The review answers KEEP, or has no candles, or raises: the row is left alone.
ReviewKeeps(t) ==
  /\ pc[Scheduler] = "next" /\ job = "review" /\ Active(batch[t])
  /\ LET rest == [batch EXCEPT ![t] = NoRow]
         more == \E u \in Trades : Active(rest[u])
     IN  /\ batch' = rest
         /\ pc' = [pc EXCEPT ![Scheduler] = IF more THEN "next" ELSE "idle"]
         /\ job' = IF more THEN "review" ELSE "none"
  /\ UNCHANGED <<table, broker, at, seen, found, why, used>>

\* (mutant) only filled trades count
HasOpenTrade(t) ==
  \E u \in Trades : SymbolOf[u] = SymbolOf[t] /\ row[u].status = "OPEN"

\* get_symbol_trades is not empty.
HasActiveTrade(t) ==
  \E u \in Trades : SymbolOf[u] = SymbolOf[t] /\ Active(row[u])

\* _open_trade_from_signal up to its last check; a failed position lookup lets
\* the trade through.  The slot, level, regime and capital checks only ever
\* refuse a trade, and module Allocation has them.
OpenTradeFromSignal(t) ==
  /\ pc[Scheduler] = "idle" /\ job = "none"
  /\ row[t].status = "NONE"
  /\ ~HasActiveTrade(t)
  /\ \/ Visible(t) = {} /\ UNCHANGED used
     \/ Fault
  /\ job' = "evaluate"
  /\ pc' = [pc EXCEPT ![Scheduler] = "save"]
  /\ at' = [at EXCEPT ![Scheduler] = t]
  /\ UNCHANGED <<table, broker, batch, seen, found, why>>

SaveNewTrade ==
  /\ pc[Scheduler] = "save"
  /\ row' = [row EXCEPT ![at[Scheduler]] = [NoRow EXCEPT !.status = "PENDING"]]
  /\ Done(Scheduler)
  /\ UNCHANGED <<age, broker, used>>

-----------------------------------------------------------------------------
(* Entry: sync_pending_trade and what it calls.                            *)

EntryLookup ==
  LET t == at[Scheduler] IN
  /\ pc[Scheduler] = "entry"
  /\ \/ \E p \in Visible(t) :
          /\ found' = [found EXCEPT ![Scheduler] = p]
          /\ pc' = [pc EXCEPT ![Scheduler] = "activate"]
          /\ UNCHANGED <<at, seen, why, job, batch, used>>
     \/ Visible(t) = {} /\ Goto(Scheduler, "decide") /\ UNCHANGED used
     \/ Fault /\ Done(Scheduler)
  /\ UNCHANGED <<table, broker>>

\* (mutant) the window is never over
NeverPastWindow(t) == FALSE

PastWindow(t) == age[t] >= EntryWindow

\* Past the window the trade is cancelled whatever the price; before it, no
\* quote or an ask above the fill band leaves the trade for the next tick.
EntryWaits ==
  /\ pc[Scheduler] = "decide"
  /\ IF PastWindow(at[Scheduler]) THEN CancelNext(Scheduler, "ENTRY_TIMEOUT")
                               ELSE Done(Scheduler)
  /\ UNCHANGED <<table, broker, used>>

\* The client repeats a POST that fails for a reason that may pass, with the same
\* request id; every attempt may reach the account before it fails.
Attempts == 3
MostTaken == IF HonoursRequestId THEN 1 ELSE Attempts

\* The account numbers its orders one after the other.
NextNumbers(taken) ==
  \A o \in taken, u \in Orders : u < o /\ order[u] = "none" => u \in taken

\* The price is in the band: the POST is sent, and the account takes the orders of
\* taken, one for an attempt at most.  The last attempt may raise before or after the
\* account took its order, and its answer may carry no order id.  A row is inserted
\* with its instrument id, so INSTRUMENT_UNRESOLVED is never reached.
OpenMarketPosition(taken) ==
  /\ pc[Scheduler] = "decide" /\ ~PastWindow(at[Scheduler])
  /\ IsFiniteSet(taken) /\ Cardinality(taken) <= MostTaken
  /\ \A o \in taken : order[o] = "none"
  /\ NextNumbers(taken)
  /\ order' = [o \in Orders |-> IF o \in taken THEN "waiting" ELSE order[o]]
  /\ owner' = [o \in Orders |-> IF o \in taken THEN at[Scheduler] ELSE owner[o]]
  /\ \/ \E o \in taken :
          /\ Fails(Cardinality(taken) - 1)
          /\ found' = [found EXCEPT ![Scheduler] = o]
          /\ pc' = [pc EXCEPT ![Scheduler] = "submitted"]
          /\ UNCHANGED <<at, seen, why, job, batch>>
     \/ \E p \in taken \cup {NoId} :
          /\ taken # {} /\ Fails(Cardinality(taken))
          /\ found' = [found EXCEPT ![Scheduler] = p]
          /\ pc' = [pc EXCEPT ![Scheduler] = "activateBlind"]
          /\ UNCHANGED <<at, seen, why, job, batch>>
     \/ taken # {} /\ Fails(Cardinality(taken)) /\ CancelNext(Scheduler, "ENTRY_FAILED")
     \/ taken = {} /\ Fault /\ CancelNext(Scheduler, "ENTRY_FAILED")
  /\ UNCHANGED <<table, position, closing>>

MarkOrderSubmitted ==
  /\ pc[Scheduler] = "submitted"
  /\ row' = [row EXCEPT ![at[Scheduler]].order = found[Scheduler]]
  /\ Done(Scheduler)
  /\ UNCHANGED <<age, broker, used>>

\* (mutant) an order that still waits is taken for a refused one
RefusedOrWaiting(o) == order[o] \in {"refused", "waiting"}

Refused(o) == order[o] = "refused"

ResolveSubmittedOrder ==
  LET o == seen[Scheduler].order
      unresolved == IF age[at[Scheduler]] >= AwaitTimeout
                    THEN Goto(Scheduler, "abandon") ELSE Done(Scheduler)
  IN
  /\ pc[Scheduler] = "await"
  /\ \/ order[o] = "executed" /\ Goto(Scheduler, "fetch") /\ UNCHANGED used
     \/ /\ Refused(o)
        /\ CancelNext(Scheduler, "ENTRY_REJECTED") /\ UNCHANGED used
     \/ order[o] = "waiting" /\ unresolved /\ UNCHANGED used
     \/ Fault /\ unresolved         \* the lookup answers 404
     \/ Fault /\ Done(Scheduler)    \* the lookup raises
  /\ UNCHANGED <<table, broker>>

\* The order is executed, but the portfolio may not show its position yet: then
\* the id named by the order's lookup is kept, if it names one.
FetchFilledPosition ==
  LET t == at[Scheduler]
      keep(p, label) == /\ found' = [found EXCEPT ![Scheduler] = p]
                        /\ pc' = [pc EXCEPT ![Scheduler] = label]
                        /\ UNCHANGED <<at, seen, why, job, batch>>
  IN
  /\ pc[Scheduler] = "fetch"
  /\ \/ \E p \in Visible(t) : keep(p, "activate") /\ UNCHANGED used
     \/ Visible(t) = {} /\ keep(seen[Scheduler].order, "activateBlind") /\ UNCHANGED used
     \/ Visible(t) = {} /\ keep(NoId, "activateBlind") /\ Fault
     \/ Fault /\ Done(Scheduler)
  /\ UNCHANGED <<table, broker>>

\* _activate_trade_from_position: the row becomes OPEN whatever its status is now.
ActivateTrade ==
  LET t == at[Scheduler] IN
  /\ pc[Scheduler] \in {"activate", "activateBlind"}
  /\ row' = [row EXCEPT ![t] = [@ EXCEPT
              !.status = "OPEN", !.opened = TRUE, !.pos = found[Scheduler],
              !.confirmed = (pc[Scheduler] = "activate") \/ seen[Scheduler].confirmed]]
  /\ Done(Scheduler)
  /\ UNCHANGED <<age, broker, used>>

\* An order that is past cancelling, or a cancel that raises, leaves the order
\* alone; the row is cancelled either way.
AbandonUnfilledOrder ==
  LET o == seen[Scheduler].order IN
  /\ pc[Scheduler] = "abandon"
  /\ \/ /\ order[o] = "waiting"
        /\ order' = [order EXCEPT ![o] = "refused"]
        /\ UNCHANGED used
     \/ order[o] # "waiting" /\ UNCHANGED <<order, used>>
     \/ Fault /\ UNCHANGED order
  /\ CancelNext(Scheduler, "ORDER_AWAIT_TIMEOUT")
  /\ UNCHANGED <<table, owner, position, closing>>

\* (mutant) the wrong terminal status
CancelAsClosed(a) ==
  /\ pc[a] = "cancel"
  /\ row' = [row EXCEPT ![at[a]] = [@ EXCEPT !.status = "CLOSED", !.reason = None]]
  /\ Done(a)
  /\ UNCHANGED <<age, broker, used>>

\* The UPDATE names the id alone: whatever the row has become is overwritten.
CancelPendingTradeRecord(a) ==
  /\ pc[a] = "cancel"
  /\ row' = [row EXCEPT ![at[a]] = [@ EXCEPT !.status = "CANCELLED", !.reason = why[a]]]
  /\ Done(a)
  /\ UNCHANGED <<age, broker, used>>

-----------------------------------------------------------------------------
(* Exit: sync_open_trade and what it calls.                                *)

\* (mutant) only a vanished position that was asked to close counts
VanishedAfterExit(r) == r.confirmed /\ r.exit

\* A position that is not there any more was closed elsewhere, once it was seen.
CountsAsClosed(r) == r.confirmed

SyncOpenTrade ==
  LET t == at[Scheduler]
      confirmed == seen[Scheduler].confirmed
      vanished == CountsAsClosed(seen[Scheduler])
  IN
  /\ pc[Scheduler] = "watch"
  /\ \/ /\ Visible(t) # {} /\ UNCHANGED used
        /\ Goto(Scheduler, IF confirmed THEN "rules" ELSE "confirm")
     \/ Visible(t) = {} /\ vanished /\ Goto(Scheduler, "close") /\ UNCHANGED used
     \/ Visible(t) = {} /\ ~vanished /\ Done(Scheduler) /\ UNCHANGED used
     \/ Fault /\ Done(Scheduler)
  /\ UNCHANGED <<table, broker>>

\* (mutant) confirming also sets the status
ConfirmReopens ==
  /\ pc[Scheduler] = "confirm"
  /\ row' = [row EXCEPT ![at[Scheduler]].confirmed = TRUE, ![at[Scheduler]].status = "OPEN"]
  /\ Goto(Scheduler, "rules")
  /\ UNCHANGED <<age, broker, used>>

ConfirmPosition ==
  /\ pc[Scheduler] = "confirm"
  /\ row' = [row EXCEPT ![at[Scheduler]].confirmed = TRUE]
  /\ Goto(Scheduler, "rules")
  /\ UNCHANGED <<age, broker, used>>

\* Prices and marks are written (module ExitRules); a rule fires or none does.
ExitRulesDecide ==
  /\ pc[Scheduler] = "rules"
  /\ Goto(Scheduler, "request") \/ Done(Scheduler)
  /\ UNCHANGED <<table, broker, used>>

\* (mutant) the position is looked up again by its instrument
FirstVisible(a) ==
  IF Visible(at[a]) = {} THEN seen[a].pos ELSE CHOOSE p \in Visible(at[a]) : TRUE

ExitTarget(a) == seen[a].pos

\* _request_market_close, by the job or by an operator.  A broker error that
\* reads like "position ... not ..." or "... exist" counts as already closed.
RequestMarketClose(a) ==
  LET p == ExitTarget(a)
      accepted == /\ position[p] \in {"settling", "live"}
                  /\ closing' = closing \cup {p}
  IN
  /\ pc[a] = "request"
  /\ \/ seen[a].exit /\ Done(a) /\ UNCHANGED <<closing, used>>
     \/ ~seen[a].exit /\ p = None /\ Goto(a, "close") /\ UNCHANGED <<closing, used>>
     \/ /\ ~seen[a].exit /\ p # None
        /\ \/ accepted /\ Goto(a, "exitSave") /\ UNCHANGED used
           \/ position[p] \in {"none", "gone"} /\ Goto(a, "close") /\ UNCHANGED <<closing, used>>
           \/ Fault /\ Goto(a, "close") /\ UNCHANGED closing
           \/ Fault /\ Done(a) /\ (accepted \/ UNCHANGED closing)
  /\ UNCHANGED <<table, order, owner, position>>

\* The exit order is stored and the row read back; an answer without an id
\* stores NULL, and _sync_exit_order then returns at once.
SaveExitOrder(a) ==
  LET t == at[a] IN
  /\ pc[a] = "exitSave"
  /\ \/ /\ row' = [row EXCEPT ![t].exit = TRUE]
        /\ seen' = [seen EXCEPT ![a] = row'[t]]
        /\ pc' = [pc EXCEPT ![a] = "exit"]
        /\ UNCHANGED <<at, found, why, job, batch, used>>
     \/ row' = [row EXCEPT ![t].exit = FALSE] /\ Fault /\ Done(a)
  /\ UNCHANGED <<age, broker>>

\* (mutant) a vanished position is waited for
SyncExitOrderWaits(a) ==
  /\ pc[a] = "exit"
  /\ Done(a) /\ UNCHANGED <<table, broker, used>>

SyncExitOrder(a) ==
  /\ pc[a] = "exit"
  /\ \/ Visible(at[a]) # {} /\ Done(a) /\ UNCHANGED used
     \/ Visible(at[a]) = {} /\ Goto(a, "close") /\ UNCHANGED used
     \/ Fault /\ Done(a)
  /\ UNCHANGED <<table, broker>>

MarkTradeClosed(a) ==
  /\ pc[a] = "close"
  /\ row' = [row EXCEPT ![at[a]] = [@ EXCEPT !.status = "CLOSED", !.reason = None]]
  /\ Done(a)
  /\ UNCHANGED <<age, broker, used>>

-----------------------------------------------------------------------------
(* Operators, the account, time and restarts.                              *)

\* (mutant) a trade whose order was sent is closed, not cancelled
ManualEntranceByOrder(r) == IF r.status = "OPEN" \/ r.order # None THEN "request" ELSE "cancel"

ManualEntrance(r) == IF r.status = "OPEN" THEN "request" ELSE "cancel"

\* The request reads the row, then acts on what it read, without the lock.
ManualCloseOrCancel(a, t) ==
  /\ pc[a] = "idle" /\ manual < MaxManual
  /\ manual' = manual + 1
  /\ at' = [at EXCEPT ![a] = t]
  /\ seen' = [seen EXCEPT ![a] = row[t]]
  /\ Active(row[t])
  /\ pc' = [pc EXCEPT ![a] = ManualEntrance(row[t])]
  /\ why' = [why EXCEPT ![a] = "MANUAL_CANCEL"]
  /\ UNCHANGED <<table, broker, job, batch, found, failures, lost>>

OrderFills(o) ==
  /\ order[o] = "waiting"
  /\ order' = [order EXCEPT ![o] = "executed"]
  /\ position' = [position EXCEPT ![o] = "settling"]
  /\ UNCHANGED <<table, owner, closing, job, batch, thread, used>>

\* Rejected or cancelled on eToro's side: one branch handles both.
OrderRefused(o) ==
  /\ order[o] = "waiting"
  /\ order' = [order EXCEPT ![o] = "refused"]
  /\ UNCHANGED <<table, owner, position, closing, job, batch, thread, used>>

PortfolioShows(o) ==
  /\ position[o] = "settling"
  /\ position' = [position EXCEPT ![o] = "live"]
  /\ UNCHANGED <<table, order, owner, closing, job, batch, thread, used>>

\* An accepted market close is executed.
CloseExecutes(p) ==
  /\ p \in closing /\ position[p] \in {"settling", "live"}
  /\ position' = [position EXCEPT ![p] = "gone"]
  /\ UNCHANGED <<table, order, owner, closing, job, batch, thread, used>>

\* eToro's own stop loss or take profit, or its user, closes a position.
ClosedOnEtoro(p) ==
  /\ position[p] \in {"settling", "live"}
  /\ position' = [position EXCEPT ![p] = "gone"]
  /\ UNCHANGED <<table, order, owner, closing, job, batch, thread, used>>

OpenedOnEtoro(x) ==
  /\ position[x] = "none"
  /\ position' = [position EXCEPT ![x] = "live"]
  /\ UNCHANGED <<table, order, owner, closing, job, batch, thread, used>>

\* Only the age of a PENDING row is ever looked at.
TradeAges(t) ==
  /\ row[t].status = "PENDING" /\ age[t] < StaleAge
  /\ age' = [age EXCEPT ![t] = @ + 1]
  /\ UNCHANGED <<row, broker, job, batch, thread, used>>

\* Threads and the lock die with the process; the table stays.
Restart ==
  /\ Cut
  /\ job' = "none" /\ batch' = [t \in Trades |-> NoRow]
  /\ pc' = [a \in Actors |-> "idle"] /\ at' = [a \in Actors |-> None]
  /\ seen' = [a \in Actors |-> NoRow]
  /\ found' = [a \in Actors |-> None] /\ why' = [a \in Actors |-> None]
  /\ UNCHANGED <<table, broker>>

-----------------------------------------------------------------------------
EntryStep ==
  \/ EntryLookup \/ EntryWaits \/ (\E taken \in SUBSET Orders : OpenMarketPosition(taken))
  \/ MarkOrderSubmitted \/ ResolveSubmittedOrder \/ FetchFilledPosition
  \/ ActivateTrade \/ AbandonUnfilledOrder

JobStep ==
  \/ \E t \in Trades : NextTrade(t) \/ ReviewKeeps(t)
  \/ SaveNewTrade \/ EntryStep
  \/ SyncOpenTrade \/ ConfirmPosition \/ ExitRulesDecide

CloseStep(a) ==
  \/ CancelPendingTradeRecord(a) \/ RequestMarketClose(a) \/ SaveExitOrder(a)
  \/ SyncExitOrder(a) \/ MarkTradeClosed(a)

Account ==
  \/ \E o \in Orders : OrderFills(o) \/ OrderRefused(o) \/ PortfolioShows(o)
  \/ \E p \in Positions : CloseExecutes(p) \/ ClosedOnEtoro(p)
  \/ \E x \in Externals : OpenedOnEtoro(x)

Next ==
  \/ SyncBrokerState \/ ReviewStalePending
  \/ \E t \in Trades : OpenTradeFromSignal(t)
  \/ JobStep
  \/ \E a \in Actors : CloseStep(a) \/ StatementFails(a)
  \/ \E a \in Operators, t \in Trades : ManualCloseOrCancel(a, t)
  \/ Account \/ (\E t \in Trades : TradeAges(t)) \/ Restart

Spec == Init /\ [][Next]_vars

\* A thread that has started goes on; the monitor's minute comes again and
\* again; time passes; the account shows what it filled and executes the closes
\* it accepted.  Operators, fills and the evaluation job owe nothing.
FairSpec ==
  /\ Spec
  /\ WF_vars(JobStep) /\ \A a \in Actors : WF_vars(CloseStep(a))
  /\ SF_vars(SyncBrokerState)
  /\ \A t \in Trades : WF_vars(TradeAges(t))
  /\ \A o \in Orders : WF_vars(PortfolioShows(o))
  /\ \A p \in Positions : WF_vars(CloseExecutes(p))
-----------------------------------------------------------------------------
(* Properties.                                                             *)

\* backend/README.md:196: one active trade (PENDING or OPEN) per symbol.  The check and
\* the INSERT of _open_trade_from_signal are apart, and rows are revived by
\* writes that do not look at the status.
OneActivePerSymbol ==
  \A t, u \in Trades :
    Active(row[t]) /\ Active(row[u]) /\ SymbolOf[t] = SymbolOf[u] => t = u

\* sync_pending_trade buys once for a trade, wherever passes, operators and failures
\* meet, and once more at most for each order id that may have been lost: by a restart
\* or a failed statement after the POST, or by an attempt of the POST that failed, if
\* the account does not honour the request id.
EntryOrdersBounded ==
  \A t \in Trades : Cardinality({o \in Orders : owner[o] = t}) <= 1 + lost

\* What still works or is held at the account for a trade's own entry orders.
Exposed(t) ==
  {o \in Orders : owner[o] = t /\ (order[o] = "waiting" \/ position[o] \in {"settling", "live"})}

\* A row cancelled because its window passed, or because the broker refused the
\* order, leaves no order working and no position behind: whatever operators do
\* meanwhile, only orders whose ids were lost may remain.
CleanCancel ==
  \A t \in Trades :
    row[t].status = "CANCELLED" /\ row[t].reason \in {"ENTRY_TIMEOUT", "ENTRY_REJECTED"}
      => Cardinality(Exposed(t)) <= lost

\* backend/README.md:209: a CLOSED trade was really opened, although manual close and
\* the monitor both write CLOSED from rows read earlier.
ClosedWasOpened == \A t \in Trades : row[t].status = "CLOSED" => row[t].opened

\* A closed trade is never active again: no write from a row read while the
\* trade was PENDING or OPEN brings it back.
ClosedNeverReopens ==
  [][\A t \in Trades : row[t].status = "CLOSED" => ~Active(row'[t])]_vars

\* The program never asks the broker to close a position that no row of the
\* table has as its own, so every exit it sends can be accounted for.
ExitIsClaimed == \A p \in closing : \E t \in Trades : row[t].pos = p

\* backend/README.md:208: a CANCELLED trade's entry order was never executed.
CancelledNeverFilled ==
  \A t \in Trades : row[t].status = "CANCELLED" =>
    \A o \in Orders : owner[o] = t => order[o] # "executed"

\* backend/README.md:209: a CLOSED trade was closed: nothing its own entry order bought
\* is still held, unless its close is accepted and under way.
ClosedMeansFlat ==
  \A t \in Trades : row[t].status = "CLOSED" =>
    \A o \in Orders :
      owner[o] = t => o \in closing \/ position[o] \notin {"settling", "live"}

\* The table follows TradeBook: without operators the lifecycle of the README,
\* with them that lifecycle and the overwrites by stale rows named there.
Book == INSTANCE TradeBook WITH
          status <- [t \in Trades |-> row[t].status],
          StaleWrites <- Operators # {}
RefinesTradeBook == Book!Spec

\* No trade stays PENDING for ever: it fills, times out or is abandoned.
PendingResolves ==
  \A t \in Trades : row[t].status = "PENDING" ~> row[t].status # "PENDING"

\* A confirmed trade whose position vanished is closed, unless the portfolio
\* shows another position of the same instrument in its place.
VanishedIsClosed ==
  \A t \in Trades :
    row[t].status = "OPEN" /\ row[t].confirmed /\ Visible(t) = {}
      ~> row[t].status # "OPEN" \/ Visible(t) # {}

\* A requested exit ends the trade, unless another position of the same
\* instrument hides that the trade's own is gone.
ExitCompletes ==
  \A t \in Trades :
    row[t].status = "OPEN" /\ row[t].exit
      ~> row[t].status # "OPEN" \/ Visible(t) \ {row[t].pos} # {}
=============================================================================

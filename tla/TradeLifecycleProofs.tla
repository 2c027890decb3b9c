------------------------ MODULE TradeLifecycleProofs ------------------------
(***************************************************************************)
(* Theorems about TradeLifecycle, for every set of trades, orders, symbols *)
(* and operators and every bound.                                          *)
(***************************************************************************)
EXTENDS TradeLifecycle, FiniteSetTheorems, TLAPS

\* A thread works on a trade exactly while it is inside one; only the scheduler
\* runs the entry half; the row list of a pass is used up when the pass ends.
ThreadInv ==
  /\ \A a \in Actors : at[a] = None <=> pc[a] \in {"idle", "next"}
  /\ \A a \in Operators :
       pc[a] \in {"idle", "cancel", "request", "exitSave", "exit", "close"}
  /\ pc[Scheduler] = "submitted" => found[Scheduler] \in Orders
  /\ pc[Scheduler] = "idle" => \A t \in Trades : ~Active(batch[t])

\* The part of TypeOK that the threads change.
ThreadType ==
  /\ job \in {"none", "sync", "review", "evaluate"}
  /\ batch \in [Trades -> Row]
  /\ pc \in [Actors -> Labels]
  /\ at \in [Actors -> Trades \cup {None}]
  /\ seen \in [Actors -> Row]
  /\ found \in [Actors -> Positions \cup {None}]
  /\ why \in [Actors -> Reasons \cup {None}]

Base == TypeOK /\ ThreadInv

USE SymbolAssumption, DistinctAssumption, BoundAssumption

LEMMA InitBase == Init => Base
BY DEF Init, Base, TypeOK, ThreadInv, Row, NoRow, Statuses, Labels, Active, Actors, StaleAge

LEMMA NoRowIsRow == NoRow \in Row /\ ~Active(NoRow)
BY DEF NoRow, Row, Statuses, Active

\* The columns the UPDATEs write.
LEMMA RowUpdates ==
  ASSUME NEW r \in Row
  PROVE  /\ \A s \in Statuses, x \in Reasons \cup {None} :
              [r EXCEPT !.status = s, !.reason = x] \in Row
         /\ \A o \in Orders : [r EXCEPT !.order = o] \in Row
         /\ \A b \in BOOLEAN : [r EXCEPT !.confirmed = b] \in Row
         /\ \A b \in BOOLEAN : [r EXCEPT !.exit = b] \in Row
         /\ \A s \in Statuses, b, c \in BOOLEAN, q \in Positions \cup {None} :
              [r EXCEPT !.status = s, !.opened = b, !.pos = q, !.confirmed = c] \in Row
BY DEF Row

\* The control operators, and what they keep.
LEMMA GotoBase ==
  ASSUME Base, NEW a \in Actors, NEW l \in Labels \ {"idle", "next", "submitted"},
         pc[a] \notin {"idle", "next"},
         a = Scheduler \/ l \in {"cancel", "request", "exitSave", "exit", "close"},
         Goto(a, l)
  PROVE  ThreadType' /\ ThreadInv'
BY DEF Base, TypeOK, ThreadType, ThreadInv, Goto, Labels, Actors, Active

LEMMA DoneBase ==
  ASSUME Base, NEW a \in Actors, pc[a] \notin {"idle", "next"}, Done(a)
  PROVE  ThreadType' /\ ThreadInv'
BY NoRowIsRow DEF Base, TypeOK, ThreadType, ThreadInv, Done, Labels, Actors, Active

LEMMA CancelNextBase ==
  ASSUME Base, NEW r \in Reasons, pc[Scheduler] \notin {"idle", "next"},
         CancelNext(Scheduler, r)
  PROVE  ThreadType' /\ ThreadInv'
BY DEF Base, TypeOK, ThreadType, ThreadInv, CancelNext, Labels, Actors, Active

-----------------------------------------------------------------------------
(* Base is inductive: one lemma per group of actions.                      *)

LEMMA JobStartBase ==
  ASSUME Base, NEW t \in Trades,
         SyncBrokerState \/ ReviewStalePending \/ OpenTradeFromSignal(t)
  PROVE  Base'
<1>1. ASSUME NEW k \in {"sync", "review"}, NEW S \in SUBSET Trades, StartPass(k, S)
      PROVE  Base'
  BY <1>1, NoRowIsRow DEF StartPass, Base, TypeOK, ThreadInv, Actors, Labels,
                          table, broker, used
<1>2. CASE SyncBrokerState
  BY <1>2, <1>1 DEF SyncBrokerState
<1>3. CASE ReviewStalePending
  BY <1>3, <1>1 DEF ReviewStalePending
<1>4. CASE OpenTradeFromSignal(t)
  BY <1>4 DEF OpenTradeFromSignal, Fault, Fails, Base, TypeOK, ThreadInv, Actors, Labels,
              table, broker, used
<1>. QED  BY <1>2, <1>3, <1>4

LEMMA NextTradeBase ==
  ASSUME Base, NEW t \in Trades, NextTrade(t) \/ ReviewKeeps(t)
  PROVE  Base'
<1>1. CASE NextTrade(t)
  <2>1. Entrance(batch[t]) \in {"entry", "await", "exit", "watch"}
    BY DEF Entrance
  <2>. QED
    BY <1>1, <2>1, NoRowIsRow DEF NextTrade, Base, TypeOK, ThreadInv, Actors, Labels, Reasons,
                                  table, broker, used
<1>2. CASE ReviewKeeps(t)
  BY <1>2, NoRowIsRow DEF ReviewKeeps, Base, TypeOK, ThreadInv, Actors, Labels,
                          table, broker, used
<1>. QED  BY <1>1, <1>2

\* The orders a POST leaves are counted, and all but one follow an attempt that failed.
LEMMA TakenCount ==
  ASSUME failures \in Nat, lost \in Nat, NEW taken \in SUBSET Orders, OpenMarketPosition(taken)
  PROVE  /\ Cardinality(taken) \in Nat /\ failures' \in Nat /\ lost' \in Nat
         /\ lost + Cardinality(taken) <= 1 + lost' /\ lost <= lost'
         /\ UNCHANGED manual
<1>1. /\ Cardinality(taken) \in Nat /\ Cardinality(taken) <= MostTaken
      /\ taken # {} => Cardinality(taken) # 0
  BY FS_CardinalityType, FS_EmptySet DEF OpenMarketPosition
<1>2. \E n \in {1, Cardinality(taken), Cardinality(taken) - 1} :
        n \in Nat /\ Cardinality(taken) <= 1 + n /\ Fails(n)
  <2>1. CASE taken = {}
    BY <1>1, <2>1, FS_EmptySet DEF OpenMarketPosition, Fault
  <2>2. CASE taken # {}
    BY <1>1, <2>2 DEF OpenMarketPosition
  <2>. QED  BY <2>1, <2>2
<1>. QED  BY <1>1, <1>2 DEF Fails, MostTaken

LEMMA EntryStepBase ==
  ASSUME Base, SaveNewTrade \/ EntryStep
  PROVE  Base'
<1>. DEFINE S == Scheduler
<1>. USE DEF Base, TypeOK
<1>0. /\ Scheduler \in Actors
      /\ (pc[S] \notin {"idle", "next"}) => at[S] \in Trades
  BY DEF ThreadInv, Actors
<1>1. CASE SaveNewTrade
  <2>1. ThreadType' /\ ThreadInv'
    BY <1>0, <1>1, DoneBase DEF SaveNewTrade
  <2>2. row' \in [Trades -> Row]
    BY <1>0, <1>1 DEF SaveNewTrade, NoRow, Row, Statuses
  <2>. QED  BY <1>1, <2>1, <2>2 DEF SaveNewTrade, ThreadType, broker, used
<1>2. CASE EntryLookup
  <2>1. ThreadType' /\ ThreadInv'
    <3>1. CASE Goto(S, "decide")
      BY <1>0, <1>2, <3>1, GotoBase DEF EntryLookup, Labels
    <3>2. CASE Done(S)
      BY <1>0, <1>2, <3>2, DoneBase DEF EntryLookup
    <3>3. ASSUME NEW p \in Visible(at[S]),
                 found' = [found EXCEPT ![S] = p],
                 pc' = [pc EXCEPT ![S] = "activate"],
                 UNCHANGED <<at, seen, why, job, batch>>
          PROVE  ThreadType' /\ ThreadInv'
      BY <1>0, <1>2, <3>3 DEF EntryLookup, ThreadInv, ThreadType, Labels, Visible, Actors
    <3>. QED  BY <1>2, <3>1, <3>2, <3>3 DEF EntryLookup
  <2>. QED  BY <1>2, <2>1 DEF EntryLookup, Fault, Fails, ThreadType, table, broker, used
<1>3. CASE EntryWaits
  <2>1. ThreadType' /\ ThreadInv'
    BY <1>0, <1>3, DoneBase, CancelNextBase DEF EntryWaits, Reasons
  <2>. QED  BY <1>3, <2>1 DEF EntryWaits, ThreadType, table, broker, used
<1>4. ASSUME NEW taken \in SUBSET Orders, OpenMarketPosition(taken)
      PROVE  Base'
  <2>1. ThreadType' /\ ThreadInv'
    <3>1. CASE CancelNext(S, "ENTRY_FAILED")
      BY <1>0, <1>4, <3>1, CancelNextBase DEF OpenMarketPosition, Reasons
    <3>2. ASSUME NEW p \in taken \cup {None}, NEW l \in {"submitted", "activateBlind"},
                 l = "submitted" => p \in taken,
                 found' = [found EXCEPT ![S] = p],
                 pc' = [pc EXCEPT ![S] = l],
                 UNCHANGED <<at, seen, why, job, batch>>
          PROVE  ThreadType' /\ ThreadInv'
      BY <1>0, <1>4, <3>2 DEF OpenMarketPosition, ThreadInv, ThreadType, Labels, Actors, Positions
    <3>. QED  BY <1>4, <3>1, <3>2 DEF OpenMarketPosition, NoId
  <2>2. /\ order' \in [Orders -> {"none", "waiting", "executed", "refused"}]
        /\ owner' \in [Orders -> Trades \cup {None}]
    BY <1>0, <1>4 DEF OpenMarketPosition
  <2>3. failures' \in Nat /\ lost' \in Nat /\ UNCHANGED <<manual, table, position, closing>>
    BY <1>4, TakenCount DEF OpenMarketPosition
  <2>. QED  BY <2>1, <2>2, <2>3 DEF ThreadType, table
<1>5. CASE MarkOrderSubmitted
  <2>1. ThreadType' /\ ThreadInv'
    BY <1>0, <1>5, DoneBase DEF MarkOrderSubmitted
  <2>2. row' \in [Trades -> Row]
    BY <1>0, <1>5, RowUpdates DEF MarkOrderSubmitted, ThreadInv
  <2>3. UNCHANGED <<age, broker, used>>
    BY <1>5 DEF MarkOrderSubmitted
  <2>. QED  BY <2>1, <2>2, <2>3 DEF ThreadType, broker, used
<1>6. CASE ResolveSubmittedOrder
  <2>1. ThreadType' /\ ThreadInv'
    <3>1. ASSUME NEW l \in {"fetch", "abandon"}, Goto(S, l)
          PROVE  ThreadType' /\ ThreadInv'
      BY <1>0, <1>6, <3>1, GotoBase DEF ResolveSubmittedOrder, Labels
    <3>2. CASE Done(S)
      BY <1>0, <1>6, <3>2, DoneBase DEF ResolveSubmittedOrder
    <3>3. CASE CancelNext(S, "ENTRY_REJECTED")
      BY <1>0, <1>6, <3>3, CancelNextBase DEF ResolveSubmittedOrder, Reasons
    <3>. QED  BY <1>6, <3>1, <3>2, <3>3 DEF ResolveSubmittedOrder
  <2>. QED  BY <1>6, <2>1 DEF ResolveSubmittedOrder, Fault, Fails, ThreadType, table, broker, used
<1>7. CASE FetchFilledPosition
  <2>1. ThreadType' /\ ThreadInv'
    <3>1. CASE Done(S)
      BY <1>0, <1>7, <3>1, DoneBase DEF FetchFilledPosition
    <3>2. ASSUME NEW p \in Positions \cup {None}, NEW l \in {"activate", "activateBlind"},
                 found' = [found EXCEPT ![S] = p],
                 pc' = [pc EXCEPT ![S] = l],
                 UNCHANGED <<at, seen, why, job, batch>>
          PROVE  ThreadType' /\ ThreadInv'
      BY <1>0, <1>7, <3>2 DEF FetchFilledPosition, ThreadInv, ThreadType, Labels, Actors
    <3>3. /\ Visible(at[S]) \subseteq Positions
          /\ seen[S].order \in Positions \cup {None}
      BY <1>0 DEF Visible, Row, Positions
    <3>. QED  BY <1>7, <3>1, <3>2, <3>3 DEF FetchFilledPosition, NoId
  <2>. QED  BY <1>7, <2>1 DEF FetchFilledPosition, Fault, Fails, ThreadType, table, broker, used
<1>8. CASE ActivateTrade
  <2>1. ThreadType' /\ ThreadInv'
    BY <1>0, <1>8, DoneBase DEF ActivateTrade
  <2>2. row' \in [Trades -> Row]
    <3>1. /\ at[S] \in Trades /\ row[at[S]] \in Row /\ "OPEN" \in Statuses
          /\ found[S] \in Positions \cup {None}
          /\ ((pc[S] = "activate") \/ seen[S].confirmed) \in BOOLEAN
      BY <1>0, <1>8 DEF ActivateTrade, Row, Statuses
    <3>. QED  BY <1>8, <3>1, RowUpdates DEF ActivateTrade
  <2>3. UNCHANGED <<age, broker, used>>
    BY <1>8 DEF ActivateTrade
  <2>. QED  BY <2>1, <2>2, <2>3 DEF ThreadType, broker, used
<1>9. CASE AbandonUnfilledOrder
  <2>1. ThreadType' /\ ThreadInv'
    BY <1>0, <1>9, CancelNextBase DEF AbandonUnfilledOrder, Reasons
  <2>2. order' \in [Orders -> {"none", "waiting", "executed", "refused"}]
    BY <1>9 DEF AbandonUnfilledOrder
  <2>. QED  BY <1>9, <2>1, <2>2 DEF AbandonUnfilledOrder, Fault, Fails, ThreadType, table, used
<1>. QED  BY <1>1, <1>2, <1>3, <1>4, <1>5, <1>6, <1>7, <1>8, <1>9 DEF EntryStep

LEMMA WatchStepBase ==
  ASSUME Base, SyncOpenTrade \/ ConfirmPosition \/ ExitRulesDecide
  PROVE  Base'
<1>. USE DEF Base, TypeOK
<1>0. Scheduler \in Actors
  BY DEF Actors
<1>1. CASE SyncOpenTrade
  <2>1. ThreadType' /\ ThreadInv'
    <3>1. ASSUME NEW l \in {"rules", "confirm", "close"}, Goto(Scheduler, l)
          PROVE  ThreadType' /\ ThreadInv'
      BY <1>0, <1>1, <3>1, GotoBase DEF SyncOpenTrade, Labels
    <3>. QED  BY <1>0, <1>1, <3>1, DoneBase DEF SyncOpenTrade
  <2>. QED  BY <1>1, <2>1 DEF SyncOpenTrade, Fault, Fails, ThreadType, table, broker, used
<1>2. CASE ConfirmPosition
  <2>1. ThreadType' /\ ThreadInv'
    BY <1>0, <1>2, GotoBase DEF ConfirmPosition, Labels
  <2>2. row' \in [Trades -> Row]
    BY <1>0, <1>2, RowUpdates DEF ConfirmPosition
  <2>3. UNCHANGED <<age, broker, used>>
    BY <1>2 DEF ConfirmPosition
  <2>. QED  BY <2>1, <2>2, <2>3 DEF ThreadType, broker, used
<1>3. CASE ExitRulesDecide
  <2>1. ThreadType' /\ ThreadInv'
    BY <1>0, <1>3, GotoBase, DoneBase DEF ExitRulesDecide, Labels
  <2>. QED  BY <1>3, <2>1 DEF ExitRulesDecide, ThreadType, table, broker, used
<1>. QED  BY <1>1, <1>2, <1>3

LEMMA CloseStepBase ==
  ASSUME Base, NEW a \in Actors, CloseStep(a)
  PROVE  Base'
<1>. USE DEF Base, TypeOK
<1>1. CASE CancelPendingTradeRecord(a)
  <2>1. ThreadType' /\ ThreadInv'
    BY <1>1, DoneBase DEF CancelPendingTradeRecord
  <2>2. row' \in [Trades -> Row]
    BY <1>1, RowUpdates DEF CancelPendingTradeRecord, ThreadInv, Statuses
  <2>3. UNCHANGED <<age, broker, used>>
    BY <1>1 DEF CancelPendingTradeRecord
  <2>. QED  BY <2>1, <2>2, <2>3 DEF ThreadType, broker, used
<1>2. CASE RequestMarketClose(a)
  <2>1. ThreadType' /\ ThreadInv'
    <3>1. ASSUME NEW l \in {"close", "exitSave"}, Goto(a, l)
          PROVE  ThreadType' /\ ThreadInv'
      BY <1>2, <3>1, GotoBase DEF RequestMarketClose, Labels
    <3>. QED  BY <1>2, <3>1, DoneBase DEF RequestMarketClose
  <2>2. closing' \subseteq Positions
    BY <1>2 DEF RequestMarketClose, ExitTarget, Row
  <2>. QED  BY <1>2, <2>1, <2>2 DEF RequestMarketClose, Fault, Fails, ThreadType, table, used
<1>3. CASE SaveExitOrder(a)
  <2>1. row' \in [Trades -> Row]
    <3>1. at[a] \in Trades /\ row[at[a]] \in Row /\ "CLOSED" \in Statuses
      BY <1>3 DEF SaveExitOrder, ThreadInv, Statuses
    <3>2. PICK b \in BOOLEAN : row' = [row EXCEPT ![at[a]].exit = b]
      BY <1>3 DEF SaveExitOrder
    <3>3. [row[at[a]] EXCEPT !.exit = b] \in Row
      BY <3>1, RowUpdates
    <3>. QED  BY <3>1, <3>2, <3>3
  <2>2. ThreadType' /\ ThreadInv'
    <3>1. CASE Done(a)
      BY <1>3, <3>1, DoneBase DEF SaveExitOrder
    <3>2. CASE /\ seen' = [seen EXCEPT ![a] = row'[at[a]]]
               /\ pc' = [pc EXCEPT ![a] = "exit"]
               /\ UNCHANGED <<at, found, why, job, batch>>
      <4>1. at[a] \in Trades
        BY <1>3 DEF SaveExitOrder, ThreadInv
      <4>. QED  BY <1>3, <2>1, <3>2, <4>1 DEF SaveExitOrder, ThreadType, ThreadInv, Labels, Actors
    <3>. QED  BY <1>3, <3>1, <3>2 DEF SaveExitOrder
  <2>3. /\ manual' \in Nat /\ failures' \in Nat /\ lost' \in Nat
        /\ UNCHANGED <<age, broker>>
    BY <1>3 DEF SaveExitOrder, Fault, Fails, used
  <2>. QED  BY <2>1, <2>2, <2>3 DEF ThreadType, broker
<1>4. CASE SyncExitOrder(a)
  <2>1. ThreadType' /\ ThreadInv'
    BY <1>4, GotoBase, DoneBase DEF SyncExitOrder, Labels
  <2>. QED  BY <1>4, <2>1 DEF SyncExitOrder, Fault, Fails, ThreadType, table, broker, used
<1>5. CASE MarkTradeClosed(a)
  <2>1. ThreadType' /\ ThreadInv'
    BY <1>5, DoneBase DEF MarkTradeClosed
  <2>2. row' \in [Trades -> Row]
    <3>1. at[a] \in Trades /\ row[at[a]] \in Row /\ "CLOSED" \in Statuses
      BY <1>5 DEF MarkTradeClosed, ThreadInv, Statuses
    <3>. QED  BY <1>5, <3>1, RowUpdates DEF MarkTradeClosed
  <2>3. UNCHANGED <<age, broker, used>>
    BY <1>5 DEF MarkTradeClosed
  <2>. QED  BY <2>1, <2>2, <2>3 DEF ThreadType, broker, used
<1>. QED  BY <1>1, <1>2, <1>3, <1>4, <1>5 DEF CloseStep

LEMMA StatementFailsBase ==
  ASSUME Base, NEW a \in Actors, StatementFails(a)
  PROVE  Base'
<1>1. pc[a] \notin {"idle", "next"} /\ Done(a)
  BY DEF StatementFails, Writing
<1>2. ThreadType' /\ ThreadInv'
  BY <1>1, DoneBase
<1>. QED
  BY <1>2 DEF StatementFails, Cut, Base, TypeOK, ThreadType, table, broker

LEMMA OutsideBase ==
  ASSUME Base,
         \/ \E a \in Operators, t \in Trades : ManualCloseOrCancel(a, t)
         \/ Account \/ (\E t \in Trades : TradeAges(t)) \/ Restart
  PROVE  Base'
<1>1. ASSUME NEW a \in Operators, NEW t \in Trades, ManualCloseOrCancel(a, t)
      PROVE  Base'
  <2>1. ManualEntrance(row[t]) \in {"request", "cancel"}
    BY DEF ManualEntrance
  <2>. QED
    BY <1>1, <2>1 DEF ManualCloseOrCancel, Base, TypeOK, ThreadInv, Actors, Labels, Reasons,
                      table, broker, used
<1>2. CASE Account
  BY <1>2 DEF Account, OrderFills, OrderRefused, PortfolioShows, CloseExecutes, ClosedOnEtoro,
              OpenedOnEtoro, Base, TypeOK, ThreadInv, Positions, table, thread, used
<1>3. ASSUME NEW t \in Trades, TradeAges(t)
      PROVE  Base'
  BY <1>3 DEF TradeAges, Base, TypeOK, ThreadInv, StaleAge, broker, thread, used
<1>4. CASE Restart
  BY <1>4, NoRowIsRow DEF Restart, Cut, Base, TypeOK, ThreadInv, Actors, Labels, table, broker
<1>. QED  BY <1>1, <1>2, <1>3, <1>4

LEMMA NextBase == Base /\ [Next]_vars => Base'
<1>. SUFFICES ASSUME Base, [Next]_vars PROVE Base'
  OBVIOUS
<1>1. CASE UNCHANGED vars
  BY <1>1 DEF vars, table, broker, thread, used, Base, TypeOK, ThreadInv
<1>2. CASE JobStep
  BY <1>2, NextTradeBase, EntryStepBase, WatchStepBase DEF JobStep
<1>3. CASE SyncBrokerState \/ ReviewStalePending \/ \E t \in Trades : OpenTradeFromSignal(t)
  <2>1. Trades # {}
    BY <1>3 DEF SyncBrokerState, ReviewStalePending, StartPass
  <2>. QED  BY <1>3, <2>1, JobStartBase
<1>. QED  BY <1>1, <1>2, <1>3, CloseStepBase, StatementFailsBase, OutsideBase DEF Next

\* Type correctness: every column of the table, every state of the account and
\* every thread stays in its range.
THEOREM TypeCorrect == Spec => []TypeOK
<1>1. Base => TypeOK
  BY DEF Base
<1>. QED  BY <1>1, InitBase, NextBase, PTL DEF Spec

-----------------------------------------------------------------------------
(* One active trade per symbol.  The invariant has to speak of the rows    *)
(* the job still holds: it may turn any of them back into an active trade, *)
(* whatever an operator made of the row since it was read.                 *)

Claims(t) == Active(row[t]) \/ Active(batch[t]) \/ at[Scheduler] = t

OneClaimPerSymbol ==
  \A t, u \in Trades : Claims(t) /\ Claims(u) /\ SymbolOf[t] = SymbolOf[u] => t = u

\* Every step but a new trade only gives claims up.
ClaimsKept == \A t \in Trades : Claims(t)' => Claims(t)

LEMMA DoneClaims ==
  ASSUME NEW a \in Actors, Base, Done(a),
         \A t \in Trades : Active(row'[t]) => Claims(t)
  PROVE  ClaimsKept
BY DEF Done, ClaimsKept, Claims, Base, TypeOK, Active, Actors

LEMMA GotoClaims ==
  ASSUME UNCHANGED <<at, batch>>, \A t \in Trades : Active(row'[t]) => Claims(t)
  PROVE  ClaimsKept
BY DEF ClaimsKept, Claims, Active

LEMMA JobClaims ==
  ASSUME Base, JobStep
  PROVE  ClaimsKept
<1>. USE DEF Base, TypeOK
<1>0. Scheduler \in Actors
  BY DEF Actors
<1>1. ASSUME NEW t \in Trades, NextTrade(t)
      PROVE  ClaimsKept
  BY <1>0, <1>1, NoRowIsRow DEF NextTrade, ClaimsKept, Claims, table
<1>2. ASSUME NEW t \in Trades, ReviewKeeps(t)
      PROVE  ClaimsKept
  BY <1>0, <1>2, NoRowIsRow DEF ReviewKeeps, ClaimsKept, Claims, table
<1>3. CASE SaveNewTrade
  <2>1. \A t \in Trades : Active(row'[t]) => Claims(t)
    BY <1>3 DEF SaveNewTrade, Claims
  <2>. QED  BY <1>0, <1>3, <2>1, DoneClaims DEF SaveNewTrade
<1>4. CASE ActivateTrade
  <2>1. \A t \in Trades : Active(row'[t]) => Claims(t)
    BY <1>4 DEF ActivateTrade, Claims
  <2>. QED  BY <1>0, <1>4, <2>1, DoneClaims DEF ActivateTrade
<1>5. CASE MarkOrderSubmitted
  <2>1. \A t \in Trades : row'[t].status = row[t].status
    BY <1>5 DEF MarkOrderSubmitted, Row
  <2>. QED  BY <1>0, <1>5, <2>1, DoneClaims DEF MarkOrderSubmitted, Claims, Active
<1>6. CASE ConfirmPosition
  <2>1. \A t \in Trades : row'[t].status = row[t].status
    BY <1>6 DEF ConfirmPosition, Row
  <2>. QED  BY <1>6, <2>1, GotoClaims DEF ConfirmPosition, Goto, Claims, Active
<1>7. CASE row' = row /\ (Done(Scheduler) \/ UNCHANGED <<at, batch>>)
  BY <1>0, <1>7, DoneClaims, GotoClaims DEF Claims
<1>8. CASE \/ EntryLookup \/ EntryWaits \/ (\E taken \in SUBSET Orders : OpenMarketPosition(taken))
           \/ ResolveSubmittedOrder \/ FetchFilledPosition \/ AbandonUnfilledOrder
           \/ SyncOpenTrade \/ ExitRulesDecide
  <2>1. CASE EntryLookup \/ EntryWaits
    BY <1>7, <2>1 DEF EntryLookup, EntryWaits, Goto, CancelNext, table
  <2>2. ASSUME NEW taken \in SUBSET Orders, OpenMarketPosition(taken)
        PROVE  ClaimsKept
    BY <1>7, <2>2 DEF OpenMarketPosition, Goto, CancelNext, table
  <2>3. CASE ResolveSubmittedOrder \/ FetchFilledPosition
    BY <1>7, <2>3 DEF ResolveSubmittedOrder, FetchFilledPosition, Goto, CancelNext, table
  <2>4. CASE AbandonUnfilledOrder \/ SyncOpenTrade \/ ExitRulesDecide
    BY <1>7, <2>4 DEF AbandonUnfilledOrder, SyncOpenTrade, ExitRulesDecide, Goto, CancelNext, table
  <2>. QED  BY <1>8, <2>1, <2>2, <2>3, <2>4
<1>. QED  BY <1>1, <1>2, <1>3, <1>4, <1>5, <1>6, <1>8 DEF JobStep, EntryStep

LEMMA CloseClaims ==
  ASSUME Base, NEW a \in Actors, CloseStep(a)
  PROVE  ClaimsKept
<1>. USE DEF Base, TypeOK
<1>1. CASE CancelPendingTradeRecord(a)
  <2>1. \A t \in Trades : Active(row'[t]) => Claims(t)
    BY <1>1 DEF CancelPendingTradeRecord, Claims, Active, Row
  <2>. QED  BY <1>1, <2>1, DoneClaims DEF CancelPendingTradeRecord
<1>2. CASE MarkTradeClosed(a)
  <2>1. \A t \in Trades : Active(row'[t]) => Claims(t)
    BY <1>2 DEF MarkTradeClosed, Claims, Active, Row
  <2>. QED  BY <1>2, <2>1, DoneClaims DEF MarkTradeClosed
<1>3. CASE SaveExitOrder(a)
  <2>1. PICK b \in BOOLEAN : row' = [row EXCEPT ![at[a]].exit = b]
    BY <1>3 DEF SaveExitOrder
  <2>2. \A t \in Trades : row'[t].status = row[t].status
    BY <2>1 DEF Row
  <2>. QED  BY <1>3, <2>2, DoneClaims, GotoClaims DEF SaveExitOrder, Claims, Active
<1>4. CASE RequestMarketClose(a) \/ SyncExitOrder(a)
  BY <1>4, DoneClaims, GotoClaims DEF RequestMarketClose, SyncExitOrder, Goto, Claims, table
<1>. QED  BY <1>1, <1>2, <1>3, <1>4 DEF CloseStep

LEMMA OutsideClaims ==
  ASSUME Base,
         \/ \E a \in Operators, t \in Trades : ManualCloseOrCancel(a, t)
         \/ Account \/ (\E t \in Trades : TradeAges(t)) \/ Restart
         \/ SyncBrokerState \/ ReviewStalePending \/ (\E a \in Actors : StatementFails(a))
         \/ UNCHANGED vars
  PROVE  ClaimsKept
<1>. USE DEF Base, TypeOK, ClaimsKept, Claims
<1>1. ASSUME NEW a \in Operators, NEW t \in Trades, ManualCloseOrCancel(a, t)
      PROVE  ClaimsKept
  BY <1>1 DEF ManualCloseOrCancel, table, Actors
<1>2. CASE Account \/ (\E t \in Trades : TradeAges(t)) \/ UNCHANGED vars
  BY <1>2 DEF Account, OrderFills, OrderRefused, PortfolioShows, CloseExecutes, ClosedOnEtoro,
              OpenedOnEtoro, TradeAges, vars, table, thread
<1>3. CASE Restart
  BY <1>3, NoRowIsRow DEF Restart, table, Actors
<1>4. CASE SyncBrokerState \/ ReviewStalePending
  BY <1>4, NoRowIsRow DEF SyncBrokerState, ReviewStalePending, StartPass, table
<1>5. ASSUME NEW a \in Actors, StatementFails(a)
      PROVE  ClaimsKept
  <2>1. \A t \in Trades : Active(row'[t]) => Claims(t)
    BY <1>5 DEF StatementFails, table
  <2>. QED  BY <1>5, <2>1, DoneClaims DEF StatementFails
<1>. QED  BY <1>1, <1>2, <1>3, <1>4, <1>5

LEMMA NewTradeClaims ==
  ASSUME Base, OneClaimPerSymbol, NEW t \in Trades, OpenTradeFromSignal(t)
  PROVE  OneClaimPerSymbol'
<1>. USE DEF Base, TypeOK
<1>1. /\ \A u \in Trades : SymbolOf[u] = SymbolOf[t] => ~Claims(u)
      /\ at[Scheduler] = None
  BY DEF OpenTradeFromSignal, HasActiveTrade, ThreadInv, Claims, Actors
<1>2. \A u \in Trades : Claims(u)' => Claims(u) \/ u = t
  BY DEF OpenTradeFromSignal, Claims, table, Actors
<1>. QED  BY <1>1, <1>2 DEF OneClaimPerSymbol

LEMMA NextClaims == Base /\ OneClaimPerSymbol /\ [Next]_vars => OneClaimPerSymbol'
<1>. SUFFICES ASSUME Base, OneClaimPerSymbol, [Next]_vars PROVE OneClaimPerSymbol'
  OBVIOUS
<1>1. CASE \E t \in Trades : OpenTradeFromSignal(t)
  BY <1>1, NewTradeClaims
<1>2. CASE ~ \E t \in Trades : OpenTradeFromSignal(t)
  <2>1. ClaimsKept
    BY <1>2, JobClaims, CloseClaims, OutsideClaims DEF Next
  <2>. QED  BY <2>1 DEF ClaimsKept, OneClaimPerSymbol
<1>. QED  BY <1>1, <1>2

LEMMA ClaimsInvariant == Spec => [](Base /\ OneClaimPerSymbol)
<1>1. Init => OneClaimPerSymbol
  BY NoRowIsRow DEF Init, OneClaimPerSymbol, Claims, Actors
<1>. QED  BY <1>1, InitBase, NextBase, NextClaims, PTL DEF Spec

\* At most one trade of a symbol is PENDING or OPEN, however the writes of the
\* jobs and of the operators interleave and wherever the process restarts.
THEOREM OneTradePerSymbol == Spec => []OneActivePerSymbol
<1>1. OneClaimPerSymbol => OneActivePerSymbol
  BY DEF OneClaimPerSymbol, OneActivePerSymbol, Claims
<1>. QED  BY <1>1, ClaimsInvariant, PTL

-----------------------------------------------------------------------------
(* The lifecycle of a row.  What a thread still holds of a row limits what *)
(* the row can have become: a row the job read as PENDING has not been     *)
(* opened, and a row some thread read as OPEN has.                         *)

EntryLabels == {"entry", "decide", "submitted", "await", "fetch",
                "activate", "activateBlind", "abandon"}
ExitLabels  == {"watch", "confirm", "rules", "request", "exitSave", "exit", "close"}

HeldPending(t) ==
  \/ batch[t].status = "PENDING"
  \/ at[Scheduler] = t /\ pc[Scheduler] \in EntryLabels \cup {"cancel"}

HeldOpen(t) ==
  \/ batch[t].status = "OPEN"
  \/ \E a \in Actors : at[a] = t /\ pc[a] \in ExitLabels

RowInv ==
  \A t \in Trades :
    /\ row[t].status \in {"OPEN", "CLOSED"} => row[t].opened
    /\ row[t].status \in {"NONE", "PENDING"} => ~row[t].opened

HeldInv ==
  \A t \in Trades :
    /\ HeldPending(t) => ~row[t].opened /\ row[t].status # "NONE"
    /\ HeldOpen(t) => row[t].opened
    /\ Operators = {} => /\ HeldPending(t) => row[t].status = "PENDING"
                         /\ HeldOpen(t) => row[t].status = "OPEN"

PassInv ==
  /\ pc[Scheduler] = "save" => row[at[Scheduler]].status = "NONE"
  /\ \A a \in Operators : pc[a] = "cancel" => row[at[a]].status # "NONE"
  /\ job = "review" => \A t \in Trades : batch[t].status # "OPEN"
  /\ \A t \in Trades : at[Scheduler] = t => ~Active(batch[t])

Life == RowInv /\ HeldInv /\ PassInv

\* A step that writes nothing the invariant looks at, and at most lets go of
\* what threads hold.
HoldsLess ==
  /\ \A t \in Trades : row'[t].status = row[t].status /\ row'[t].opened = row[t].opened
  /\ \A t \in Trades : (HeldPending(t)' => HeldPending(t)) /\ (HeldOpen(t)' => HeldOpen(t))
  /\ PassInv'

LEMMA LessHeld ==
  ASSUME Life, HoldsLess
  PROVE  Life'
BY DEF Life, HoldsLess, RowInv, HeldInv

LEMMA DoneHolds ==
  ASSUME Base, Life, NEW a \in Actors, Done(a)
  PROVE  /\ \A t \in Trades : HeldPending(t)' => HeldPending(t) /\ ~(a = Scheduler /\ at[a] = t)
         /\ \A t \in Trades : HeldOpen(t)' => HeldOpen(t) /\ (Operators = {} => at[a] # t)
         /\ job' = "review" => \A t \in Trades : batch'[t].status # "OPEN"
         /\ \A t \in Trades : at'[Scheduler] = t => ~Active(batch'[t])
         /\ pc'[Scheduler] = "save" => pc[Scheduler] = "save" /\ at'[Scheduler] = at[Scheduler]
         /\ \A b \in Operators : pc'[b] = "cancel" => pc[b] = "cancel" /\ at'[b] = at[b]
BY DEF Base, TypeOK, Life, PassInv, Done, HeldPending, HeldOpen, EntryLabels, ExitLabels,
       Actors, Active, Labels

LEMMA DoneLife ==
  ASSUME Base, Life, NEW a \in Actors, Done(a),
         \A t \in Trades : row'[t].status = row[t].status /\ row'[t].opened = row[t].opened
  PROVE  Life'
BY DoneHolds, LessHeld DEF Life, PassInv, HoldsLess, Base, TypeOK, ThreadInv, Actors

\* The job moves on inside the half it is in, or from the entry half to a cancel.
LEMMA GotoLife ==
  ASSUME Base, Life, NEW a \in Actors, NEW l \in Labels,
         pc' = [pc EXCEPT ![a] = l], UNCHANGED <<at, job, batch>>,
         \/ a = Scheduler /\ pc[a] \in EntryLabels /\ l \in EntryLabels \cup {"cancel"}
         \/ pc[a] \in ExitLabels /\ l \in ExitLabels,
         \A t \in Trades : row'[t].status = row[t].status /\ row'[t].opened = row[t].opened
  PROVE  Life'
<1>1. \A t \in Trades : HeldPending(t)' => HeldPending(t)
  BY DEF Base, TypeOK, HeldPending, EntryLabels, ExitLabels, Actors
<1>2. \A t \in Trades : HeldOpen(t)' => HeldOpen(t)
  BY DEF Base, TypeOK, HeldOpen, EntryLabels, ExitLabels, Actors
<1>3. PassInv'
  <2>1. /\ pc'[Scheduler] = "save" => pc[Scheduler] = "save"
        /\ \A b \in Operators : pc'[b] = "cancel" => pc[b] = "cancel"
    BY DEF Base, TypeOK, EntryLabels, ExitLabels, Actors
  <2>2. /\ pc[Scheduler] = "save" => at[Scheduler] \in Trades
        /\ \A b \in Operators : pc[b] = "cancel" => at[b] \in Trades
    BY DEF Base, TypeOK, ThreadInv, Actors
  <2>. QED  BY <2>1, <2>2 DEF Life, PassInv, Active
<1>. QED  BY <1>1, <1>2, <1>3, LessHeld DEF HoldsLess

LEMMA JobStartLife ==
  ASSUME Base, Life, NEW t \in Trades,
         SyncBrokerState \/ ReviewStalePending \/ OpenTradeFromSignal(t)
  PROVE  Life'
<1>. USE DEF Base, TypeOK, ThreadInv, Actors
<1>1. ASSUME NEW k \in {"sync", "review"}, NEW S \in SUBSET Trades, StartPass(k, S),
             \A u \in S : Active(row[u]),
             k = "review" => \A u \in S : row[u].status = "PENDING"
      PROVE  Life'
  <2>1. row' = row /\ at' = at /\ pc'[Scheduler] = "next" /\ at[Scheduler] = None
    BY <1>1 DEF StartPass, table
  <2>2. \A b \in Operators : pc'[b] = pc[b]
    BY <1>1 DEF StartPass
  <2>3. \A u \in Trades : (batch'[u] = row[u] /\ u \in S) \/ batch'[u] = NoRow
    BY <1>1 DEF StartPass
  <2>4. \A u \in Trades : HeldPending(u)' => row[u].status = "PENDING"
    BY <2>1, <2>3 DEF HeldPending, NoRow
  <2>5. \A u \in Trades : HeldOpen(u)' => row[u].status = "OPEN" \/ HeldOpen(u)
    BY <2>1, <2>2, <2>3 DEF HeldOpen, NoRow
  <2>6. PassInv'
    BY <1>1, <2>1, <2>2, <2>3 DEF Life, PassInv, StartPass, NoRow
  <2>. QED  BY <2>1, <2>4, <2>5, <2>6 DEF Life, RowInv, HeldInv
<1>2. CASE SyncBrokerState
  BY <1>2, <1>1 DEF SyncBrokerState
<1>3. CASE ReviewStalePending
  BY <1>3, <1>1 DEF ReviewStalePending, Active
<1>4. CASE OpenTradeFromSignal(t)
  <2>1. row' = row /\ batch' = batch /\ at[Scheduler] = None /\ pc'[Scheduler] = "save"
    BY <1>4 DEF OpenTradeFromSignal, table
  <2>2. \A b \in Operators : pc'[b] = pc[b] /\ at'[b] = at[b]
    BY <1>4 DEF OpenTradeFromSignal
  <2>3. \A u \in Trades : (HeldPending(u)' => HeldPending(u)) /\ (HeldOpen(u)' => HeldOpen(u))
    BY <2>1, <2>2 DEF HeldPending, HeldOpen, EntryLabels, ExitLabels
  <2>4. PassInv'
    BY <1>4, <2>1, <2>2 DEF Life, PassInv, OpenTradeFromSignal
  <2>. QED  BY <2>1, <2>3, <2>4, LessHeld DEF HoldsLess
<1>. QED  BY <1>2, <1>3, <1>4

LEMMA NextTradeLife ==
  ASSUME Base, Life, NEW t \in Trades, NextTrade(t) \/ ReviewKeeps(t)
  PROVE  Life'
<1>. USE DEF Base, TypeOK, ThreadInv, Actors
<1>1. CASE NextTrade(t)
  <2>1. /\ row' = row /\ job' = job /\ at'[Scheduler] = t
        /\ \A b \in Operators : pc'[b] = pc[b] /\ at'[b] = at[b]
        /\ batch'[t].status = "NONE"
        /\ \A u \in Trades \ {t} : batch'[u] = batch[u]
    BY <1>1 DEF NextTrade, table, NoRow
  <2>2. \/ batch[t].status = "PENDING" /\ pc'[Scheduler] \in {"entry", "await", "cancel"}
        \/ batch[t].status = "OPEN" /\ pc'[Scheduler] \in {"exit", "watch"}
    BY <1>1 DEF NextTrade, Entrance, Active, Life, PassInv
  <2>3. \A u \in Trades : HeldPending(u)' => HeldPending(u)
    BY <2>1, <2>2 DEF HeldPending, EntryLabels
  <2>4. \A u \in Trades : HeldOpen(u)' => HeldOpen(u)
    BY <2>1, <2>2 DEF HeldOpen, ExitLabels
  <2>5. PassInv'
    BY <2>1, <2>2 DEF Life, PassInv, Active
  <2>. QED  BY <2>1, <2>3, <2>4, <2>5, LessHeld DEF HoldsLess
<1>2. CASE ReviewKeeps(t)
  <2>1. /\ row' = row /\ at' = at /\ job' \in {"review", "none"} /\ job = "review"
        /\ pc'[Scheduler] \in {"next", "idle"}
        /\ \A b \in Operators : pc'[b] = pc[b]
        /\ \A u \in Trades : batch'[u] = batch[u] \/ batch'[u].status = "NONE"
    BY <1>2 DEF ReviewKeeps, table, NoRow
  <2>2. \A u \in Trades : (HeldPending(u)' => HeldPending(u)) /\ (HeldOpen(u)' => HeldOpen(u))
    BY <2>1 DEF HeldPending, HeldOpen, EntryLabels, ExitLabels
  <2>3. PassInv'
    BY <2>1 DEF Life, PassInv, Active
  <2>. QED  BY <2>1, <2>2, <2>3, LessHeld DEF HoldsLess
<1>. QED  BY <1>1, <1>2

LEMMA SaveNewTradeLife ==
  ASSUME Base, Life, SaveNewTrade
  PROVE  Life'
<1>. DEFINE t == at[Scheduler]
<1>. USE DEF Base, TypeOK
<1>1. /\ t \in Trades /\ Scheduler \in Actors /\ Done(Scheduler)
      /\ row[t].status = "NONE"
      /\ row'[t].status = "PENDING" /\ ~row'[t].opened
      /\ \A u \in Trades \ {t} : row'[u] = row[u]
  BY DEF SaveNewTrade, Life, PassInv, ThreadInv, Actors, NoRow
<1>2. ~HeldPending(t) /\ ~HeldOpen(t)
  BY <1>1 DEF Life, HeldInv, RowInv
<1>3. PassInv'
  <2>1. pc'[Scheduler] # "save"
    BY <1>1 DEF Done
  <2>2. \A b \in Operators : pc'[b] = "cancel" => pc[b] = "cancel" /\ at'[b] = at[b]
    BY <1>1, DoneHolds
  <2>3. \A b \in Operators : pc[b] = "cancel" => at[b] \in Trades /\ row[at[b]].status # "NONE"
    BY DEF Life, PassInv, ThreadInv, Actors
  <2>. QED  BY <1>1, <2>1, <2>2, <2>3, DoneHolds DEF PassInv
<1>4. \A u \in Trades : (HeldPending(u)' => HeldPending(u)) /\ (HeldOpen(u)' => HeldOpen(u))
  BY <1>1, DoneHolds
<1>5. RowInv'
  BY <1>1 DEF Life, RowInv
<1>6. HeldInv'
  BY <1>1, <1>2, <1>4 DEF Life, HeldInv
<1>. QED  BY <1>3, <1>5, <1>6 DEF Life

\* The steps of the entry half that write no status.
LEMMA EntryStepLife ==
  ASSUME Base, Life,
         \/ EntryLookup \/ EntryWaits \/ (\E taken \in SUBSET Orders : OpenMarketPosition(taken))
         \/ MarkOrderSubmitted \/ ResolveSubmittedOrder \/ FetchFilledPosition
         \/ AbandonUnfilledOrder
  PROVE  Life'
<1>. DEFINE S == Scheduler
            Keeps == \A t \in Trades : row'[t].status = row[t].status /\ row'[t].opened = row[t].opened
            Moves == \E l \in EntryLabels \cup {"cancel"} :
                       pc' = [pc EXCEPT ![S] = l] /\ UNCHANGED <<at, job, batch>>
<1>1. S \in Actors /\ pc[S] \in EntryLabels
  BY DEF Actors, EntryLabels, EntryLookup, EntryWaits, OpenMarketPosition, MarkOrderSubmitted,
         ResolveSubmittedOrder, FetchFilledPosition, AbandonUnfilledOrder
<1>2. Keeps
  <2>1. CASE MarkOrderSubmitted
    <3>1. at[S] \in Trades
      BY <1>1, <2>1 DEF Base, TypeOK, ThreadInv, MarkOrderSubmitted
    <3>. QED  BY <2>1, <3>1 DEF MarkOrderSubmitted, Base, TypeOK, Row
  <2>2. CASE ~MarkOrderSubmitted
    BY <2>2 DEF table, EntryLookup, EntryWaits, OpenMarketPosition,
                ResolveSubmittedOrder, FetchFilledPosition, AbandonUnfilledOrder
  <2>. QED  BY <2>1, <2>2
<1>3. Moves \/ Done(S)
  <2>1. CASE EntryLookup
    BY <2>1 DEF EntryLookup, Goto, EntryLabels
  <2>2. CASE EntryWaits
    BY <2>2 DEF EntryWaits, CancelNext
  <2>3. CASE \E taken \in SUBSET Orders : OpenMarketPosition(taken)
    BY <2>3 DEF OpenMarketPosition, CancelNext, EntryLabels
  <2>4. CASE MarkOrderSubmitted
    BY <2>4 DEF MarkOrderSubmitted
  <2>5. CASE ResolveSubmittedOrder
    BY <2>5 DEF ResolveSubmittedOrder, Goto, CancelNext, EntryLabels
  <2>6. CASE FetchFilledPosition
    BY <2>6 DEF FetchFilledPosition, EntryLabels
  <2>7. CASE AbandonUnfilledOrder
    BY <2>7 DEF AbandonUnfilledOrder, CancelNext
  <2>. QED  BY <2>1, <2>2, <2>3, <2>4, <2>5, <2>6, <2>7
<1>4. CASE Moves
  <2>1. EntryLabels \cup {"cancel"} \subseteq Labels
    BY DEF EntryLabels, Labels
  <2>. QED  BY <1>1, <1>2, <1>4, <2>1, GotoLife
<1>5. CASE Done(S)
  BY <1>1, <1>2, <1>5, DoneLife
<1>. QED  BY <1>3, <1>4, <1>5

\* The steps of the exit half that write no status, by the job or an operator.
LEMMA ExitStepLife ==
  ASSUME Base, Life, NEW a \in Actors,
         \/ a = Scheduler /\ (SyncOpenTrade \/ ConfirmPosition \/ ExitRulesDecide)
         \/ RequestMarketClose(a) \/ SaveExitOrder(a) \/ SyncExitOrder(a)
  PROVE  Life'
<1>. DEFINE Keeps == \A t \in Trades : row'[t].status = row[t].status /\ row'[t].opened = row[t].opened
            Moves == \E l \in ExitLabels :
                       pc' = [pc EXCEPT ![a] = l] /\ UNCHANGED <<at, job, batch>>
<1>1. pc[a] \in ExitLabels
  BY DEF ExitLabels, SyncOpenTrade, ConfirmPosition, ExitRulesDecide,
         RequestMarketClose, SaveExitOrder, SyncExitOrder
<1>2. Keeps
  <2>1. CASE ConfirmPosition \/ SaveExitOrder(a)
    <3>1. PICK b \in Actors, c \in {"confirmed", "exit"}, v \in BOOLEAN :
            row' = [row EXCEPT ![at[b]] = [@ EXCEPT ![c] = v]]
      BY <2>1 DEF ConfirmPosition, SaveExitOrder, Actors
    <3>. QED  BY <3>1 DEF Base, TypeOK, Row
  <2>2. CASE ~(ConfirmPosition \/ SaveExitOrder(a))
    BY <2>2 DEF table, SyncOpenTrade, ExitRulesDecide, RequestMarketClose, SyncExitOrder
  <2>. QED  BY <2>1, <2>2
<1>3. Moves \/ Done(a)
  BY DEF SyncOpenTrade, ConfirmPosition, ExitRulesDecide, RequestMarketClose, SaveExitOrder,
         SyncExitOrder, Goto, ExitLabels
<1>4. CASE Moves
  <2>1. ExitLabels \subseteq Labels
    BY DEF ExitLabels, Labels
  <2>. QED  BY <1>1, <1>2, <1>4, <2>1, GotoLife
<1>5. CASE Done(a)
  BY <1>2, <1>5, DoneLife
<1>. QED  BY <1>3, <1>4, <1>5

\* What a step that ends a turn leaves of PassInv.
LEMMA DonePass ==
  ASSUME Base, Life, NEW a \in Actors, Done(a), pc[a] # "save",
         \A u \in Trades : row'[u].status = row[u].status \/ row'[u].status # "NONE",
         \A u \in Trades : u # at[a] => row'[u] = row[u],
         pc[Scheduler] = "save" => at[Scheduler] # at[a] \/ a = Scheduler
  PROVE  PassInv'
<1>1. pc'[Scheduler] = "save" => pc[Scheduler] = "save" /\ at'[Scheduler] = at[Scheduler]
                                  /\ a # Scheduler
  BY DEF Done, Base, TypeOK, Actors
<1>2. pc[Scheduler] = "save" => at[Scheduler] \in Trades /\ row[at[Scheduler]].status = "NONE"
  BY DEF Life, PassInv, Base, TypeOK, ThreadInv, Actors
<1>3. \A b \in Operators : pc'[b] = "cancel" =>
        at'[b] \in Trades /\ row[at'[b]].status # "NONE"
  BY DoneHolds DEF Life, PassInv, Base, TypeOK, ThreadInv, Actors
<1>4. pc'[Scheduler] = "save" => row'[at'[Scheduler]].status = "NONE"
  BY <1>1, <1>2
<1>5. \A b \in Operators : pc'[b] = "cancel" => row'[at'[b]].status # "NONE"
  BY <1>3
<1>. QED  BY <1>4, <1>5, DoneHolds DEF PassInv

\* Where each of the three status writes of a turn finds its row.
LEMMA WriterFinds ==
  ASSUME Base, Life, NEW a \in Actors,
         pc[a] \in {"activate", "activateBlind", "cancel", "close"},
         a # Scheduler => pc[a] \in {"cancel", "close"}
  PROVE  /\ at[a] \in Trades /\ row[at[a]].status # "NONE"
         /\ pc[a] \in {"activate", "activateBlind"} => HeldPending(at[a]) /\ ~row[at[a]].opened
         /\ pc[a] = "close" => HeldOpen(at[a]) /\ row[at[a]].opened
         /\ a = Scheduler /\ pc[a] = "cancel" => HeldPending(at[a])
         /\ pc[Scheduler] = "save" => at[Scheduler] # at[a]
<1>1. at[a] \in Trades
  BY DEF Base, TypeOK, ThreadInv
<1>2. pc[a] \in {"activate", "activateBlind"} => HeldPending(at[a]) /\ ~row[at[a]].opened
  BY <1>1 DEF HeldPending, EntryLabels, Life, HeldInv
<1>3. pc[a] = "close" => HeldOpen(at[a]) /\ row[at[a]].opened
  BY <1>1 DEF HeldOpen, ExitLabels, Life, HeldInv
<1>4. a = Scheduler /\ pc[a] = "cancel" => HeldPending(at[a])
  BY DEF HeldPending
<1>5. row[at[a]].status # "NONE"
  BY <1>1, <1>2, <1>3, <1>4 DEF Life, HeldInv, RowInv, PassInv, Actors
<1>. QED  BY <1>1, <1>2, <1>3, <1>4, <1>5 DEF Life, PassInv

LEMMA ActivateLife ==
  ASSUME Base, Life, ActivateTrade
  PROVE  Life'
<1>1. /\ Scheduler \in Actors /\ Done(Scheduler)
      /\ pc[Scheduler] \in {"activate", "activateBlind"}
  BY DEF ActivateTrade, Actors
<1>2. PICK t \in Trades : t = at[Scheduler] /\ HeldPending(t) /\ ~row[t].opened
                           /\ row[t].status # "NONE"
  BY <1>1, WriterFinds
<1>3. /\ row'[t].status = "OPEN" /\ row'[t].opened
      /\ \A u \in Trades \ {t} : row'[u] = row[u]
  BY <1>1, <1>2 DEF ActivateTrade, Base, TypeOK, Row
<1>4. RowInv'
  BY <1>3 DEF Life, RowInv
<1>5. ~HeldPending(t)' /\ ~HeldOpen(t)'
  BY <1>1, <1>2, DoneHolds DEF Life, HeldInv
<1>6. HeldInv'
  BY <1>1, <1>3, <1>5, DoneHolds DEF Life, HeldInv
<1>7. PassInv'
  BY <1>1, <1>2, <1>3, DonePass
<1>. QED  BY <1>4, <1>6, <1>7 DEF Life

LEMMA CancelLife ==
  ASSUME Base, Life, NEW a \in Actors, CancelPendingTradeRecord(a)
  PROVE  Life'
<1>1. Done(a) /\ pc[a] = "cancel"
  BY DEF CancelPendingTradeRecord
<1>2. PICK t \in Trades :
        t = at[a] /\ (a = Scheduler => HeldPending(t)) /\ (pc[Scheduler] = "save" => at[Scheduler] # t)
  BY <1>1, WriterFinds
<1>3. /\ row'[t].status = "CANCELLED" /\ row'[t].opened = row[t].opened
      /\ \A u \in Trades \ {t} : row'[u] = row[u]
  BY <1>2 DEF CancelPendingTradeRecord, Base, TypeOK, Row
<1>4. RowInv'
  BY <1>3 DEF Life, RowInv
<1>5. Operators = {} => ~HeldPending(t)' /\ ~HeldOpen(t)'
  BY <1>1, <1>2, DoneHolds DEF Actors
<1>6. HeldInv'
  <2>1. \A u \in Trades : HeldPending(u)' => ~row'[u].opened /\ row'[u].status # "NONE"
    BY <1>1, <1>3, DoneHolds DEF Life, HeldInv
  <2>2. \A u \in Trades : HeldOpen(u)' => row'[u].opened
    BY <1>1, <1>3, DoneHolds DEF Life, HeldInv
  <2>3. Operators = {} => \A u \in Trades \ {t} :
          (HeldPending(u)' => row'[u].status = "PENDING") /\ (HeldOpen(u)' => row'[u].status = "OPEN")
    BY <1>1, <1>3, DoneHolds DEF Life, HeldInv
  <2>. QED  BY <1>5, <2>1, <2>2, <2>3 DEF HeldInv
<1>7. PassInv'
  BY <1>1, <1>2, <1>3, DonePass
<1>. QED  BY <1>4, <1>6, <1>7 DEF Life

LEMMA CloseLife ==
  ASSUME Base, Life, NEW a \in Actors, MarkTradeClosed(a)
  PROVE  Life'
<1>1. Done(a) /\ pc[a] = "close"
  BY DEF MarkTradeClosed
<1>2. PICK t \in Trades :
        t = at[a] /\ HeldOpen(t) /\ row[t].opened /\ (pc[Scheduler] = "save" => at[Scheduler] # t)
  BY <1>1, WriterFinds
<1>3. /\ row'[t].status = "CLOSED" /\ row'[t].opened
      /\ \A u \in Trades \ {t} : row'[u] = row[u]
  BY <1>2 DEF MarkTradeClosed, Base, TypeOK, Row
<1>4. RowInv'
  BY <1>3 DEF Life, RowInv
<1>5. ~HeldPending(t)' /\ (Operators = {} => ~HeldOpen(t)')
  BY <1>1, <1>2, DoneHolds DEF Life, HeldInv, Actors
<1>6. HeldInv'
  <2>1. \A u \in Trades : HeldPending(u)' => ~row'[u].opened /\ row'[u].status # "NONE"
    BY <1>1, <1>3, <1>5, DoneHolds DEF Life, HeldInv
  <2>2. \A u \in Trades : HeldOpen(u)' => row'[u].opened
    BY <1>1, <1>3, DoneHolds DEF Life, HeldInv
  <2>3. Operators = {} => \A u \in Trades \ {t} :
          (HeldPending(u)' => row'[u].status = "PENDING") /\ (HeldOpen(u)' => row'[u].status = "OPEN")
    BY <1>1, <1>3, DoneHolds DEF Life, HeldInv
  <2>. QED  BY <1>5, <2>1, <2>2, <2>3 DEF HeldInv
<1>7. PassInv'
  BY <1>1, <1>2, <1>3, DonePass
<1>. QED  BY <1>4, <1>6, <1>7 DEF Life

LEMMA OutsideLife ==
  ASSUME Base, Life,
         \/ \E a \in Operators, t \in Trades : ManualCloseOrCancel(a, t)
         \/ Account \/ (\E t \in Trades : TradeAges(t)) \/ Restart
         \/ UNCHANGED vars
  PROVE  Life'
<1>1. ASSUME NEW a \in Operators, NEW t \in Trades, ManualCloseOrCancel(a, t)
      PROVE  Life'
  <2>1. /\ row' = row /\ batch' = batch /\ job' = job /\ a # Scheduler /\ a \in Actors
        /\ pc'[Scheduler] = pc[Scheduler] /\ at'[Scheduler] = at[Scheduler]
        /\ \A b \in Actors \ {a} : pc'[b] = pc[b] /\ at'[b] = at[b]
        /\ at'[a] = t
    BY <1>1 DEF ManualCloseOrCancel, table, Actors, Base, TypeOK
  <2>2. \/ row[t].status = "PENDING" /\ pc'[a] = "cancel"
        \/ row[t].status = "OPEN" /\ pc'[a] = "request"
    BY <1>1, <2>1 DEF ManualCloseOrCancel, ManualEntrance, Active, Base, TypeOK
  <2>3. \A u \in Trades : HeldPending(u)' => HeldPending(u)
    BY <2>1 DEF HeldPending
  <2>4. \A u \in Trades : HeldOpen(u)' => HeldOpen(u) \/ row[u].status = "OPEN"
    BY <2>1, <2>2 DEF HeldOpen, ExitLabels
  <2>5. PassInv'
    BY <2>1, <2>2 DEF Life, PassInv, Actors
  <2>. QED  BY <1>1, <2>1, <2>3, <2>4, <2>5 DEF Life, RowInv, HeldInv
<1>2. CASE Account \/ (\E t \in Trades : TradeAges(t)) \/ UNCHANGED vars
  <2>1. UNCHANGED <<row, batch, job, pc, at>>
    BY <1>2 DEF Account, OrderFills, OrderRefused, PortfolioShows, CloseExecutes, ClosedOnEtoro,
                OpenedOnEtoro, TradeAges, vars, table, thread
  <2>. QED  BY <2>1 DEF Life, RowInv, HeldInv, PassInv, HeldPending, HeldOpen
<1>3. CASE Restart
  <2>1. /\ row' = row /\ job' = "none" /\ \A b \in Actors : pc'[b] = "idle" /\ at'[b] = None
        /\ \A u \in Trades : batch'[u].status = "NONE"
    BY <1>3 DEF Restart, table, NoRow
  <2>2. \A u \in Trades : ~HeldPending(u)' /\ ~HeldOpen(u)'
    BY <2>1 DEF HeldPending, HeldOpen, Actors
  <2>3. PassInv'
    BY <2>1 DEF PassInv, Actors
  <2>. QED  BY <2>1, <2>2, <2>3 DEF Life, RowInv, HeldInv
<1>. QED  BY <1>1, <1>2, <1>3

LEMMA NextLife == Base /\ Life /\ [Next]_vars => Life'
<1>. SUFFICES ASSUME Base, Life, [Next]_vars PROVE Life'
  OBVIOUS
<1>1. CASE SyncBrokerState \/ ReviewStalePending \/ (\E t \in Trades : OpenTradeFromSignal(t))
  <2>1. PICK t \in Trades : SyncBrokerState \/ ReviewStalePending \/ OpenTradeFromSignal(t)
    BY <1>1 DEF SyncBrokerState, ReviewStalePending, StartPass
  <2>. QED  BY <2>1, JobStartLife
<1>2. CASE JobStep
  <2>1. Scheduler \in Actors
    BY DEF Actors
  <2>. QED  BY <1>2, <2>1, NextTradeLife, SaveNewTradeLife, EntryStepLife, ExitStepLife,
               ActivateLife DEF JobStep, EntryStep
<1>3. ASSUME NEW a \in Actors, CloseStep(a) PROVE Life'
  BY <1>3, ExitStepLife, CancelLife, CloseLife DEF CloseStep
<1>4. ASSUME NEW a \in Actors, StatementFails(a) PROVE Life'
  BY <1>4, DoneLife DEF StatementFails, table
<1>5. CASE ~(\/ SyncBrokerState \/ ReviewStalePending \/ (\E t \in Trades : OpenTradeFromSignal(t))
            \/ JobStep \/ (\E a \in Actors : CloseStep(a) \/ StatementFails(a)))
  BY <1>5, OutsideLife DEF Next
<1>. QED  BY <1>1, <1>2, <1>3, <1>4, <1>5

LEMMA LifeInvariant == Spec => [](Base /\ Life)
<1>1. Init => Life
  BY DEF Init, Life, RowInv, HeldInv, PassInv, HeldPending, HeldOpen, NoRow, Active,
         EntryLabels, ExitLabels, Actors
<1>. QED  BY <1>1, InitBase, NextBase, NextLife, PTL DEF Spec

\* Only a trade that was opened is ever CLOSED (backend/README.md:209), although the
\* monitor and the manual close write CLOSED from rows read earlier.
THEOREM ClosedTradesWereOpened == Spec => []ClosedWasOpened
<1>1. Life => ClosedWasOpened
  BY DEF Life, RowInv, ClosedWasOpened
<1>. QED  BY <1>1, LifeInvariant, PTL

-----------------------------------------------------------------------------
(* The table follows TradeBook: every write of a status is a move of it.   *)

\* Only the status of t changes, to s; a trade that becomes active is alone.
Moves(t, s) ==
  /\ row'[t].status = s
  /\ \A u \in Trades \ {t} : row'[u].status = row[u].status
  /\ s \in {"PENDING", "OPEN"} =>
       \A u \in Trades \ {t} : Active(row[u]) => SymbolOf[u] # SymbolOf[t]

\* The moves of TradeBook, in the terms of the table.
Allowed(from, to) ==
  \/ <<from, to>> \in {<<"NONE", "PENDING">>, <<"PENDING", "OPEN">>,
                       <<"PENDING", "CANCELLED">>, <<"OPEN", "CLOSED">>}
  \/ /\ Operators # {}
     /\ <<from, to>> \in {<<"CANCELLED", "OPEN">>, <<"CANCELLED", "CLOSED">>,
                          <<"OPEN", "CANCELLED">>, <<"CLOSED", "CANCELLED">>}

StatusKept == \A t \in Trades : row'[t].status = row[t].status

StatusMoves == \E t \in Trades, s \in Statuses : Moves(t, s) /\ Allowed(row[t].status, s)

LEMMA WritesMove ==
  ASSUME Base, Life, OneActivePerSymbol', NEW a \in Actors,
         \/ a = Scheduler /\ (SaveNewTrade \/ ActivateTrade)
         \/ CancelPendingTradeRecord(a) \/ MarkTradeClosed(a)
  PROVE  StatusKept \/ StatusMoves
<1>. DEFINE Writes(t, s) == /\ row'[t].status = s
                            /\ \A u \in Trades \ {t} : row'[u] = row[u]
<1>0. /\ at[a] \in Trades
      /\ \A t \in Trades : row[t].status \in Statuses
  BY DEF Base, TypeOK, Row, ThreadInv, SaveNewTrade, ActivateTrade, CancelPendingTradeRecord,
         MarkTradeClosed
<1>1. PICK t \in Trades : t = at[a]
  BY <1>0
<1>2. ASSUME NEW s \in Statuses, Writes(t, s), Allowed(row[t].status, s) \/ row[t].status = s
      PROVE  StatusKept \/ StatusMoves
  <2>1. s \in {"PENDING", "OPEN"} =>
          \A u \in Trades \ {t} : Active(row[u]) => SymbolOf[u] # SymbolOf[t]
    BY <1>2 DEF OneActivePerSymbol, Active
  <2>. QED  BY <1>2, <2>1 DEF StatusKept, StatusMoves, Moves
<1>3. CASE a = Scheduler /\ SaveNewTrade
  <2>1. Writes(t, "PENDING") /\ row[t].status = "NONE"
    BY <1>1, <1>3 DEF SaveNewTrade, Base, TypeOK, Life, PassInv, NoRow
  <2>. QED  BY <1>2, <2>1 DEF Allowed, Statuses
<1>4. CASE a = Scheduler /\ ActivateTrade
  <2>1. Writes(t, "OPEN")
    BY <1>1, <1>4 DEF ActivateTrade, Base, TypeOK, Row
  <2>2. HeldPending(t) /\ ~row[t].opened /\ row[t].status # "NONE"
    BY <1>1, <1>4, WriterFinds DEF ActivateTrade
  <2>3. row[t].status \in {"PENDING", "CANCELLED"}
    BY <1>0, <2>2 DEF Life, RowInv, Statuses
  <2>4. row[t].status = "PENDING" \/ Operators # {}
    BY <2>2 DEF Life, HeldInv
  <2>. QED  BY <1>2, <2>1, <2>3, <2>4 DEF Allowed, Statuses
<1>5. CASE CancelPendingTradeRecord(a)
  <2>1. Writes(t, "CANCELLED")
    BY <1>1, <1>5 DEF CancelPendingTradeRecord, Base, TypeOK, Row
  <2>2. (a = Scheduler => HeldPending(t)) /\ row[t].status # "NONE"
    BY <1>1, <1>5, WriterFinds DEF CancelPendingTradeRecord
  <2>3. row[t].status = "PENDING" \/ Operators # {}
    BY <2>2 DEF Life, HeldInv, Actors
  <2>. QED  BY <1>0, <1>2, <2>1, <2>2, <2>3 DEF Allowed, Statuses
<1>6. CASE MarkTradeClosed(a)
  <2>1. Writes(t, "CLOSED")
    BY <1>1, <1>6 DEF MarkTradeClosed, Base, TypeOK, Row
  <2>2. HeldOpen(t) /\ row[t].opened
    BY <1>1, <1>6, WriterFinds DEF MarkTradeClosed
  <2>3. row[t].status \in {"OPEN", "CLOSED", "CANCELLED"}
    BY <1>0, <2>2 DEF Life, RowInv, Statuses
  <2>4. row[t].status = "OPEN" \/ Operators # {}
    BY <2>2 DEF Life, HeldInv
  <2>. QED  BY <1>2, <2>1, <2>3, <2>4 DEF Allowed, Statuses
<1>. QED  BY <1>3, <1>4, <1>5, <1>6

LEMMA OthersKeep ==
  ASSUME Base, [Next]_vars, ~SaveNewTrade, ~ActivateTrade,
         \A a \in Actors : ~CancelPendingTradeRecord(a) /\ ~MarkTradeClosed(a)
  PROVE  StatusKept
<1>1. CASE MarkOrderSubmitted \/ ConfirmPosition \/ (\E a \in Actors : SaveExitOrder(a))
  <2>1. CASE MarkOrderSubmitted
    BY <2>1 DEF MarkOrderSubmitted, StatusKept, Base, TypeOK, Row
  <2>2. CASE ConfirmPosition
    BY <2>2 DEF ConfirmPosition, StatusKept, Base, TypeOK, Row
  <2>3. ASSUME NEW a \in Actors, SaveExitOrder(a)
        PROVE  StatusKept
    <3>1. PICK v \in BOOLEAN : row' = [row EXCEPT ![at[a]] = [@ EXCEPT !.exit = v]]
      BY <2>3 DEF SaveExitOrder
    <3>. QED  BY <3>1 DEF StatusKept, Base, TypeOK, Row
  <2>. QED  BY <1>1, <2>1, <2>2, <2>3
<1>2. CASE ~(MarkOrderSubmitted \/ ConfirmPosition \/ (\E a \in Actors : SaveExitOrder(a)))
  <2>1. row' = row
    BY <1>2 DEF Next, JobStep, EntryStep, CloseStep, vars, table, SyncBrokerState,
         ReviewStalePending, StartPass, OpenTradeFromSignal, NextTrade, ReviewKeeps, EntryLookup,
         EntryWaits, OpenMarketPosition, ResolveSubmittedOrder, FetchFilledPosition,
         AbandonUnfilledOrder, SyncOpenTrade, ExitRulesDecide, RequestMarketClose, SyncExitOrder,
         ManualCloseOrCancel, Account, OrderFills, OrderRefused, PortfolioShows, CloseExecutes,
         ClosedOnEtoro, OpenedOnEtoro, TradeAges, Restart, StatementFails
  <2>. QED  BY <2>1 DEF StatusKept
<1>. QED  BY <1>1, <1>2

LEMMA NextMoves ==
  ASSUME Base, Life, OneActivePerSymbol', [Next]_vars
  PROVE  StatusKept \/ StatusMoves
<1>1. Scheduler \in Actors
  BY DEF Actors
<1>. QED  BY <1>1, WritesMove, OthersKeep

LEMMA TableInvariant == Spec => [](Base /\ Life /\ OneActivePerSymbol)
BY LifeInvariant, OneTradePerSymbol, PTL

\* A CLOSED trade is never PENDING or OPEN again: no write made from a row read
\* while the trade was active brings it back.
THEOREM ClosedStaysClosed == Spec => ClosedNeverReopens
<1>1. ASSUME Base, Life, OneActivePerSymbol', [Next]_vars
      PROVE  [\A t \in Trades : row[t].status = "CLOSED" => ~Active(row'[t])]_vars
  BY <1>1, NextMoves DEF StatusKept, StatusMoves, Moves, Allowed, Active
<1>. QED  BY <1>1, TableInvariant, PTL DEF Spec, ClosedNeverReopens

\* The table implements TradeBook: with operators only the overwrites named
\* there happen besides the documented lifecycle, without them none.
THEOREM TableRefinesTradeBook == Spec => RefinesTradeBook
<1>1. Init => Book!Init
  BY DEF Init, Book!Init, NoRow
<1>2. ASSUME Base, Life, OneActivePerSymbol', [Next]_vars
      PROVE  [Book!Next]_([t \in Trades |-> row[t].status])
  <2>1. CASE StatusKept
    BY <2>1 DEF StatusKept
  <2>2. CASE StatusMoves
    <3>1. PICK t \in Trades, s \in Statuses : Moves(t, s) /\ Allowed(row[t].status, s)
      BY <2>2 DEF StatusMoves
    <3>2. Book!Move(t, row[t].status, s)
      BY <3>1 DEF Moves, Book!Move
    <3>3. s \in {"PENDING", "OPEN"} => Book!FreeSymbol(t)
      BY <3>1 DEF Moves, Book!FreeSymbol, Book!Active, Active
    <3>. QED
      BY <3>1, <3>2, <3>3 DEF Allowed, Book!Next, Book!Propose, Book!Fill, Book!Drop, Book!Close,
         Book!Revive, Book!LateClose, Book!LateDrop
  <2>. QED  BY <1>2, <2>1, <2>2, NextMoves
<1>. QED  BY <1>1, <1>2, TableInvariant, PTL DEF Spec, RefinesTradeBook, Book!Spec

-----------------------------------------------------------------------------
(* Every exit is claimed.  A position enters a row once, when it is        *)
(* activated, and stays: so what any thread still remembers of a row's     *)
(* position is what the row says now.                                      *)

PosInv ==
  /\ \A t \in Trades : ~row[t].opened => row[t].pos = None
  /\ \A t \in Trades : batch[t].pos # None => row[t].pos = batch[t].pos
  /\ \A a \in Actors : seen[a].pos # None => at[a] \in Trades /\ row[at[a]].pos = seen[a].pos
  /\ ExitIsClaimed

\* The statements that write the table.
RowWrites ==
  \/ SaveNewTrade \/ MarkOrderSubmitted \/ ActivateTrade \/ ConfirmPosition
  \/ \E a \in Actors : CancelPendingTradeRecord(a) \/ SaveExitOrder(a) \/ MarkTradeClosed(a)

LEMMA OthersKeepRows ==
  ASSUME [Next]_vars, ~RowWrites
  PROVE  row' = row
<1>1. CASE JobStep
  BY <1>1 DEF RowWrites, JobStep, EntryStep, table, NextTrade, ReviewKeeps, EntryLookup,
     EntryWaits, OpenMarketPosition, ResolveSubmittedOrder, FetchFilledPosition,
     AbandonUnfilledOrder, SyncOpenTrade, ExitRulesDecide
<1>2. CASE Account
  BY <1>2 DEF Account, table, OrderFills, OrderRefused, PortfolioShows, CloseExecutes,
     ClosedOnEtoro, OpenedOnEtoro
<1>. QED
  BY <1>1, <1>2 DEF RowWrites, Next, CloseStep, vars, table, SyncBrokerState,
     ReviewStalePending, StartPass, OpenTradeFromSignal, RequestMarketClose, SyncExitOrder,
     ManualCloseOrCancel, TradeAges, Restart, StatementFails

\* What a thread knows of a row is what it knew, or is read from the table.
KnowsRows ==
  /\ \A t \in Trades : batch'[t] \in {NoRow, batch[t], row[t]}
  /\ \A a \in Actors :
       \/ seen'[a] = NoRow
       \/ seen'[a] = seen[a] /\ (at'[a] = at[a] \/ at[a] = None)
       \/ at'[a] \in Trades /\ seen'[a] \in {batch[at'[a]], row'[at'[a]]}

LEMMA DoneKnows ==
  ASSUME Base, NEW a \in Actors, Done(a)
  PROVE  KnowsRows
BY DEF Base, TypeOK, Done, KnowsRows

LEMMA NextKnows ==
  ASSUME Base, [Next]_vars
  PROVE  KnowsRows
<1>. USE DEF Base, TypeOK, KnowsRows
<1>0. Scheduler \in Actors
  BY DEF Actors
<1>1. CASE \E a \in Actors : Done(a)
  BY <1>1, DoneKnows
<1>2. CASE UNCHANGED <<at, seen, batch>>
  BY <1>2
<1>3. CASE SyncBrokerState \/ ReviewStalePending
  BY <1>3 DEF SyncBrokerState, ReviewStalePending, StartPass
<1>4. ASSUME NEW t \in Trades, OpenTradeFromSignal(t)
      PROVE  KnowsRows
  BY <1>0, <1>4 DEF OpenTradeFromSignal, ThreadInv
<1>5. ASSUME NEW t \in Trades, NextTrade(t)
      PROVE  KnowsRows
  BY <1>0, <1>5 DEF NextTrade
<1>6. ASSUME NEW t \in Trades, ReviewKeeps(t)
      PROVE  KnowsRows
  BY <1>6 DEF ReviewKeeps
<1>7. ASSUME NEW a \in Actors, SaveExitOrder(a)
      PROVE  KnowsRows
  <2>1. at[a] \in Trades
    BY <1>7 DEF SaveExitOrder, ThreadInv
  <2>. QED  BY <1>1, <1>7, <2>1 DEF SaveExitOrder
<1>8. ASSUME NEW a \in Operators, NEW t \in Trades, ManualCloseOrCancel(a, t)
      PROVE  KnowsRows
  BY <1>8 DEF ManualCloseOrCancel, table, Actors
<1>9. CASE Restart
  BY <1>9 DEF Restart
<1>10. CASE EntryStep \/ SaveNewTrade \/ SyncOpenTrade \/ ConfirmPosition \/ ExitRulesDecide
  BY <1>0, <1>1, <1>2, <1>10 DEF EntryStep, EntryLookup, EntryWaits, OpenMarketPosition,
     MarkOrderSubmitted, ResolveSubmittedOrder, FetchFilledPosition, ActivateTrade,
     AbandonUnfilledOrder, SaveNewTrade, SyncOpenTrade, ConfirmPosition, ExitRulesDecide,
     Goto, CancelNext
<1>11. ASSUME NEW a \in Actors,
              \/ CancelPendingTradeRecord(a) \/ RequestMarketClose(a)
              \/ SyncExitOrder(a) \/ MarkTradeClosed(a)
       PROVE  KnowsRows
  BY <1>1, <1>2, <1>11 DEF CancelPendingTradeRecord, RequestMarketClose, SyncExitOrder,
     MarkTradeClosed, Goto
<1>12. CASE Account \/ (\E t \in Trades : TradeAges(t)) \/ UNCHANGED vars
  BY <1>2, <1>12 DEF Account, OrderFills, OrderRefused, PortfolioShows, CloseExecutes, ClosedOnEtoro,
              OpenedOnEtoro, TradeAges, vars, thread
<1>13. CASE \E a \in Actors : StatementFails(a)
  BY <1>1, <1>13 DEF StatementFails
<1>. QED  BY <1>3, <1>4, <1>5, <1>6, <1>7, <1>8, <1>9, <1>10, <1>11, <1>12, <1>13
          DEF Next, JobStep, CloseStep

\* A position, once in a row, is never replaced.
LEMMA RowKeepsPosition ==
  ASSUME Base, Life, PosInv, [Next]_vars, NEW t \in Trades
  PROVE  /\ row[t].pos # None => row'[t].pos = row[t].pos
         /\ ~row'[t].opened => row'[t].pos = None
<1>. USE DEF Base, TypeOK
<1>1. CASE \/ SaveNewTrade
           \/ MarkOrderSubmitted \/ ConfirmPosition
  <2>1. CASE SaveNewTrade
    <3>1. row[at[Scheduler]].status = "NONE"
      BY <2>1 DEF SaveNewTrade, Life, PassInv
    <3>. QED  BY <2>1, <3>1 DEF SaveNewTrade, Life, RowInv, PosInv, NoRow
  <2>2. CASE MarkOrderSubmitted
    BY <2>2 DEF MarkOrderSubmitted, PosInv, Row
  <2>3. CASE ConfirmPosition
    BY <2>3 DEF ConfirmPosition, PosInv, Row
  <2>. QED  BY <1>1, <2>1, <2>2, <2>3
<1>2. CASE ActivateTrade
  <2>1. Scheduler \in Actors
    BY DEF Actors
  <2>2. ~row[at[Scheduler]].opened
    BY <1>2, <2>1, WriterFinds DEF ActivateTrade
  <2>. QED  BY <1>2, <2>2 DEF ActivateTrade, PosInv, Row
<1>3. ASSUME NEW a \in Actors,
             CancelPendingTradeRecord(a) \/ SaveExitOrder(a) \/ MarkTradeClosed(a)
      PROVE  row'[t].pos = row[t].pos /\ row'[t].opened = row[t].opened
  <2>1. CASE CancelPendingTradeRecord(a)
    BY <2>1 DEF CancelPendingTradeRecord, Row
  <2>2. CASE SaveExitOrder(a)
    <3>1. PICK v \in BOOLEAN : row' = [row EXCEPT ![at[a]] = [@ EXCEPT !.exit = v]]
      BY <2>2 DEF SaveExitOrder
    <3>. QED  BY <3>1 DEF Row
  <2>3. CASE MarkTradeClosed(a)
    BY <2>3 DEF MarkTradeClosed, Row
  <2>. QED  BY <1>3, <2>1, <2>2, <2>3
<1>4. CASE ~RowWrites
  BY <1>4, OthersKeepRows DEF PosInv
<1>. QED  BY <1>1, <1>2, <1>3, <1>4 DEF RowWrites, PosInv

\* Only a market close adds to the closes the broker accepted, and it names the
\* position of the row as it was read.
LEMMA ClosingGrows ==
  ASSUME Base, [Next]_vars, NEW p \in closing'
  PROVE  p \in closing \/ \E a \in Actors : p = seen[a].pos /\ p # None
<1>1. ASSUME NEW a \in Actors, RequestMarketClose(a)
      PROVE  p \in closing \/ (p = seen[a].pos /\ p # None)
  <2>1. closing' = closing \/ (seen[a].pos # None /\ closing' = closing \cup {seen[a].pos})
    BY <1>1 DEF RequestMarketClose, ExitTarget
  <2>. QED  BY <2>1
<1>2. CASE ~ \E a \in Actors : RequestMarketClose(a)
  <2>1. closing' = closing
    <3>1. CASE JobStep
      BY <3>1 DEF JobStep, EntryStep, broker, NextTrade, ReviewKeeps, SaveNewTrade,
         EntryLookup, EntryWaits, OpenMarketPosition, MarkOrderSubmitted, ResolveSubmittedOrder,
         FetchFilledPosition, ActivateTrade, AbandonUnfilledOrder, SyncOpenTrade, ConfirmPosition,
         ExitRulesDecide
    <3>2. CASE \E a \in Actors : CloseStep(a)
      BY <1>2, <3>2 DEF CloseStep, broker, CancelPendingTradeRecord, SaveExitOrder,
         SyncExitOrder, MarkTradeClosed
    <3>3. CASE Account
      BY <3>3 DEF Account, OrderFills, OrderRefused, PortfolioShows, CloseExecutes, ClosedOnEtoro,
         OpenedOnEtoro
    <3>. QED
      BY <3>1, <3>2, <3>3 DEF Next, vars, broker, SyncBrokerState, ReviewStalePending, StartPass,
         OpenTradeFromSignal, ManualCloseOrCancel, TradeAges, Restart, StatementFails
  <2>. QED  BY <2>1
<1>. QED  BY <1>1, <1>2

LEMMA NextPos == Base /\ Life /\ PosInv /\ [Next]_vars => PosInv'
<1>. SUFFICES ASSUME Base, Life, PosInv, [Next]_vars PROVE PosInv'
  OBVIOUS
<1>0. KnowsRows /\ NoRow.pos = None /\ Base'
  BY NextKnows, NextBase DEF NoRow
<1>1. \A t \in Trades : /\ row[t].pos # None => row'[t].pos = row[t].pos
                        /\ ~row'[t].opened => row'[t].pos = None
  BY RowKeepsPosition
<1>2. \A t \in Trades : batch'[t].pos # None => row'[t].pos = batch'[t].pos
  BY <1>0, <1>1 DEF KnowsRows, PosInv
<1>3. ASSUME NEW a \in Actors, seen'[a].pos # None
      PROVE  at'[a] \in Trades /\ row'[at'[a]].pos = seen'[a].pos
  <2>1. CASE seen'[a] = seen[a] /\ (at'[a] = at[a] \/ at[a] = None)
    BY <1>1, <1>3, <2>1 DEF PosInv
  <2>2. CASE at'[a] \in Trades /\ seen'[a] \in {batch[at'[a]], row'[at'[a]]}
    BY <1>1, <1>3, <2>2 DEF PosInv
  <2>. QED  BY <1>0, <1>3, <2>1, <2>2 DEF KnowsRows
<1>4. ExitIsClaimed'
  <2>1. ASSUME NEW p \in closing'
        PROVE  \E t \in Trades : row'[t].pos = p
    <3>1. p # None
      BY <1>0, <2>1 DEF Base, TypeOK, Positions
    <3>2. \E t \in Trades : row[t].pos = p
      BY <2>1, ClosingGrows DEF PosInv, ExitIsClaimed
    <3>. QED  BY <1>1, <3>1, <3>2
  <2>. QED  BY <2>1 DEF ExitIsClaimed
<1>. QED  BY <1>1, <1>2, <1>3, <1>4 DEF PosInv

LEMMA PosInvariant == Spec => [](Base /\ Life /\ PosInv)
<1>1. Init => PosInv
  BY DEF Init, PosInv, ExitIsClaimed, NoRow
<1>. QED  BY <1>1, LifeInvariant, NextPos, PTL DEF Spec

\* Every position the program asks the broker to close is the position of some
\* row: neither a stale row nor a restart makes it close one no trade accounts for.
THEOREM ExitsAreClaimed == Spec => []ExitIsClaimed
<1>1. PosInv => ExitIsClaimed
  BY DEF PosInv
<1>. QED  BY <1>1, PosInvariant, PTL

-----------------------------------------------------------------------------
(* Entry orders.  Who owns an order is settled when it is sent; the rows,  *)
(* the pass and the entry half only know orders of their own trade.        *)

OrderInv ==
  /\ \A o \in Orders : /\ order[o] = "none" => owner[o] = None
                       /\ position[o] # "none" => order[o] = "executed"
  /\ \A t \in Trades : row[t].status = "NONE" => row[t] = NoRow
  /\ \A t \in Trades : row[t].order # None => owner[row[t].order] = t
  /\ \A t \in Trades : batch[t].order # None => row[t].order # None /\ owner[batch[t].order] = t
  /\ pc[Scheduler] = "submitted" => owner[found[Scheduler]] = at[Scheduler]
  /\ pc[Scheduler] \in {"await", "fetch", "abandon"} =>
       /\ seen[Scheduler].order # None /\ owner[seen[Scheduler].order] = at[Scheduler]
       /\ row[at[Scheduler]].order # None

\* The steps of operators, of the account and of time.
OtherStep ==
  \/ \E a \in Operators : \/ CloseStep(a) \/ StatementFails(a)
                         \/ \E t \in Trades : ManualCloseOrCancel(a, t)
  \/ Account \/ (\E t \in Trades : TradeAges(t)) \/ UNCHANGED vars

LEMMA SchedulerUndisturbed ==
  ASSUME Base, OtherStep
  PROVE  /\ pc'[Scheduler] = pc[Scheduler] /\ at'[Scheduler] = at[Scheduler]
         /\ seen'[Scheduler] = seen[Scheduler] /\ found'[Scheduler] = found[Scheduler]
         /\ why'[Scheduler] = why[Scheduler]
         /\ UNCHANGED <<batch, job, owner>>
<1>. USE DEF Base, TypeOK
<1>1. ASSUME NEW a \in Operators, CloseStep(a) \/ StatementFails(a)
      PROVE  owner' = owner /\ (Done(a) \/ UNCHANGED <<at, found, why, job, batch>>)
  BY <1>1 DEF StatementFails, CloseStep, CancelPendingTradeRecord, RequestMarketClose, SaveExitOrder,
              SyncExitOrder, MarkTradeClosed, Goto, Fault, Fails, broker, used
<1>2. ASSUME NEW a \in Operators, CloseStep(a) \/ StatementFails(a)
      PROVE  Done(a) \/ (\E l \in Labels : pc' = [pc EXCEPT ![a] = l])
  BY <1>2 DEF StatementFails, CloseStep, CancelPendingTradeRecord, RequestMarketClose, SaveExitOrder,
              SyncExitOrder, MarkTradeClosed, Goto, Labels
<1>3. ASSUME NEW a \in Operators, CloseStep(a) \/ StatementFails(a)
      PROVE  Done(a) \/ seen' = seen \/ seen' = [seen EXCEPT ![a] = row'[at[a]]]
  BY <1>3 DEF StatementFails, CloseStep, CancelPendingTradeRecord, RequestMarketClose, SaveExitOrder,
              SyncExitOrder, MarkTradeClosed, Goto
<1>4. CASE \E a \in Operators : CloseStep(a) \/ StatementFails(a)
  BY <1>1, <1>2, <1>3, <1>4 DEF Done, Actors
<1>5. ASSUME NEW a \in Operators, NEW t \in Trades, ManualCloseOrCancel(a, t)
      PROVE  /\ pc'[Scheduler] = pc[Scheduler] /\ at'[Scheduler] = at[Scheduler]
             /\ seen'[Scheduler] = seen[Scheduler] /\ why'[Scheduler] = why[Scheduler]
             /\ UNCHANGED <<found, batch, job, owner>>
  BY <1>5 DEF ManualCloseOrCancel, broker, Actors
<1>6. CASE Account \/ (\E t \in Trades : TradeAges(t)) \/ UNCHANGED vars
  BY <1>6 DEF Account, OrderFills, OrderRefused, PortfolioShows, CloseExecutes, ClosedOnEtoro,
              OpenedOnEtoro, TradeAges, vars, thread, broker, used
<1>. QED  BY <1>4, <1>5, <1>6 DEF OtherStep

\* Only the POST of an entry order settles an owner, of an order nobody had.
LEMMA OwnersKept ==
  ASSUME [Next]_vars, \A taken \in SUBSET Orders : ~OpenMarketPosition(taken)
  PROVE  owner' = owner
<1>1. CASE JobStep
  BY <1>1 DEF JobStep, EntryStep, broker, NextTrade, ReviewKeeps, SaveNewTrade,
       EntryLookup, EntryWaits, MarkOrderSubmitted, ResolveSubmittedOrder,
       FetchFilledPosition, ActivateTrade, AbandonUnfilledOrder, SyncOpenTrade, ConfirmPosition,
       ExitRulesDecide
<1>2. CASE Account
  BY <1>2 DEF Account, OrderFills, OrderRefused, PortfolioShows, CloseExecutes, ClosedOnEtoro,
       OpenedOnEtoro
<1>3. CASE \E a \in Actors : CloseStep(a)
  BY <1>3 DEF CloseStep, broker, CancelPendingTradeRecord, RequestMarketClose, SaveExitOrder,
       SyncExitOrder, MarkTradeClosed
<1>. QED
  BY <1>1, <1>2, <1>3 DEF Next, vars, broker, SyncBrokerState, ReviewStalePending, StartPass,
       OpenTradeFromSignal, ManualCloseOrCancel, TradeAges, Restart, StatementFails

LEMMA PostOwner ==
  ASSUME Base, OrderInv, NEW taken \in SUBSET Orders, OpenMarketPosition(taken)
  PROVE  /\ \A o \in taken : order[o] = "none" /\ owner[o] = None
         /\ owner' = [o \in Orders |-> IF o \in taken THEN at[Scheduler] ELSE owner[o]]
         /\ order' = [o \in Orders |-> IF o \in taken THEN "waiting" ELSE order[o]]
BY DEF OpenMarketPosition, OrderInv

\* What the account may do to an order and to the position it bought.
LEMMA AccountKept ==
  ASSUME Base, OrderInv, [Next]_vars, \A taken \in SUBSET Orders : ~OpenMarketPosition(taken)
  PROVE  \A o \in Orders :
           /\ order'[o] = "none" <=> order[o] = "none"
           /\ order'[o] = "waiting" => order[o] = "waiting"
           /\ order[o] = "refused" => order'[o] = "refused"
           /\ order[o] = "executed" => order'[o] = "executed"
           /\ position'[o] \in {"settling", "live"} =>
                \/ position[o] \in {"settling", "live"}
                \/ order[o] = "waiting"
           /\ position'[o] # "none" => order'[o] = "executed"
<1>. USE DEF Base, TypeOK, OrderInv
<1>1. CASE AbandonUnfilledOrder
  BY <1>1 DEF AbandonUnfilledOrder
<1>2. ASSUME NEW p \in Orders, OrderFills(p) \/ OrderRefused(p) \/ PortfolioShows(p)
      PROVE  \A o \in Orders :
           /\ order'[o] = "none" <=> order[o] = "none"
           /\ order'[o] = "waiting" => order[o] = "waiting"
           /\ order[o] = "refused" => order'[o] = "refused"
           /\ order[o] = "executed" => order'[o] = "executed"
           /\ position'[o] \in {"settling", "live"} =>
                \/ position[o] \in {"settling", "live"}
                \/ order[o] = "waiting"
           /\ position'[o] # "none" => order'[o] = "executed"
  BY <1>2 DEF OrderFills, OrderRefused, PortfolioShows, Positions
<1>3. CASE \/ \E p \in Positions : CloseExecutes(p) \/ ClosedOnEtoro(p)
           \/ \E x \in Externals : OpenedOnEtoro(x)
  BY <1>3 DEF CloseExecutes, ClosedOnEtoro, OpenedOnEtoro, Positions
<1>4. CASE ~Account /\ ~AbandonUnfilledOrder
  <2>1. UNCHANGED <<order, position>>
    <3>1. CASE JobStep
      BY <1>4, <3>1 DEF JobStep, EntryStep, broker, NextTrade, ReviewKeeps, SaveNewTrade,
         EntryLookup, EntryWaits, MarkOrderSubmitted, ResolveSubmittedOrder,
         FetchFilledPosition, ActivateTrade, SyncOpenTrade, ConfirmPosition, ExitRulesDecide
    <3>2. CASE \E a \in Actors : CloseStep(a)
      BY <3>2 DEF CloseStep, broker, CancelPendingTradeRecord, RequestMarketClose, SaveExitOrder,
         SyncExitOrder, MarkTradeClosed
    <3>. QED
      BY <1>4, <3>1, <3>2 DEF Next, vars, broker, SyncBrokerState, ReviewStalePending, StartPass,
         OpenTradeFromSignal, ManualCloseOrCancel, TradeAges, Restart, StatementFails
  <2>. QED  BY <2>1
<1>. QED  BY <1>1, <1>2, <1>3, <1>4 DEF Account

LEMMA OwnersSettled ==
  ASSUME Base, OrderInv, [Next]_vars, NEW o \in Orders, owner[o] # None
  PROVE  owner'[o] = owner[o]
BY OwnersKept, PostOwner DEF Base, TypeOK

\* A row's order id is only written once its order was sent.
LEMMA RowKeepsOrder ==
  ASSUME Base, Life, OrderInv, [Next]_vars, NEW t \in Trades
  PROVE  /\ row'[t].status = "NONE" => row'[t] = row[t]
         /\ \/ row'[t].order = row[t].order
            \/ pc[Scheduler] = "submitted" /\ t = at[Scheduler] /\ row'[t].order = found[Scheduler]
<1>. USE DEF Base, TypeOK
<1>0. Scheduler \in Actors
  BY DEF Actors
<1>1. CASE SaveNewTrade
  <2>1. at[Scheduler] \in Trades /\ row[at[Scheduler]] = NoRow
    BY <1>0, <1>1 DEF SaveNewTrade, Life, PassInv, OrderInv, ThreadInv
  <2>. QED  BY <1>1, <2>1 DEF SaveNewTrade, NoRow
<1>2. CASE MarkOrderSubmitted
  <2>1. at[Scheduler] \in Trades /\ HeldPending(at[Scheduler])
    BY <1>0, <1>2 DEF MarkOrderSubmitted, HeldPending, EntryLabels, ThreadInv
  <2>2. row[at[Scheduler]].status # "NONE"
    BY <2>1 DEF Life, HeldInv
  <2>. QED  BY <1>2, <2>1, <2>2 DEF MarkOrderSubmitted, Row
<1>3. CASE ConfirmPosition
  <2>1. at[Scheduler] \in Trades /\ HeldOpen(at[Scheduler])
    BY <1>0, <1>3 DEF ConfirmPosition, HeldOpen, ExitLabels, ThreadInv
  <2>2. row[at[Scheduler]].status # "NONE"
    BY <2>1 DEF Life, HeldInv, RowInv
  <2>. QED  BY <1>3, <2>1, <2>2 DEF ConfirmPosition, Row
<1>4. CASE ActivateTrade
  BY <1>0, <1>4 DEF ActivateTrade, Row
<1>5. ASSUME NEW a \in Actors, CancelPendingTradeRecord(a) \/ MarkTradeClosed(a)
      PROVE  (row'[t].status = "NONE" => row'[t] = row[t]) /\ row'[t].order = row[t].order
  <2>1. CASE CancelPendingTradeRecord(a)
    BY <2>1 DEF CancelPendingTradeRecord, Row
  <2>2. CASE MarkTradeClosed(a)
    BY <2>2 DEF MarkTradeClosed, Row
  <2>. QED  BY <1>5, <2>1, <2>2
<1>6. ASSUME NEW a \in Actors, SaveExitOrder(a)
      PROVE  (row'[t].status = "NONE" => row'[t] = row[t]) /\ row'[t].order = row[t].order
  <2>1. at[a] \in Trades /\ HeldOpen(at[a])
    BY <1>6 DEF SaveExitOrder, HeldOpen, ExitLabels, ThreadInv
  <2>2. row[at[a]].status # "NONE"
    BY <2>1 DEF Life, HeldInv, RowInv
  <2>3. PICK v \in BOOLEAN : row' = [row EXCEPT ![at[a]] = [@ EXCEPT !.exit = v]]
    BY <1>6 DEF SaveExitOrder
  <2>. QED  BY <2>1, <2>2, <2>3 DEF Row
<1>7. CASE ~RowWrites
  BY <1>7, OthersKeepRows
<1>. QED  BY <1>1, <1>2, <1>3, <1>4, <1>5, <1>6, <1>7 DEF RowWrites

\* How the job comes to a step that speaks of an order it has sent.
LEMMA EntryMoves ==
  ASSUME Base, Life, OrderInv, [Next]_vars
  PROVE  /\ pc'[Scheduler] = "submitted" =>
              \/ /\ pc[Scheduler] = "submitted" /\ at'[Scheduler] = at[Scheduler]
                 /\ found'[Scheduler] = found[Scheduler]
              \/ /\ found'[Scheduler] \in Orders /\ at'[Scheduler] = at[Scheduler]
                 /\ owner'[found'[Scheduler]] = at[Scheduler]
         /\ pc'[Scheduler] \in {"await", "fetch", "abandon"} =>
              \/ /\ pc[Scheduler] \in {"await", "fetch", "abandon"}
                 /\ at'[Scheduler] = at[Scheduler] /\ seen'[Scheduler] = seen[Scheduler]
              \/ /\ at'[Scheduler] \in Trades /\ seen'[Scheduler] = batch[at'[Scheduler]]
                 /\ seen'[Scheduler].order # None
<1>. DEFINE Sends == /\ pc'[Scheduler] = "submitted"
                     /\ found'[Scheduler] \in Orders /\ at'[Scheduler] = at[Scheduler]
                     /\ owner'[found'[Scheduler]] = at[Scheduler]
            Resumes == /\ pc'[Scheduler] = "await"
                       /\ at'[Scheduler] \in Trades /\ seen'[Scheduler] = batch[at'[Scheduler]]
                       /\ seen'[Scheduler].order # None
            Awaits == pc[Scheduler] = "await" /\ UNCHANGED <<at, seen>> /\ pc'[Scheduler] # "submitted"
            Away == pc'[Scheduler] \notin {"submitted", "await", "fetch", "abandon"}
            Stays == pc'[Scheduler] = pc[Scheduler] /\ at'[Scheduler] = at[Scheduler]
                     /\ seen'[Scheduler] = seen[Scheduler] /\ found'[Scheduler] = found[Scheduler]
<1>. USE DEF Base, TypeOK
<1>0. Scheduler \in Actors
  BY DEF Actors
<1>1. CASE Done(Scheduler)
  BY <1>0, <1>1 DEF Done
<1>2. CASE OtherStep
  BY <1>2, SchedulerUndisturbed
<1>3. ASSUME NEW t \in Trades, NextTrade(t)
      PROVE  Away \/ Resumes
  BY <1>0, <1>3 DEF NextTrade, Entrance
<1>4. ASSUME NEW t \in Trades, ReviewKeeps(t) \/ OpenTradeFromSignal(t)
      PROVE  Away
  BY <1>0, <1>4 DEF ReviewKeeps, OpenTradeFromSignal
<1>5. CASE SyncBrokerState \/ ReviewStalePending \/ Restart
  BY <1>0, <1>5 DEF SyncBrokerState, ReviewStalePending, StartPass, Restart
<1>6. ASSUME NEW taken \in SUBSET Orders, OpenMarketPosition(taken)
      PROVE  Sends \/ Away
  BY <1>0, <1>6 DEF OpenMarketPosition, CancelNext
<1>7. CASE EntryLookup \/ EntryWaits \/ MarkOrderSubmitted \/ ActivateTrade \/ SaveNewTrade
  BY <1>0, <1>1, <1>7 DEF EntryLookup, EntryWaits, MarkOrderSubmitted, ActivateTrade, SaveNewTrade,
     Goto, CancelNext
<1>8. CASE ResolveSubmittedOrder
  <2>1. Done(Scheduler) \/ Away \/ Awaits
    BY <1>0, <1>8 DEF ResolveSubmittedOrder, Goto, CancelNext
  <2>. QED  BY <1>1, <2>1
<1>9. CASE FetchFilledPosition \/ AbandonUnfilledOrder
  BY <1>0, <1>1, <1>9 DEF FetchFilledPosition, AbandonUnfilledOrder, CancelNext
<1>10. CASE SyncOpenTrade \/ ConfirmPosition \/ ExitRulesDecide \/ CloseStep(Scheduler)
  BY <1>0, <1>1, <1>10 DEF SyncOpenTrade, ConfirmPosition, ExitRulesDecide, CloseStep,
     CancelPendingTradeRecord, RequestMarketClose, SaveExitOrder, SyncExitOrder, MarkTradeClosed,
     Goto
<1>11. CASE StatementFails(Scheduler)
  BY <1>1, <1>11 DEF StatementFails
<1>. QED  BY <1>2, <1>3, <1>4, <1>5, <1>6, <1>7, <1>8, <1>9, <1>10, <1>11
          DEF Next, JobStep, EntryStep, OtherStep, Actors

LEMMA NextOrders == Base /\ Life /\ OrderInv /\ [Next]_vars => OrderInv'
<1>. SUFFICES ASSUME Base, Life, OrderInv, [Next]_vars PROVE OrderInv'
  OBVIOUS
<1>0. /\ Base' /\ KnowsRows /\ NoRow.order = None
      /\ \A o \in Orders : owner[o] # None => owner'[o] = owner[o]
      /\ \A t \in Trades : /\ row[t].order \in Orders \cup {None}
                           /\ batch[t].order \in Orders \cup {None}
  BY NextBase, NextKnows, OwnersSettled DEF NoRow, Base, TypeOK, Row
<1>1. \A o \in Orders : /\ order'[o] = "none" => owner'[o] = None
                        /\ position'[o] # "none" => order'[o] = "executed"
  <2>1. CASE \E taken \in SUBSET Orders : OpenMarketPosition(taken)
    <3>1. PICK taken \in SUBSET Orders : OpenMarketPosition(taken)
      BY <2>1
    <3>2. position' = position
      BY <3>1 DEF OpenMarketPosition
    <3>. QED  BY <3>1, <3>2, PostOwner DEF OrderInv, Base, TypeOK
  <2>2. CASE ~ \E taken \in SUBSET Orders : OpenMarketPosition(taken)
    BY <2>2, AccountKept, OwnersKept DEF OrderInv
  <2>. QED  BY <2>1, <2>2
<1>2. \A t \in Trades : row'[t].status = "NONE" => row'[t] = NoRow
  BY RowKeepsOrder DEF OrderInv
<1>3. \A t \in Trades : row'[t].order # None => owner'[row'[t].order] = t
  BY <1>0, RowKeepsOrder DEF OrderInv, Base, TypeOK, ThreadInv
<1>4. \A t \in Trades : row[t].order # None => row'[t].order # None
  BY <1>0, RowKeepsOrder DEF OrderInv, Base, TypeOK, ThreadInv
<1>5. \A t \in Trades : batch'[t].order # None => row'[t].order # None /\ owner'[batch'[t].order] = t
  BY <1>0, <1>4 DEF KnowsRows, OrderInv
<1>6. pc'[Scheduler] = "submitted" => owner'[found'[Scheduler]] = at'[Scheduler]
  BY <1>0, EntryMoves DEF OrderInv, Base, TypeOK, ThreadInv, Actors
<1>7. pc'[Scheduler] \in {"await", "fetch", "abandon"} =>
        /\ seen'[Scheduler].order # None /\ owner'[seen'[Scheduler].order] = at'[Scheduler]
        /\ row'[at'[Scheduler]].order # None
  <2>1. seen[Scheduler].order \in Orders \cup {None}
    BY DEF Base, TypeOK, Row, Actors
  <2>2. pc[Scheduler] \in {"await", "fetch", "abandon"} => at[Scheduler] \in Trades
    BY DEF Base, TypeOK, ThreadInv, Actors
  <2>. QED  BY <1>0, <1>4, <2>1, <2>2, EntryMoves DEF OrderInv
<1>. QED  BY <1>1, <1>2, <1>3, <1>5, <1>6, <1>7 DEF OrderInv

LEMMA OrderInvariant == Spec => [](Base /\ Life /\ OrderInv)
<1>1. Init => OrderInv
  BY DEF Init, OrderInv, NoRow, Actors, Positions
<1>. QED  BY <1>1, LifeInvariant, NextOrders, PTL DEF Spec

-----------------------------------------------------------------------------
(* At most one order per trade, and one more for each id that was lost.    *)
(* While the job may still send an order for a trade, the trade has at     *)
(* most as many orders as ids were lost: by a restart or a failed UPDATE   *)
(* after the POST, or by an attempt of it the account took without leave.  *)

AtMost(S, n) == IsFiniteSet(S) /\ Cardinality(S) <= n

Own(t) == {o \in Orders : owner[o] = t}

Sending(t) == at[Scheduler] = t /\ pc[Scheduler] \in {"entry", "decide"}

CanSend(t) ==
  \/ row[t].status = "NONE"
  \/ /\ row[t].status = "PENDING" /\ row[t].order = None
     /\ at[Scheduler] = t => Sending(t)
  \/ batch[t].status = "PENDING" /\ batch[t].order = None
  \/ Sending(t)

SendInv ==
  \A t \in Trades :
    /\ AtMost(Own(t), 1 + lost)
    /\ CanSend(t) => AtMost(Own(t), lost)

LEMMA AtMostSubset ==
  ASSUME NEW S, NEW T \in SUBSET S, NEW n \in Nat, NEW m \in Nat, n <= m, AtMost(S, n)
  PROVE  AtMost(T, m)
BY FS_Subset, FS_CardinalityType DEF AtMost

LEMMA AtMostUnion ==
  ASSUME NEW S, NEW U, NEW T \in SUBSET (S \cup U), NEW n \in Nat, NEW m \in Nat,
         AtMost(S, n), IsFiniteSet(U), n + Cardinality(U) <= m
  PROVE  AtMost(T, m)
<1>1. /\ IsFiniteSet(S) /\ Cardinality(S) \in Nat /\ Cardinality(S) <= n
      /\ Cardinality(U) \in Nat
  BY FS_CardinalityType DEF AtMost
<1>2. /\ IsFiniteSet(S \cup U) /\ IsFiniteSet(S \cap U)
      /\ Cardinality(S \cup U) = Cardinality(S) + Cardinality(U) - Cardinality(S \cap U)
  BY <1>1, FS_Union, FS_Intersection
<1>3. Cardinality(S \cap U) \in Nat /\ Cardinality(S \cup U) \in Nat
  BY <1>2, FS_CardinalityType
<1>4. AtMost(S \cup U, m)
  BY <1>1, <1>2, <1>3 DEF AtMost
<1>. QED  BY <1>4, AtMostSubset

LEMMA AtMostMinusOne ==
  ASSUME NEW S, NEW x \in S, NEW T \in SUBSET (S \ {x}), NEW n \in Nat, AtMost(S, n + 1)
  PROVE  AtMost(T, n)
<1>1. IsFiniteSet(S) /\ Cardinality(S) \in Nat /\ Cardinality(S) <= n + 1
  BY FS_CardinalityType DEF AtMost
<1>2. IsFiniteSet(S \ {x}) /\ Cardinality(S \ {x}) = Cardinality(S) - 1
  BY <1>1, FS_RemoveElement
<1>3. AtMost(S \ {x}, n)
  BY <1>1, <1>2 DEF AtMost
<1>. QED  BY <1>3, AtMostSubset

\* What the job's own writes make of the row it is at.
LEMMA JobRows ==
  ASSUME Base, Life, OrderInv, [Next]_vars, NEW t \in Trades
  PROVE  /\ row'[t].status = "NONE" => row[t].status = "NONE"
         /\ row'[t].status = "PENDING" /\ row'[t].order = None =>
              \/ row[t].status = "NONE"
              \/ row[t].status = "PENDING" /\ row[t].order = None
<1>. USE DEF Base, TypeOK
<1>0. /\ Scheduler \in Actors
      /\ row'[t].status = "NONE" => row[t].status = "NONE"
      /\ row[t].order # None => row'[t].order # None
  BY RowKeepsOrder DEF ThreadInv, Actors
<1>1. CASE SaveNewTrade
  <2>1. row[at[Scheduler]].status = "NONE"
    BY <1>1 DEF SaveNewTrade, Life, PassInv
  <2>. QED  BY <1>0, <1>1, <2>1 DEF SaveNewTrade
<1>2. CASE MarkOrderSubmitted \/ ConfirmPosition
  <2>1. CASE MarkOrderSubmitted
    BY <1>0, <2>1 DEF MarkOrderSubmitted, Row
  <2>2. CASE ConfirmPosition
    BY <1>0, <2>2 DEF ConfirmPosition, Row
  <2>. QED  BY <1>2, <2>1, <2>2
<1>3. CASE ActivateTrade
  BY <1>0, <1>3 DEF ActivateTrade, Row
<1>4. ASSUME NEW a \in Actors, SaveExitOrder(a)
      PROVE  row'[t].status = row[t].status
  <2>1. PICK v \in BOOLEAN : row' = [row EXCEPT ![at[a]] = [@ EXCEPT !.exit = v]]
    BY <1>4 DEF SaveExitOrder
  <2>. QED  BY <2>1 DEF Row
<1>5. ASSUME NEW a \in Actors, CancelPendingTradeRecord(a)
      PROVE  row'[t].status \in {row[t].status, "CANCELLED"}
  BY <1>5 DEF CancelPendingTradeRecord, Row
<1>6. ASSUME NEW a \in Actors, MarkTradeClosed(a)
      PROVE  row'[t].status \in {row[t].status, "CLOSED"}
  BY <1>6 DEF MarkTradeClosed, Row
<1>7. CASE ~RowWrites
  BY <1>7, OthersKeepRows
<1>. QED  BY <1>0, <1>1, <1>2, <1>3, <1>4, <1>5, <1>6, <1>7 DEF RowWrites

\* No step but a restart, a failed statement or the POST itself makes a trade one the
\* job may send for.
LEMMA SendKept ==
  ASSUME Base, Life, OrderInv, [Next]_vars, ~Restart, \A a \in Actors : ~StatementFails(a),
         \A taken \in SUBSET Orders : ~OpenMarketPosition(taken),
         NEW t \in Trades, CanSend(t)'
  PROVE  CanSend(t)
<1>. SUFFICES ASSUME ~CanSend(t) PROVE FALSE
  OBVIOUS
<1>. USE DEF Base, TypeOK
<1>. DEFINE S == Scheduler
            Unsent(r) == r.status = "PENDING" /\ r.order = None
<1>1. /\ row[t].status # "NONE" /\ row'[t].status # "NONE"
      /\ Unsent(row'[t]) => Unsent(row[t])
      /\ Unsent(row[t]) => at[S] = t
      /\ ~Sending(t) /\ ~Unsent(batch[t]) /\ ~Unsent(NoRow)
      /\ S \in Actors
  BY JobRows DEF CanSend, NoRow, Actors
<1>2. Unsent(row'[t]) \/ Unsent(batch'[t]) \/ Sending(t)'
  BY <1>1 DEF CanSend
<1>3. CASE OtherStep
  <2>1. UNCHANGED batch /\ (Sending(t)' <=> Sending(t)) /\ at'[S] = at[S]
    BY <1>3, SchedulerUndisturbed DEF Sending
  <2>2. CanSend(t)' => CanSend(t)
    BY <1>1, <1>3, <2>1, SchedulerUndisturbed DEF CanSend, Sending
  <2>. QED  BY <2>2
<1>4. CASE at[S] = None
  <2>1. ~Unsent(row[t]) /\ ~Unsent(batch'[t])
    BY <1>1, <1>4, NextKnows DEF KnowsRows
  <2>2. Sending(t)' => \E u \in Trades : NextTrade(u)
    <3>1. at[S] = None => pc[S] \in {"idle", "next"}
      BY <1>1 DEF ThreadInv
    <3>2. ~SaveNewTrade /\ ~EntryStep /\ ~SyncOpenTrade /\ ~ConfirmPosition /\ ~ExitRulesDecide
      BY <1>4, <3>1 DEF EntryStep, SaveNewTrade, EntryLookup, EntryWaits, OpenMarketPosition,
         MarkOrderSubmitted, ResolveSubmittedOrder, FetchFilledPosition, ActivateTrade,
         AbandonUnfilledOrder, SyncOpenTrade, ConfirmPosition, ExitRulesDecide
    <3>3. ~CloseStep(S)
      BY <1>4, <3>1 DEF CloseStep, CancelPendingTradeRecord, RequestMarketClose, SaveExitOrder,
         SyncExitOrder, MarkTradeClosed
    <3>4. \/ SyncBrokerState \/ ReviewStalePending
          \/ \E u \in Trades : OpenTradeFromSignal(u) \/ NextTrade(u) \/ ReviewKeeps(u)
          \/ OtherStep
      BY <3>2, <3>3 DEF Next, JobStep, OtherStep, Actors
    <3>5. SyncBrokerState \/ ReviewStalePending => ~Sending(t)'
      BY <1>1 DEF SyncBrokerState, ReviewStalePending, StartPass, Sending
    <3>6. ASSUME NEW u \in Trades, OpenTradeFromSignal(u) \/ ReviewKeeps(u)
          PROVE  ~Sending(t)'
      BY <1>1, <3>6 DEF OpenTradeFromSignal, ReviewKeeps, Sending
    <3>7. OtherStep => ~Sending(t)'
      BY <1>1, SchedulerUndisturbed DEF Sending
    <3>. QED  BY <3>4, <3>5, <3>6, <3>7
  <2>3. ASSUME NEW u \in Trades, NextTrade(u)
        PROVE  ~Sending(t)'
    BY <1>1, <2>3 DEF NextTrade, Entrance, Sending, Active
  <2>. QED  BY <1>1, <1>2, <2>1, <2>2, <2>3
<1>5. CASE at[S] # None /\ ~OtherStep
  <2>0. pc[S] \notin {"idle", "next"} /\ at[S] \in Trades
    BY <1>1, <1>5 DEF ThreadInv
  <2>1. JobStep \/ CloseStep(S)
    BY <1>5, <2>0 DEF Next, OtherStep, Actors, SyncBrokerState, ReviewStalePending, StartPass,
       OpenTradeFromSignal
  <2>2. batch' = batch /\ (Sending(t)' => Sending(t))
    <3>1. CASE EntryStep
      BY <1>1, <1>5, <2>0, <3>1 DEF EntryStep, EntryLookup, EntryWaits, MarkOrderSubmitted,
        ResolveSubmittedOrder, FetchFilledPosition, ActivateTrade, AbandonUnfilledOrder,
        Goto, CancelNext, Done, Sending
    <3>2. CASE CloseStep(S)
      BY <1>1, <3>2 DEF CloseStep, CancelPendingTradeRecord, RequestMarketClose, SaveExitOrder,
         SyncExitOrder, MarkTradeClosed, Goto, Done, Sending
    <3>3. CASE SaveNewTrade \/ SyncOpenTrade \/ ConfirmPosition \/ ExitRulesDecide
      BY <1>1, <3>3 DEF SaveNewTrade, SyncOpenTrade, ConfirmPosition, ExitRulesDecide, Goto, Done,
         Sending
    <3>. QED  BY <2>0, <2>1, <3>1, <3>2, <3>3 DEF JobStep, NextTrade, ReviewKeeps
  <2>3. Unsent(row'[t]) /\ Unsent(row[t]) /\ at[S] = t
    BY <1>1, <1>2, <2>2
  <2>4. pc[S] \notin {"await", "fetch", "abandon", "entry", "decide", "save"}
    BY <1>1, <2>3 DEF OrderInv, Sending, Life, PassInv
  <2>5. pc[S] \notin ExitLabels
    BY <1>1, <2>3 DEF HeldOpen, Life, HeldInv, RowInv
  <2>6. MarkOrderSubmitted \/ ActivateTrade \/ CancelPendingTradeRecord(S)
    BY <2>0, <2>1, <2>4, <2>5 DEF JobStep, EntryStep, CloseStep, ExitLabels, EntryLookup, EntryWaits,
       ResolveSubmittedOrder, FetchFilledPosition, AbandonUnfilledOrder, SyncOpenTrade,
       ConfirmPosition, ExitRulesDecide, RequestMarketClose, SaveExitOrder, SyncExitOrder,
       MarkTradeClosed, SaveNewTrade, NextTrade, ReviewKeeps
  <2>7. CASE MarkOrderSubmitted
    BY <1>1, <2>3, <2>7 DEF MarkOrderSubmitted, ThreadInv, Row
  <2>8. CASE ActivateTrade
    BY <2>3, <2>8 DEF ActivateTrade, Row
  <2>9. CASE CancelPendingTradeRecord(S)
    BY <2>3, <2>9 DEF CancelPendingTradeRecord, Row
  <2>. QED  BY <2>6, <2>7, <2>8, <2>9
<1>. QED  BY <1>3, <1>4, <1>5

\* The POST: the trade was one the job may send for, and is not any more.
LEMMA PostSend ==
  ASSUME Base, Life, OrderInv, NEW taken \in SUBSET Orders, OpenMarketPosition(taken),
         NEW t \in Trades
  PROVE  /\ Own(t)' \subseteq Own(t) \cup (IF t = at[Scheduler] THEN taken ELSE {})
         /\ Sending(at[Scheduler]) /\ at[Scheduler] \in Trades
         /\ t = at[Scheduler] => ~CanSend(t)'
         /\ t # at[Scheduler] /\ CanSend(t)' => CanSend(t)
<1>. DEFINE S == Scheduler
<1>. USE DEF Base, TypeOK
<1>0. row' = row /\ batch' = batch
  BY DEF OpenMarketPosition, table, CancelNext
<1>1. S \in Actors /\ pc[S] = "decide" /\ at[S] \in Trades
  <2>1. S \in Actors /\ pc[S] = "decide"
    BY DEF OpenMarketPosition, Actors
  <2>. QED  BY <2>1 DEF ThreadInv
<1>2. at' = at /\ pc'[S] \in {"submitted", "activateBlind", "cancel"}
  BY <1>1 DEF OpenMarketPosition, CancelNext
<1>3. HeldPending(at[S]) /\ row[at[S]].status # "NONE" /\ ~Active(batch[at[S]])
  BY <1>1 DEF HeldPending, EntryLabels, Life, HeldInv, PassInv
<1>4. t = at[S] => ~CanSend(t)'
  BY <1>0, <1>1, <1>2, <1>3 DEF CanSend, Sending, Active
<1>5. t # at[S] /\ CanSend(t)' => CanSend(t)
  BY <1>0, <1>1, <1>2 DEF CanSend, Sending
<1>6. Own(t)' \subseteq Own(t) \cup (IF t = at[S] THEN taken ELSE {})
  BY <1>1, PostOwner DEF Own
<1>. QED  BY <1>1, <1>4, <1>5, <1>6 DEF Sending

\* The ids lost only grow, with every restart and every failed statement, and with
\* every order but one that a POST leaves.
LEMMA LostGrows ==
  ASSUME Base, [Next]_vars
  PROVE  /\ lost \in Nat /\ lost' \in Nat /\ lost <= lost'
         /\ Restart \/ (\E a \in Actors : StatementFails(a)) => 1 + lost <= lost'
         /\ \A taken \in SUBSET Orders : OpenMarketPosition(taken) =>
              /\ Cardinality(taken) \in Nat
              /\ lost + Cardinality(taken) <= 1 + lost'
<1>0. failures \in Nat /\ lost \in Nat
  BY DEF Base, TypeOK
<1>1. ASSUME NEW taken \in SUBSET Orders, OpenMarketPosition(taken)
      PROVE  /\ lost' \in Nat /\ lost <= lost' /\ Cardinality(taken) \in Nat
             /\ lost + Cardinality(taken) <= 1 + lost'
  BY <1>0, <1>1, TakenCount
<1>2. lost' \in Nat /\ lost <= lost'
  <2>. USE <1>0 DEF used, Fault, Fails, Cut
  <2>1. CASE JobStep
    BY <1>1, <2>1 DEF JobStep, EntryStep, NextTrade, ReviewKeeps, SaveNewTrade,
         EntryLookup, EntryWaits, MarkOrderSubmitted, ResolveSubmittedOrder,
         FetchFilledPosition, ActivateTrade, AbandonUnfilledOrder, SyncOpenTrade, ConfirmPosition,
         ExitRulesDecide
  <2>2. CASE \E a \in Actors : CloseStep(a) \/ StatementFails(a)
    BY <2>2 DEF StatementFails, CloseStep, CancelPendingTradeRecord, RequestMarketClose,
         SaveExitOrder, SyncExitOrder, MarkTradeClosed
  <2>3. CASE Account
    BY <2>3 DEF Account, OrderFills, OrderRefused, PortfolioShows, CloseExecutes, ClosedOnEtoro,
         OpenedOnEtoro
  <2>. QED
    BY <2>1, <2>2, <2>3 DEF Next, vars, SyncBrokerState, ReviewStalePending, StartPass,
         OpenTradeFromSignal, ManualCloseOrCancel, TradeAges, Restart
<1>3. Restart \/ (\E a \in Actors : StatementFails(a)) => 1 + lost <= lost'
  BY <1>0 DEF Restart, StatementFails, Cut
<1>. QED  BY <1>0, <1>1, <1>2, <1>3

LEMMA NextSend == Base /\ Life /\ OrderInv /\ SendInv /\ [Next]_vars => SendInv'
<1>. SUFFICES ASSUME Base, Life, OrderInv, SendInv, [Next]_vars, NEW t \in Trades
              PROVE  /\ AtMost(Own(t), 1 + lost)'
                     /\ CanSend(t)' => AtMost(Own(t), lost)'
  BY DEF SendInv
<1>0. /\ lost \in Nat /\ lost' \in Nat /\ 1 + lost \in Nat /\ 1 + lost' \in Nat
      /\ lost <= lost' /\ 1 + lost <= 1 + lost'
      /\ AtMost(Own(t), 1 + lost)
      /\ CanSend(t) => AtMost(Own(t), lost)
  BY LostGrows DEF SendInv
<1>. SUFFICES AtMost(Own(t)', 1 + lost') /\ (CanSend(t)' => AtMost(Own(t)', lost'))
  BY DEF AtMost
<1>1. CASE Restart \/ \E a \in Actors : StatementFails(a)
  <2>1. Own(t)' = Own(t)
    BY <1>1 DEF Restart, StatementFails, Own, broker
  <2>2. 1 + lost <= lost' /\ 1 + lost <= 1 + lost'
    BY <1>0, <1>1, LostGrows
  <2>. QED  BY <1>0, <2>1, <2>2, AtMostSubset
<1>2. ASSUME NEW taken \in SUBSET Orders, OpenMarketPosition(taken)
      PROVE  AtMost(Own(t)', 1 + lost') /\ (CanSend(t)' => AtMost(Own(t)', lost'))
  <2>1. /\ Own(t)' \subseteq Own(t) \cup (IF t = at[Scheduler] THEN taken ELSE {})
        /\ Sending(at[Scheduler]) /\ (t = at[Scheduler] => ~CanSend(t)')
        /\ t # at[Scheduler] /\ CanSend(t)' => CanSend(t)
    BY <1>2, PostSend
  <2>2. CASE t = at[Scheduler]
    <3>1. AtMost(Own(t), lost) /\ Own(t)' \in SUBSET (Own(t) \cup taken)
      BY <1>0, <2>1, <2>2 DEF CanSend
    <3>2. IsFiniteSet(taken) /\ lost + Cardinality(taken) <= 1 + lost'
      BY <1>2, LostGrows DEF OpenMarketPosition
    <3>3. AtMost(Own(t)', 1 + lost')
      BY <1>0, <3>1, <3>2, AtMostUnion
    <3>. QED  BY <2>1, <2>2, <3>3
  <2>3. CASE t # at[Scheduler]
    <3>1. Own(t)' \in SUBSET Own(t)
      BY <2>1, <2>3
    <3>. QED  BY <1>0, <2>1, <2>3, <3>1, AtMostSubset
  <2>. QED  BY <2>2, <2>3
<1>3. CASE /\ ~Restart /\ \A a \in Actors : ~StatementFails(a)
           /\ \A taken \in SUBSET Orders : ~OpenMarketPosition(taken)
  <2>1. Own(t)' = Own(t)
    BY <1>3, OwnersKept DEF Own
  <2>2. CanSend(t)' => CanSend(t)
    BY <1>3, SendKept
  <2>. QED  BY <1>0, <2>1, <2>2, AtMostSubset
<1>. QED  BY <1>1, <1>2, <1>3

LEMMA SendInvariant == Spec => [](Base /\ Life /\ OrderInv /\ SendInv)
<1>1. Init => SendInv
  <2>1. ASSUME Init, NEW t \in Trades PROVE Own(t) = {} /\ lost = 0
    BY <2>1 DEF Init, Own
  <2>2. AtMost({}, 0) /\ AtMost({}, 1 + 0)
    BY FS_EmptySet DEF AtMost
  <2>. QED  BY <2>1, <2>2 DEF SendInv
<1>. QED  BY <1>1, OrderInvariant, NextSend, PTL DEF Spec

\* A trade has one entry order, and one more at most for each time an id was lost:
\* by a restart or a failed UPDATE of order_id after the POST, or by an attempt of
\* the POST that failed when the account does not honour the request id.  Nothing
\* operators do, and no other failure, makes the program buy twice for a trade.
THEOREM EntryOrdersAreBounded == Spec => []EntryOrdersBounded
<1>1. SendInv => EntryOrdersBounded
  BY DEF SendInv, EntryOrdersBounded, AtMost, Own
<1>. QED  BY <1>1, SendInvariant, PTL

-----------------------------------------------------------------------------
(* Clean cancels.  A row carries ENTRY_TIMEOUT or ENTRY_REJECTED only from *)
(* the job's own cancel on: nobody holds it as pending any more, and what  *)
(* its orders leave exposed at the account can only shrink.                *)

CleanReasons == {"ENTRY_TIMEOUT", "ENTRY_REJECTED"}

CleanInv ==
  /\ \A t \in Trades : row[t].reason \in CleanReasons =>
       row[t].status = "CANCELLED" /\ ~HeldPending(t) /\ AtMost(Exposed(t), lost)
  /\ pc[Scheduler] = "cancel" /\ why[Scheduler] \in CleanReasons =>
       AtMost(Exposed(at[Scheduler]), lost)
  /\ \A a \in Operators : pc[a] = "cancel" => why[a] \notin CleanReasons

LEMMA ExposedShrinks ==
  ASSUME Base, Life, OrderInv, [Next]_vars, NEW t \in Trades,
         at[Scheduler] = t => \A taken \in SUBSET Orders : ~OpenMarketPosition(taken)
  PROVE  Exposed(t)' \subseteq Exposed(t)
<1>. USE DEF Base, TypeOK
<1>1. ASSUME NEW taken \in SUBSET Orders, OpenMarketPosition(taken)
      PROVE  Exposed(t)' \subseteq Exposed(t)
  <2>1. pc[Scheduler] = "decide" /\ position' = position
    BY <1>1 DEF OpenMarketPosition
  <2>2. at[Scheduler] # t /\ at[Scheduler] \in Trades
    BY <1>1, <2>1 DEF ThreadInv, Actors
  <2>. QED  BY <1>1, <2>1, <2>2, PostOwner DEF Exposed
<1>2. CASE \A taken \in SUBSET Orders : ~OpenMarketPosition(taken)
  BY <1>2, AccountKept, OwnersKept DEF Exposed
<1>. QED  BY <1>1, <1>2

\* Only a row that is PENDING comes to be held as pending.
LEMMA HeldGrows ==
  ASSUME Base, Life, [Next]_vars, NEW t \in Trades, HeldPending(t)'
  PROVE  HeldPending(t) \/ row[t].status = "PENDING"
<1>. USE DEF Base, TypeOK
<1>. DEFINE S == Scheduler
            Inside == at'[S] = t /\ pc'[S] \in EntryLabels \cup {"cancel"}
<1>0. S \in Actors /\ (at[S] = None <=> pc[S] \in {"idle", "next"})
  BY DEF ThreadInv, Actors
<1>1. CASE batch'[t].status = "PENDING"
  BY <1>1, NextKnows DEF KnowsRows, HeldPending, NoRow
<1>2. CASE Inside
  <2>1. CASE OtherStep
    BY <1>2, <2>1, SchedulerUndisturbed DEF HeldPending
  <2>2. ASSUME NEW u \in Trades, NextTrade(u)
        PROVE  batch[t].status = "PENDING"
    <3>1. u = t /\ Active(batch[t])
      BY <1>0, <1>2, <2>2 DEF NextTrade
    <3>2. CASE job = "review"
      BY <3>1, <3>2 DEF Life, PassInv, Active
    <3>3. CASE job = "sync"
      <4>1. pc'[S] = Entrance(batch[t])
        BY <1>0, <2>2, <3>1, <3>3 DEF NextTrade
      <4>. QED  BY <1>2, <4>1 DEF Entrance, EntryLabels
    <3>. QED  BY <2>2, <3>2, <3>3 DEF NextTrade
  <2>3. CASE Done(S) \/ StatementFails(S)
    BY <1>0, <1>2, <2>3 DEF Done, StatementFails
  <2>4. CASE EntryStep /\ ~Done(S)
    <3>1. at' = at /\ pc[S] \in EntryLabels
      BY <2>4 DEF EntryStep, EntryLookup, EntryWaits, OpenMarketPosition, MarkOrderSubmitted,
        ResolveSubmittedOrder, FetchFilledPosition, ActivateTrade, AbandonUnfilledOrder,
        Goto, CancelNext, EntryLabels
    <3>. QED  BY <1>2, <3>1 DEF HeldPending
  <2>5. CASE SaveNewTrade \/ SyncOpenTrade \/ ConfirmPosition \/ ExitRulesDecide \/ CloseStep(S)
    <3>1. ~Done(S) => at' = at /\ pc'[S] \in ExitLabels
      BY <1>0, <2>5 DEF SaveNewTrade, SyncOpenTrade, ConfirmPosition, ExitRulesDecide, CloseStep,
         CancelPendingTradeRecord, RequestMarketClose, SaveExitOrder, SyncExitOrder,
         MarkTradeClosed, Goto, ExitLabels
    <3>. QED  BY <1>2, <2>3, <3>1 DEF EntryLabels, ExitLabels
  <2>6. CASE SyncBrokerState \/ ReviewStalePending \/ Restart
    BY <1>0, <1>2, <2>6 DEF SyncBrokerState, ReviewStalePending, StartPass, Restart, EntryLabels
  <2>7. ASSUME NEW u \in Trades, OpenTradeFromSignal(u) \/ ReviewKeeps(u)
        PROVE  FALSE
    BY <1>0, <1>2, <2>7 DEF OpenTradeFromSignal, ReviewKeeps, EntryLabels
  <2>. QED  BY <2>1, <2>2, <2>3, <2>4, <2>5, <2>6, <2>7
            DEF Next, JobStep, OtherStep, Actors, HeldPending
<1>. QED  BY <1>1, <1>2 DEF HeldPending

\* When a row's reason changes, it is a cancel that writes it.
LEMMA ReasonsKept ==
  ASSUME Base, Life, OrderInv, [Next]_vars, NEW t \in Trades, row'[t].reason \in CleanReasons
  PROVE  \/ /\ row'[t].reason = row[t].reason
            /\ \/ row'[t].status = row[t].status
               \/ pc[Scheduler] \in {"activate", "activateBlind"} /\ at[Scheduler] = t
         \/ \E a \in Actors : /\ CancelPendingTradeRecord(a) /\ at[a] = t
                              /\ row'[t].status = "CANCELLED" /\ row'[t].reason = why[a]
<1>. USE DEF Base, TypeOK
<1>1. CASE SaveNewTrade
  BY <1>1, NullAssumption DEF SaveNewTrade, NoRow, CleanReasons, Reasons
<1>2. CASE MarkOrderSubmitted
  BY <1>2 DEF MarkOrderSubmitted, Row
<1>3. CASE ConfirmPosition
  BY <1>3 DEF ConfirmPosition, Row
<1>4. CASE ActivateTrade
  BY <1>4 DEF ActivateTrade, Row
<1>5. ASSUME NEW a \in Actors, SaveExitOrder(a)
      PROVE  row'[t].reason = row[t].reason /\ row'[t].status = row[t].status
  <2>1. PICK v \in BOOLEAN : row' = [row EXCEPT ![at[a]] = [@ EXCEPT !.exit = v]]
    BY <1>5 DEF SaveExitOrder
  <2>. QED  BY <2>1 DEF Row
<1>6. ASSUME NEW a \in Actors, MarkTradeClosed(a)
      PROVE  row'[t] = row[t]
  <2>1. row'[t] = row[t] \/ row'[t].reason = None
    BY <1>6 DEF MarkTradeClosed, Row
  <2>. QED  BY <2>1, NullAssumption DEF CleanReasons, Reasons
<1>7. ASSUME NEW a \in Actors, CancelPendingTradeRecord(a)
      PROVE  \/ row'[t] = row[t]
             \/ at[a] = t /\ row'[t].status = "CANCELLED" /\ row'[t].reason = why[a]
  BY <1>7 DEF CancelPendingTradeRecord, Row
<1>8. CASE ~RowWrites
  BY <1>8, OthersKeepRows
<1>. QED  BY <1>1, <1>2, <1>3, <1>4, <1>5, <1>6, <1>7, <1>8 DEF RowWrites

\* How the job comes to cancel a trade as timed out or rejected.
LEMMA CancelsClean ==
  ASSUME Base, Life, OrderInv, SendInv, CleanInv, [Next]_vars,
         pc'[Scheduler] = "cancel", why'[Scheduler] \in CleanReasons
  PROVE  /\ at'[Scheduler] = at[Scheduler] /\ AtMost(Exposed(at[Scheduler]), lost)
         /\ \A taken \in SUBSET Orders : ~OpenMarketPosition(taken)
<1>. USE DEF Base, TypeOK
<1>. DEFINE S == Scheduler
            Already == /\ pc[S] = "cancel" /\ why[S] \in CleanReasons /\ at'[S] = at[S]
<1>0. S \in Actors /\ (at[S] = None <=> pc[S] \in {"idle", "next"}) /\ lost \in Nat
  BY LostGrows DEF ThreadInv, Actors
<1>1. ASSUME NEW taken \in SUBSET Orders, OpenMarketPosition(taken)
      PROVE  FALSE
  BY <1>0, <1>1 DEF OpenMarketPosition, CancelNext, CleanReasons
<1>. SUFFICES at'[S] = at[S] /\ AtMost(Exposed(at[S]), lost)
  BY <1>1
<1>2. CASE Already
  BY <1>2 DEF CleanInv
<1>3. CASE EntryWaits
  <2>1. pc[S] = "decide" /\ at[S] \in Trades /\ at' = at
    BY <1>0, <1>3 DEF EntryWaits, CancelNext, Done
  <2>2. AtMost(Own(at[S]), lost)
    BY <2>1 DEF SendInv, CanSend, Sending
  <2>3. Exposed(at[S]) \in SUBSET Own(at[S])
    BY DEF Exposed, Own
  <2>. QED  BY <1>0, <2>1, <2>2, <2>3, AtMostSubset
<1>4. CASE ResolveSubmittedOrder
  <2>1. /\ pc[S] = "await" /\ at[S] \in Trades
        /\ seen[S].order \in Orders /\ owner[seen[S].order] = at[S]
    BY <1>0, <1>4 DEF ResolveSubmittedOrder, OrderInv, Row
  <2>2. at' = at /\ order[seen[S].order] = "refused"
    BY <1>0, <1>4 DEF ResolveSubmittedOrder, Refused, CancelNext, Goto, Done
  <2>3. seen[S].order \in Own(at[S]) /\ Exposed(at[S]) \in SUBSET (Own(at[S]) \ {seen[S].order})
    BY <2>1, <2>2 DEF Own, Exposed, OrderInv
  <2>4. AtMost(Own(at[S]), lost + 1)
    BY <1>0, <2>1 DEF SendInv
  <2>. QED  BY <1>0, <2>2, <2>3, <2>4, AtMostMinusOne
<1>5. CASE OtherStep
  BY <1>2, <1>5, SchedulerUndisturbed
<1>6. ASSUME NEW t \in Trades, NextTrade(t) \/ OpenTradeFromSignal(t) \/ ReviewKeeps(t)
      PROVE  FALSE
  <2>1. CASE NextTrade(t)
    BY <1>0, <2>1 DEF NextTrade, Entrance, CleanReasons
  <2>2. CASE OpenTradeFromSignal(t) \/ ReviewKeeps(t)
    BY <1>0, <2>2 DEF OpenTradeFromSignal, ReviewKeeps
  <2>. QED  BY <1>6, <2>1, <2>2
<1>7. CASE SyncBrokerState \/ ReviewStalePending \/ Restart
  BY <1>0, <1>7 DEF SyncBrokerState, ReviewStalePending, StartPass, Restart
<1>8. CASE AbandonUnfilledOrder
  BY <1>0, <1>8 DEF AbandonUnfilledOrder, CancelNext, CleanReasons
<1>9. CASE EntryLookup \/ MarkOrderSubmitted \/ FetchFilledPosition \/ ActivateTrade \/ SaveNewTrade
  BY <1>0, <1>9 DEF EntryLookup, MarkOrderSubmitted, FetchFilledPosition, ActivateTrade,
     SaveNewTrade, Goto, Done
<1>10. CASE SyncOpenTrade \/ ConfirmPosition \/ ExitRulesDecide
  BY <1>0, <1>10 DEF SyncOpenTrade, ConfirmPosition, ExitRulesDecide, Goto, Done
<1>11. CASE CloseStep(S)
  BY <1>0, <1>11 DEF CloseStep, CancelPendingTradeRecord, RequestMarketClose, SaveExitOrder,
     SyncExitOrder, MarkTradeClosed, Goto, Done
<1>12. CASE StatementFails(S)
  BY <1>0, <1>12 DEF StatementFails, Done
<1>. QED  BY <1>3, <1>4, <1>5, <1>6, <1>7, <1>1, <1>8, <1>9, <1>10, <1>11, <1>12
          DEF Next, JobStep, EntryStep, OtherStep, Actors

\* Operators cancel with a reason of their own.
LEMMA OperatorsCancel ==
  ASSUME Base, CleanInv, [Next]_vars, NEW a \in Operators, pc'[a] = "cancel"
  PROVE  why'[a] \notin CleanReasons
<1>. USE DEF Base, TypeOK
<1>0. a \in Actors /\ Scheduler \in Actors /\ a # Scheduler
  BY DEF Actors
<1>1. CASE pc[a] = "cancel" /\ why'[a] = why[a]
  BY <1>1 DEF CleanInv
<1>2. CASE JobStep
  <2>1. pc'[a] = pc[a] /\ why'[a] = why[a]
    <3>1. CASE EntryStep
      BY <1>0, <3>1 DEF EntryStep, EntryLookup, EntryWaits, OpenMarketPosition, MarkOrderSubmitted,
        ResolveSubmittedOrder, FetchFilledPosition, ActivateTrade, AbandonUnfilledOrder,
        Goto, CancelNext, Done
    <3>2. CASE SaveNewTrade \/ SyncOpenTrade \/ ConfirmPosition \/ ExitRulesDecide
      BY <1>0, <3>2 DEF SaveNewTrade, SyncOpenTrade, ConfirmPosition, ExitRulesDecide, Goto, Done
    <3>3. ASSUME NEW t \in Trades, NextTrade(t) \/ ReviewKeeps(t)
          PROVE  pc'[a] = pc[a] /\ why'[a] = why[a]
      BY <1>0, <3>3 DEF NextTrade, ReviewKeeps
    <3>. QED  BY <1>2, <3>1, <3>2, <3>3 DEF JobStep
  <2>. QED  BY <1>1, <2>1
<1>3. ASSUME NEW b \in Actors, CloseStep(b) \/ StatementFails(b)
      PROVE  pc'[a] = "cancel" => pc[a] = "cancel" /\ why'[a] = why[a]
  BY <1>0, <1>3 DEF StatementFails, CloseStep, CancelPendingTradeRecord, RequestMarketClose, SaveExitOrder,
     SyncExitOrder, MarkTradeClosed, Goto, Done
<1>4. ASSUME NEW b \in Operators, NEW t \in Trades, ManualCloseOrCancel(b, t)
      PROVE  \/ why'[a] \notin CleanReasons
             \/ pc'[a] = pc[a] /\ why'[a] = why[a]
  BY <1>0, <1>4 DEF ManualCloseOrCancel, CleanReasons, Actors
<1>5. CASE SyncBrokerState \/ ReviewStalePending \/ Restart
  BY <1>0, <1>1, <1>5 DEF SyncBrokerState, ReviewStalePending, StartPass, Restart
<1>6. ASSUME NEW t \in Trades, OpenTradeFromSignal(t)
      PROVE  pc'[a] = pc[a] /\ why'[a] = why[a]
  BY <1>0, <1>6 DEF OpenTradeFromSignal
<1>7. CASE Account \/ (\E t \in Trades : TradeAges(t)) \/ UNCHANGED vars
  BY <1>1, <1>7 DEF Account, OrderFills, OrderRefused, PortfolioShows, CloseExecutes, ClosedOnEtoro,
              OpenedOnEtoro, TradeAges, vars, thread
<1>. QED  BY <1>1, <1>2, <1>3, <1>4, <1>5, <1>6, <1>7 DEF Next

LEMMA NextClean ==
  Base /\ Life /\ OrderInv /\ SendInv /\ CleanInv /\ [Next]_vars => CleanInv'
<1>. SUFFICES ASSUME Base, Life, OrderInv, SendInv, CleanInv, [Next]_vars PROVE CleanInv'
  OBVIOUS
<1>0. lost \in Nat /\ lost' \in Nat /\ lost <= lost' /\ Scheduler \in Actors
  BY LostGrows DEF Actors
<1>1. ASSUME NEW S, AtMost(S, lost), NEW T \in SUBSET S
      PROVE  AtMost(T, lost')
  BY <1>0, <1>1, AtMostSubset
<1>2. ASSUME NEW t \in Trades, row'[t].reason \in CleanReasons
      PROVE  row'[t].status = "CANCELLED" /\ ~HeldPending(t)' /\ AtMost(Exposed(t)', lost')
  <2>1. CASE row'[t].reason = row[t].reason
             /\ ~ \E a \in Actors : /\ CancelPendingTradeRecord(a) /\ at[a] = t
                                    /\ row'[t].status = "CANCELLED" /\ row'[t].reason = why[a]
    <3>1. row[t].status = "CANCELLED" /\ ~HeldPending(t) /\ AtMost(Exposed(t), lost)
      BY <1>2, <2>1 DEF CleanInv
    <3>2. ~HeldPending(t)'
      BY <3>1, HeldGrows
    <3>3. ~(at[Scheduler] = t /\ pc[Scheduler] \in {"activate", "activateBlind", "decide"})
      BY <3>1 DEF HeldPending, EntryLabels
    <3>4. row'[t].status = "CANCELLED"
      BY <1>2, <2>1, <3>1, <3>3, ReasonsKept
    <3>5. Exposed(t)' \in SUBSET Exposed(t)
      BY <3>3, ExposedShrinks DEF OpenMarketPosition
    <3>. QED  BY <1>1, <3>1, <3>2, <3>4, <3>5
  <2>2. ASSUME NEW a \in Actors, CancelPendingTradeRecord(a), at[a] = t,
               row'[t].status = "CANCELLED", row'[t].reason = why[a]
        PROVE  row'[t].status = "CANCELLED" /\ ~HeldPending(t)' /\ AtMost(Exposed(t)', lost')
    <3>1. a = Scheduler /\ pc[a] = "cancel" /\ Done(a)
      BY <1>2, <2>2 DEF CancelPendingTradeRecord, CleanInv, Actors
    <3>2. AtMost(Exposed(t), lost) /\ ~HeldPending(t)'
      BY <1>2, <2>2, <3>1, DoneHolds DEF CleanInv
    <3>3. Exposed(t)' \in SUBSET Exposed(t)
      BY <3>1, ExposedShrinks DEF OpenMarketPosition
    <3>. QED  BY <1>1, <2>2, <3>2, <3>3
  <2>. QED  BY <1>2, <2>1, <2>2, ReasonsKept
<1>3. pc'[Scheduler] = "cancel" /\ why'[Scheduler] \in CleanReasons =>
        AtMost(Exposed(at[Scheduler])', lost')
  <2>. SUFFICES ASSUME pc'[Scheduler] = "cancel", why'[Scheduler] \in CleanReasons
                PROVE  AtMost(Exposed(at[Scheduler])', lost')
    OBVIOUS
  <2>1. /\ at'[Scheduler] = at[Scheduler] /\ AtMost(Exposed(at[Scheduler]), lost)
        /\ \A taken \in SUBSET Orders : ~OpenMarketPosition(taken)
    BY CancelsClean
  <2>2. at[Scheduler] \in Trades
    <3>1. Base'
      BY NextBase
    <3>2. at'[Scheduler] \in Trades
      BY <1>0, <3>1 DEF Base, TypeOK, ThreadInv
    <3>. QED  BY <2>1, <3>2
  <2>3. PICK t \in Trades : t = at[Scheduler]
    BY <2>2
  <2>4. Exposed(t)' \in SUBSET Exposed(t)
    BY <2>1, ExposedShrinks
  <2>. QED  BY <1>1, <2>1, <2>3, <2>4
<1>4. \A a \in Operators : pc'[a] = "cancel" => why'[a] \notin CleanReasons
  BY OperatorsCancel
<1>. QED  BY <1>2, <1>3, <1>4 DEF CleanInv, AtMost

LEMMA CleanInvariant == Spec => [](Base /\ Life /\ OrderInv /\ SendInv /\ CleanInv)
<1>1. Init => CleanInv
  BY NullAssumption DEF Init, CleanInv, NoRow, CleanReasons, Reasons, Actors
<1>. QED  BY <1>1, SendInvariant, NextClean, PTL DEF Spec

\* A row cancelled because its window passed or because the broker refused the
\* order leaves nothing working or held at the account but orders whose ids were lost.
THEOREM CancelsAreClean == Spec => []CleanCancel
<1>1. Base /\ CleanInv => CleanCancel
  BY DEF CleanInv, CleanCancel, CleanReasons, AtMost
<1>. QED  BY <1>1, CleanInvariant, PTL
=============================================================================

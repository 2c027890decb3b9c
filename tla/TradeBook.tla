------------------------------ MODULE TradeBook ------------------------------
(***************************************************************************)
(* What the trades table promises, without the account, the threads or the *)
(* rows they hold: the lifecycle of README.md (Stato e segnali), and what  *)
(* is left of it when an API request and a job act on the same trade.      *)
(***************************************************************************)
CONSTANTS
  Trades,
  SymbolOf,
  StaleWrites   \* BOOLEAN: may a thread write from a row that is no longer current?

VARIABLE status

Active(t) == status[t] \in {"PENDING", "OPEN"}

FreeSymbol(t) ==
  \A u \in Trades \ {t} : Active(u) => SymbolOf[u] # SymbolOf[t]

Init == status = [t \in Trades |-> "NONE"]

Move(t, from, to) == status[t] = from /\ status' = [status EXCEPT ![t] = to]

Propose(t) == FreeSymbol(t) /\ Move(t, "NONE", "PENDING")
Fill(t)    == Move(t, "PENDING", "OPEN")
Drop(t)    == Move(t, "PENDING", "CANCELLED")
Close(t)   == Move(t, "OPEN", "CLOSED")

\* The job fills a trade that an operator cancelled under it, or closes one
\* that an operator's late cancel has overwritten; a late cancel overwrites
\* whatever the trade has become.  Nothing else is possible.
Revive(t)    == FreeSymbol(t) /\ Move(t, "CANCELLED", "OPEN")
LateClose(t) == Move(t, "CANCELLED", "CLOSED")
LateDrop(t)  == Move(t, "OPEN", "CANCELLED") \/ Move(t, "CLOSED", "CANCELLED")

Next ==
  \E t \in Trades :
    \/ Propose(t) \/ Fill(t) \/ Drop(t) \/ Close(t)
    \/ StaleWrites /\ (Revive(t) \/ LateClose(t) \/ LateDrop(t))

Spec == Init /\ [][Next]_status
=============================================================================

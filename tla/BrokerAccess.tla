------------------------------ MODULE BrokerAccess ------------------------------
(***************************************************************************)
(* How the threads of the process reach the outside for data, under its    *)
(* limits of time: the rate limiter (clients/etoro_rate_limiter.py), the   *)
(* retried requests of the REST client (clients/etoro_client.py, retry of  *)
(* core/utils.py), the snapshot the dashboard shares                       *)
(* (services/live_snapshot.py) and the cache of the exchange rate          *)
(* (core/fx.py).                                                           *)
(*                                                                         *)
(* The code stores readings of the monotonic clock and compares            *)
(* differences with a limit; the model stores the differences, the ages,   *)
(* and counts each up to the limit it is compared with.  Between two steps *)
(* of a thread any time may pass.                                          *)
(***************************************************************************)
EXTENDS Naturals, Sequences

CONSTANTS
  Threads,
  MaxCalls, Period,   \* the limiter: at most MaxCalls acquisitions per Period
  MaxAttempts,        \* tries of a request
  Delay,              \* Delay[n]: the pause after the n-th failed try
  SnapshotTtl,        \* how long a snapshot is served
  RateTtl, FailTtl,   \* how long a rate, and a failure to fetch one, are remembered
  Rates,              \* rates of the one pair of currencies
  None

Kinds     == {"get", "order", "rates", "portfolio"}
Labels    == {"idle", "limiter", "sleep", "send", "backoff", "lock", "rate", "fetch"}
Snapshots == [age : 0..SnapshotTtl, quoted : 0..SnapshotTtl \cup {None}]
CachedFx  == [ok : BOOLEAN, rate : Rates \cup {None}, age : 0..RateTtl]

ASSUME LimitAssumption ==
  /\ MaxCalls \in Nat \ {0} /\ Period \in Nat \ {0} /\ MaxAttempts \in Nat \ {0}
  /\ Delay \in [1..(MaxAttempts - 1) -> Nat]
  /\ SnapshotTtl \in Nat /\ RateTtl \in Nat /\ FailTtl \in 0..RateTtl
  /\ None \notin Threads /\ None \notin Rates /\ None \notin Nat
  /\ None \notin Snapshots /\ None \notin CachedFx

VARIABLES
  calls,     \* the limiter's deque: the ages of its acquisitions, the oldest first
  gate,      \* the thread that sleeps with the limiter's lock, or None
  builder,   \* the thread that holds the snapshot's lock, or None
  built,     \* the rebuild: the age of its start, and of the prices it has read
  cached,    \* the snapshot that is served, likewise, or None
  fx,        \* the cached rate (the last good one if it is not ok), or None
  pc,        \* where each thread is
  kind,      \* what its request is for
  attempt,   \* the try its request is in
  wait,      \* how long it still sleeps
  asked,     \* the age of its reading of the clock in get_rate
  log        \* the ages of the last MaxCalls + 1 acquisitions (see WindowBounded)

limiter  == <<calls, gate, log>>
snapshot == <<builder, built, cached>>
request  == <<kind, attempt, wait>>
vars     == <<limiter, snapshot, fx, pc, request, asked>>

TypeOK ==
  /\ calls \in Seq(0..Period) /\ gate \in Threads \cup {None}
  /\ log \in Seq(0..Period) /\ Len(log) <= MaxCalls + 1
  /\ builder \in Threads \cup {None} /\ built \in Snapshots
  /\ cached \in Snapshots \cup {None}
  /\ fx \in CachedFx \cup {None}
  /\ pc \in [Threads -> Labels] /\ kind \in [Threads -> Kinds]
  /\ attempt \in [Threads -> 1..MaxAttempts] /\ wait \in [Threads -> Nat]
  /\ asked \in [Threads -> 0..RateTtl]

Goto(t, label) == pc' = [pc EXCEPT ![t] = label]

-----------------------------------------------------------------------------
(* Time.                                                                   *)

Older(age, limit) == IF age < limit THEN age + 1 ELSE limit
OlderSnapshot(s) ==
  [age    |-> Older(s.age, SnapshotTtl),
   quoted |-> IF s.quoted = None THEN None ELSE Older(s.quoted, SnapshotTtl)]

Tick ==
  /\ calls' = [i \in 1..Len(calls) |-> Older(calls[i], Period)]
  /\ log' = [i \in 1..Len(log) |-> Older(log[i], Period)]
  /\ built' = OlderSnapshot(built)
  /\ cached' = IF cached = None THEN None ELSE OlderSnapshot(cached)
  /\ fx' = IF fx = None THEN None ELSE [fx EXCEPT !.age = Older(fx.age, RateTtl)]
  /\ wait' = [t \in Threads |-> IF wait[t] > 0 THEN wait[t] - 1 ELSE 0]
  /\ asked' = [t \in Threads |-> IF pc[t] = "fetch" THEN Older(asked[t], RateTtl) ELSE 0]
  /\ UNCHANGED <<gate, builder, pc, kind, attempt>>

-----------------------------------------------------------------------------
(* RateLimiter.acquire: a thread that must wait sleeps with the lock held. *)

Logged ==
  log' = IF Len(log) <= MaxCalls THEN Append(log, 0) ELSE Append(Tail(log), 0)

\* _evict drops the first n acquisitions.
Evicts(n) ==
  /\ \A i \in 1..n : calls[i] >= Period
  /\ n < Len(calls) => calls[n + 1] < Period
Kept(n) == SubSeq(calls, n + 1, Len(calls))

\* (mutant) One acquisition too many.
RoomForOneMore(s) == Len(s) <= MaxCalls

Room(s) == Len(s) < MaxCalls

Acquire(t) ==
  /\ pc[t] = "limiter" /\ gate = None
  /\ \E n \in 0..Len(calls) :
       Evicts(n) /\ Room(Kept(n)) /\ calls' = Append(Kept(n), 0)
  /\ Logged
  /\ Goto(t, "send")
  /\ UNCHANGED <<gate, snapshot, fx, request, asked>>

MustWait(t) ==
  /\ pc[t] = "limiter" /\ gate = None
  /\ \E n \in 0..Len(calls) :
       /\ Evicts(n) /\ ~Room(Kept(n))
       /\ calls' = Kept(n)
       /\ wait' = [wait EXCEPT ![t] = Period - Kept(n)[1]]
  /\ gate' = t
  /\ Goto(t, "sleep")
  /\ UNCHANGED <<log, snapshot, fx, kind, attempt, asked>>

Slept(t) ==
  /\ pc[t] = "sleep" /\ wait[t] = 0
  /\ \E n \in 0..Len(calls) : Evicts(n) /\ calls' = Append(Kept(n), 0)
  /\ Logged
  /\ gate' = None
  /\ Goto(t, "send")
  /\ UNCHANGED <<snapshot, fx, request, asked>>

-----------------------------------------------------------------------------
(* Requests, retried: only GETs pass the limiter, each try anew.           *)

Enter(t, k) == Goto(t, IF k = "order" THEN "send" ELSE "limiter")

Begin(t, k) ==
  /\ kind' = [kind EXCEPT ![t] = k]
  /\ attempt' = [attempt EXCEPT ![t] = 1]
  /\ Enter(t, k)
  /\ UNCHANGED wait

Leave(t) ==
  /\ kind' = [kind EXCEPT ![t] = "get"]
  /\ attempt' = [attempt EXCEPT ![t] = 1]
  /\ Goto(t, "idle")

\* A thread of the jobs or the API asks for data, or places an order.
StartRequest(t) ==
  /\ pc[t] = "idle"
  /\ \E k \in {"get", "order"} : Begin(t, k)
  /\ UNCHANGED <<limiter, snapshot, fx, asked>>

\* (mutant) The age of the snapshot counts from the end of its build.
StampAtEnd(s) == [s EXCEPT !.age = 0]

Stamp(s) == s

\* The request is over, by an answer or an error: its caller goes on.  The
\* builder of a snapshot swallows errors, and goes on to its second request.
Return(t, ok) ==
  \/ /\ kind[t] \in {"get", "order"}
     /\ Leave(t)
     /\ UNCHANGED <<snapshot, wait>>
  \/ /\ kind[t] = "rates"
     /\ built' = [built EXCEPT !.quoted = IF ok THEN 0 ELSE None]
     /\ Begin(t, "portfolio")
     /\ UNCHANGED <<builder, cached>>
  \/ /\ kind[t] = "portfolio"
     /\ cached' = Stamp(built)
     /\ builder' = None
     /\ Leave(t)
     /\ UNCHANGED <<built, wait>>

\* The broker answers, or refuses for good (4xx); a 404 may stand for "none".
Answered(t) ==
  /\ pc[t] = "send"
  /\ \E ok \in BOOLEAN : Return(t, ok)
  /\ UNCHANGED <<limiter, fx, asked>>

LastTry(t) == attempt[t] = MaxAttempts

\* (mutant) One try more than allowed.
FailedOnceMore(t) ==
  /\ pc[t] = "send"
  /\ \/ /\ attempt[t] <= MaxAttempts
        /\ attempt' = [attempt EXCEPT ![t] = @ + 1]
        /\ wait' = [wait EXCEPT ![t] = 1]
        /\ Goto(t, "backoff")
        /\ UNCHANGED <<kind, snapshot>>
     \/ attempt[t] > MaxAttempts /\ Return(t, FALSE)
  /\ UNCHANGED <<limiter, fx, asked>>

\* A timeout, a broken connection or a 5xx: pause and try again, or give up.
Failed(t) ==
  /\ pc[t] = "send"
  /\ \/ /\ ~LastTry(t)
        /\ attempt' = [attempt EXCEPT ![t] = @ + 1]
        /\ wait' = [wait EXCEPT ![t] = Delay[attempt[t]]]
        /\ Goto(t, "backoff")
        /\ UNCHANGED <<kind, snapshot>>
     \/ LastTry(t) /\ Return(t, FALSE)
  /\ UNCHANGED <<limiter, fx, asked>>

TryAgain(t) ==
  /\ pc[t] = "backoff" /\ wait[t] = 0
  /\ Enter(t, kind[t])
  /\ UNCHANGED <<limiter, snapshot, fx, request, asked>>

-----------------------------------------------------------------------------
(* LiveSnapshotCache.get_snapshot: the lock is held for the whole rebuild. *)

View(t) ==
  /\ pc[t] = "idle"
  /\ Goto(t, "lock")
  /\ UNCHANGED <<limiter, snapshot, fx, request, asked>>

IsFresh == cached # None /\ cached.age < SnapshotTtl

ServeCached(t) ==
  /\ pc[t] = "lock" /\ builder = None /\ IsFresh
  /\ Goto(t, "idle")
  /\ UNCHANGED <<limiter, snapshot, fx, request, asked>>

\* Prices are asked for when a trade is open.
Rebuild(t) ==
  /\ pc[t] = "lock" /\ builder = None /\ ~IsFresh
  /\ builder' = t
  /\ built' = [age |-> 0, quoted |-> None]
  /\ \E k \in {"rates", "portfolio"} : Begin(t, k)
  /\ UNCHANGED <<limiter, cached, fx, asked>>

\* Reading the trades fails before the broker is asked.
RebuildFails(t) ==
  /\ pc[t] = "lock" /\ builder = None /\ ~IsFresh
  /\ Goto(t, "idle")
  /\ UNCHANGED <<limiter, snapshot, fx, request, asked>>

-----------------------------------------------------------------------------
(* get_rate: the cache's lock is free while the providers are asked.       *)

Convert(t) ==
  /\ pc[t] = "idle"
  /\ Goto(t, "rate")
  /\ UNCHANGED <<limiter, snapshot, fx, request, asked>>

IsRemembered == fx # None /\ fx.age < (IF fx.ok THEN RateTtl ELSE FailTtl)

UseCachedRate(t) ==
  /\ pc[t] = "rate" /\ IsRemembered
  /\ Goto(t, "idle")
  /\ UNCHANGED <<limiter, snapshot, fx, request, asked>>

AskProviders(t) ==
  /\ pc[t] = "rate" /\ ~IsRemembered
  /\ asked' = [asked EXCEPT ![t] = 0]
  /\ Goto(t, "fetch")
  /\ UNCHANGED <<limiter, snapshot, fx, request>>

RateFetched(t) ==
  /\ pc[t] = "fetch"
  /\ \E r \in Rates : fx' = [ok |-> TRUE, rate |-> r, age |-> asked[t]]
  /\ Goto(t, "idle")
  /\ UNCHANGED <<limiter, snapshot, request, asked>>

\* No provider has a rate: the one before is carried on if it was good.
RateMissed(t) ==
  /\ pc[t] = "fetch"
  /\ fx' = [ok   |-> FALSE,
            rate |-> IF fx # None /\ fx.ok THEN fx.rate ELSE None,
            age  |-> asked[t]]
  /\ Goto(t, "idle")
  /\ UNCHANGED <<limiter, snapshot, request, asked>>

-----------------------------------------------------------------------------
Init ==
  /\ calls = <<>> /\ gate = None /\ log = <<>>
  /\ builder = None /\ built = [age |-> SnapshotTtl, quoted |-> None] /\ cached = None
  /\ fx = None
  /\ pc = [t \in Threads |-> "idle"] /\ kind = [t \in Threads |-> "get"]
  /\ attempt = [t \in Threads |-> 1] /\ wait = [t \in Threads |-> 0]
  /\ asked = [t \in Threads |-> 0]

BrokerStep(t) ==
  \/ StartRequest(t) \/ Acquire(t) \/ MustWait(t) \/ Slept(t)
  \/ Answered(t) \/ Failed(t) \/ TryAgain(t)
SnapshotStep(t) == View(t) \/ ServeCached(t) \/ Rebuild(t) \/ RebuildFails(t)
RateStep(t) ==
  Convert(t) \/ UseCachedRate(t) \/ AskProviders(t) \/ RateFetched(t) \/ RateMissed(t)

Next == Tick \/ \E t \in Threads : BrokerStep(t) \/ SnapshotStep(t) \/ RateStep(t)

Spec == Init /\ [][Next]_vars

-----------------------------------------------------------------------------
(* Properties.                                                             *)

\* "At most max_calls acquisitions per period seconds", for all threads and their
\* retries together: of MaxCalls + 1 acquisitions in a row, the first is at least
\* a Period old when the last is made.
WindowBounded == Len(log) > MaxCalls => log[1] >= Period

\* "The broker is queried at most once every ttl_seconds regardless of how many
\* dashboard requests arrive": rebuilds begin SnapshotTtl apart, also when one
\* takes longer than that; and what is served from the cache shows no prices that
\* old, however long the rest of its rebuild took.
SnapshotTimely ==
  [][\A t \in Threads :
       /\ Rebuild(t) => built.age >= SnapshotTtl
       /\ ServeCached(t) /\ cached.quoted # None => cached.quoted < SnapshotTtl]_vars

\* "The last successful rate is kept indefinitely as the fallback for display."
LastGoodKept == [][fx # None /\ fx.rate # None => fx'.rate # None]_vars
=============================================================================

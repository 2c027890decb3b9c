--------------------------- MODULE BrokerAccessProofs ---------------------------
(***************************************************************************)
(* The limiter and the snapshot keep their promises for any number of      *)
(* threads and any limits.                                                 *)
(***************************************************************************)
EXTENDS BrokerAccess, SequenceTheorems, TLAPS

\* Ages stay within their limit.
LEMMA OlderType ==
  ASSUME NEW limit \in Nat, NEW age \in 0..limit
  PROVE  Older(age, limit) \in 0..limit /\ Older(age, limit) >= age
BY DEF Older

LEMMA SequenceType ==
  ASSUME NEW S, NEW n \in Nat, NEW s \in [1..n -> S]
  PROVE  s \in Seq(S) /\ Len(s) = n
BY SeqDef, LenProperties

LEMMA AppendType ==
  ASSUME NEW S, NEW s \in Seq(S), NEW x \in S
  PROVE  Append(s, x) \in Seq(S) /\ Len(Append(s, x)) = Len(s) + 1
OBVIOUS

LEMMA TailType ==
  ASSUME NEW S, NEW s \in Seq(S), Len(s) > 0
  PROVE  Tail(s) \in Seq(S) /\ Len(Tail(s)) = Len(s) - 1
OBVIOUS

LEMMA OlderSnapshotType ==
  ASSUME NEW s \in Snapshots
  PROVE  OlderSnapshot(s) \in Snapshots
<1>1. s.age \in 0..SnapshotTtl /\ s.quoted \in 0..SnapshotTtl \cup {None}
  BY DEF Snapshots
<1>2. Older(s.age, SnapshotTtl) \in 0..SnapshotTtl
  BY <1>1, OlderType, LimitAssumption
<1>3. s.quoted # None => Older(s.quoted, SnapshotTtl) \in 0..SnapshotTtl
  BY <1>1, OlderType, LimitAssumption
<1>. QED BY <1>2, <1>3 DEF OlderSnapshot, Snapshots

\* What is kept of the deque is a sequence of ages again, shorter by what went.
LEMMA KeptType ==
  ASSUME calls \in Seq(0..Period), NEW n \in 0..Len(calls)
  PROVE  /\ Kept(n) \in Seq(0..Period)
         /\ Len(Kept(n)) = Len(calls) - n
         /\ \A i \in 1..Len(Kept(n)) : Kept(n)[i] = calls[n + i]
BY LimitAssumption DEF Kept

LEMMA LoggedType ==
  ASSUME log \in Seq(0..Period), Len(log) <= MaxCalls + 1, Logged
  PROVE  log' \in Seq(0..Period) /\ Len(log') <= MaxCalls + 1
<1>1. 0 \in 0..Period /\ MaxCalls \in Nat /\ Len(log) \in Nat
  BY LimitAssumption
<1>2. CASE Len(log) <= MaxCalls
  <2>1. log' = Append(log, 0)
    BY <1>2 DEF Logged
  <2>2. log' \in Seq(0..Period) /\ Len(log') = Len(log) + 1
    BY <1>1, <2>1, AppendType
  <2>. QED BY <1>1, <1>2, <2>2
<1>3. CASE ~(Len(log) <= MaxCalls)
  <2>1. log' = Append(Tail(log), 0)
    BY <1>3 DEF Logged
  <2>2. Tail(log) \in Seq(0..Period) /\ Len(Tail(log)) = Len(log) - 1
    BY <1>1, <1>3, TailType
  <2>3. log' \in Seq(0..Period) /\ Len(log') = Len(Tail(log)) + 1
    BY <1>1, <2>1, <2>2, AppendType
  <2>. QED BY <1>1, <2>2, <2>3
<1>. QED BY <1>2, <1>3

-----------------------------------------------------------------------------
(* Type correctness.                                                       *)

LEMMA TypeTick == TypeOK /\ Tick => TypeOK'
<1>. SUFFICES ASSUME TypeOK, Tick PROVE TypeOK'
  OBVIOUS
<1>. USE LimitAssumption
<1>1. calls' \in Seq(0..Period)
  <2>1. calls \in Seq(0..Period) /\ Len(calls) \in Nat
    BY DEF TypeOK
  <2>2. ASSUME NEW i \in 1..Len(calls) PROVE Older(calls[i], Period) \in 0..Period
    <3>1. calls[i] \in 0..Period /\ Period \in Nat
      BY <2>1
    <3>. QED BY <3>1, OlderType
  <2>3. calls' \in [1..Len(calls) -> 0..Period]
    BY <2>2 DEF Tick
  <2>. QED BY <2>1, <2>3, SequenceType
<1>2. log' \in Seq(0..Period) /\ Len(log') <= MaxCalls + 1
  <2>1. log \in Seq(0..Period) /\ Len(log) \in Nat /\ Len(log) <= MaxCalls + 1
    BY DEF TypeOK
  <2>2. ASSUME NEW i \in 1..Len(log) PROVE Older(log[i], Period) \in 0..Period
    <3>1. log[i] \in 0..Period /\ Period \in Nat
      BY <2>1
    <3>. QED BY <3>1, OlderType
  <2>3. log' \in [1..Len(log) -> 0..Period]
    BY <2>2 DEF Tick
  <2>. QED BY <2>1, <2>3, SequenceType
<1>3. built' \in Snapshots /\ cached' \in Snapshots \cup {None}
  BY OlderSnapshotType DEF Tick, TypeOK
<1>4. fx' \in CachedFx \cup {None}
  <2>1. ASSUME fx # None PROVE Older(fx.age, RateTtl) \in 0..RateTtl
    BY <2>1, OlderType DEF TypeOK, CachedFx
  <2>. QED BY <2>1 DEF Tick, TypeOK, CachedFx
<1>5. wait' \in [Threads -> Nat]
  <2>1. \A t \in Threads : (IF wait[t] > 0 THEN wait[t] - 1 ELSE 0) \in Nat
    BY DEF TypeOK
  <2>. QED BY <2>1 DEF Tick
<1>6. asked' \in [Threads -> 0..RateTtl]
  <2>1. ASSUME NEW t \in Threads PROVE Older(asked[t], RateTtl) \in 0..RateTtl
    <3>1. asked[t] \in 0..RateTtl /\ RateTtl \in Nat
      BY DEF TypeOK
    <3>. QED BY <3>1, OlderType
  <2>2. 0 \in 0..RateTtl
    OBVIOUS
  <2>. QED BY <2>1, <2>2 DEF Tick
<1>. QED BY <1>1, <1>2, <1>3, <1>4, <1>5, <1>6 DEF Tick, TypeOK

LEMMA TypeBegin ==
  ASSUME TypeOK, NEW t \in Threads, NEW k \in Kinds, Begin(t, k)
  PROVE  /\ pc' \in [Threads -> Labels] /\ kind' \in [Threads -> Kinds]
         /\ attempt' \in [Threads -> 1..MaxAttempts] /\ wait' \in [Threads -> Nat]
<1>1. pc' \in [Threads -> Labels]
  BY DEF Begin, Enter, Goto, TypeOK, Labels
<1>2. kind' \in [Threads -> Kinds] /\ wait' \in [Threads -> Nat]
  BY DEF Begin, TypeOK
<1>3. attempt' \in [Threads -> 1..MaxAttempts]
  BY LimitAssumption DEF Begin, TypeOK
<1>. QED BY <1>1, <1>2, <1>3

LEMMA TypeReturn ==
  ASSUME TypeOK, NEW t \in Threads, NEW ok \in BOOLEAN, Return(t, ok)
  PROVE  /\ builder' \in Threads \cup {None} /\ built' \in Snapshots
         /\ cached' \in Snapshots \cup {None}
         /\ pc' \in [Threads -> Labels] /\ kind' \in [Threads -> Kinds]
         /\ attempt' \in [Threads -> 1..MaxAttempts] /\ wait' \in [Threads -> Nat]
<1>1. ASSUME Leave(t)
      PROVE  /\ pc' \in [Threads -> Labels] /\ kind' \in [Threads -> Kinds]
             /\ attempt' \in [Threads -> 1..MaxAttempts]
  BY <1>1, LimitAssumption DEF Leave, Goto, TypeOK, Labels, Kinds
<1>2. CASE Leave(t) /\ UNCHANGED <<snapshot, wait>>
  BY <1>1, <1>2 DEF TypeOK, snapshot
<1>3. CASE /\ built' = [built EXCEPT !.quoted = IF ok THEN 0 ELSE None]
           /\ Begin(t, "portfolio")
           /\ UNCHANGED <<builder, cached>>
  <2>1. (IF ok THEN 0 ELSE None) \in 0..SnapshotTtl \cup {None}
    BY LimitAssumption
  <2>2. built' \in Snapshots
    BY <1>3, <2>1 DEF TypeOK, Snapshots
  <2>. QED BY <1>3, <2>2, TypeBegin DEF TypeOK, Kinds
<1>4. CASE /\ cached' = Stamp(built) /\ builder' = None
           /\ Leave(t)
           /\ UNCHANGED <<built, wait>>
  BY <1>1, <1>4 DEF TypeOK, Stamp
<1>. QED BY <1>2, <1>3, <1>4 DEF Return

LEMMA TypeBroker == \A t \in Threads : TypeOK /\ BrokerStep(t) => TypeOK'
<1>. SUFFICES ASSUME TypeOK, NEW t \in Threads, BrokerStep(t) PROVE TypeOK'
  OBVIOUS
<1>. USE LimitAssumption
<1>1. CASE StartRequest(t)
  <2>1. PICK k \in {"get", "order"} : Begin(t, k)
    BY <1>1 DEF StartRequest
  <2>2. k \in Kinds
    BY DEF Kinds
  <2>. QED BY <1>1, <2>1, <2>2, TypeBegin DEF StartRequest, TypeOK, limiter, snapshot
<1>2. CASE Acquire(t)
  <2>1. PICK n \in 0..Len(calls) : calls' = Append(Kept(n), 0)
    BY <1>2 DEF Acquire
  <2>2. calls' \in Seq(0..Period)
    <3>1. calls \in Seq(0..Period) /\ 0 \in 0..Period
      BY DEF TypeOK
    <3>. QED BY <2>1, <3>1, KeptType, AppendType
  <2>3. log' \in Seq(0..Period) /\ Len(log') <= MaxCalls + 1
    BY <1>2, LoggedType DEF Acquire, TypeOK
  <2>. QED BY <1>2, <2>2, <2>3 DEF Acquire, Goto, TypeOK, Labels, snapshot, request
<1>3. CASE MustWait(t)
  <2>1. PICK n \in 0..Len(calls) : /\ ~Room(Kept(n)) /\ calls' = Kept(n)
                                   /\ wait' = [wait EXCEPT ![t] = Period - Kept(n)[1]]
    BY <1>3 DEF MustWait
  <2>2. calls' \in Seq(0..Period) /\ Len(Kept(n)) >= 1
    BY <2>1, KeptType DEF TypeOK, Room
  <2>3. Kept(n)[1] \in 0..Period
    BY <2>1, <2>2
  <2>4. Period - Kept(n)[1] \in Nat
    BY <2>3
  <2>. QED BY <1>3, <2>1, <2>2, <2>4 DEF MustWait, Goto, TypeOK, Labels, snapshot
<1>4. CASE Slept(t)
  <2>1. PICK n \in 0..Len(calls) : calls' = Append(Kept(n), 0)
    BY <1>4 DEF Slept
  <2>2. calls' \in Seq(0..Period)
    <3>1. calls \in Seq(0..Period) /\ 0 \in 0..Period
      BY DEF TypeOK
    <3>. QED BY <2>1, <3>1, KeptType, AppendType
  <2>3. log' \in Seq(0..Period) /\ Len(log') <= MaxCalls + 1
    BY <1>4, LoggedType DEF Slept, TypeOK
  <2>. QED BY <1>4, <2>2, <2>3 DEF Slept, Goto, TypeOK, Labels, snapshot, request
<1>5. CASE Answered(t)
  <2>1. PICK ok \in BOOLEAN : Return(t, ok)
    BY <1>5 DEF Answered
  <2>2. /\ builder' \in Threads \cup {None} /\ built' \in Snapshots
        /\ cached' \in Snapshots \cup {None}
        /\ pc' \in [Threads -> Labels] /\ kind' \in [Threads -> Kinds]
        /\ attempt' \in [Threads -> 1..MaxAttempts] /\ wait' \in [Threads -> Nat]
    BY <2>1, TypeReturn
  <2>3. UNCHANGED <<limiter, fx, asked>>
    BY <1>5 DEF Answered
  <2>. QED BY <2>2, <2>3 DEF TypeOK, limiter
<1>6. CASE Failed(t)
  <2>1. CASE LastTry(t) /\ Return(t, FALSE)
    BY <1>6, <2>1, TypeReturn DEF Failed, TypeOK, limiter
  <2>2. CASE /\ ~LastTry(t)
             /\ attempt' = [attempt EXCEPT ![t] = @ + 1]
             /\ wait' = [wait EXCEPT ![t] = Delay[attempt[t]]]
             /\ Goto(t, "backoff")
             /\ UNCHANGED <<kind, snapshot>>
    <3>1. attempt[t] \in 1..(MaxAttempts - 1)
      BY <2>2 DEF LastTry, TypeOK
    <3>2. Delay[attempt[t]] \in Nat /\ attempt[t] + 1 \in 1..MaxAttempts
      BY <3>1
    <3>3. attempt' \in [Threads -> 1..MaxAttempts] /\ wait' \in [Threads -> Nat]
      BY <2>2, <3>2 DEF TypeOK
    <3>4. pc' \in [Threads -> Labels]
      BY <2>2 DEF Goto, TypeOK, Labels
    <3>5. UNCHANGED <<limiter, fx, asked>>
      BY <1>6 DEF Failed
    <3>. QED BY <2>2, <3>3, <3>4, <3>5 DEF TypeOK, limiter, snapshot
  <2>. QED BY <1>6, <2>1, <2>2 DEF Failed
<1>7. CASE TryAgain(t)
  BY <1>7 DEF TryAgain, Enter, Goto, TypeOK, Labels, limiter, snapshot, request
<1>. QED BY <1>1, <1>2, <1>3, <1>4, <1>5, <1>6, <1>7 DEF BrokerStep

LEMMA TypeOthers ==
  \A t \in Threads : TypeOK /\ (SnapshotStep(t) \/ RateStep(t)) => TypeOK'
<1>. SUFFICES ASSUME TypeOK, NEW t \in Threads, SnapshotStep(t) \/ RateStep(t) PROVE TypeOK'
  OBVIOUS
<1>. USE LimitAssumption
<1>1. CASE View(t) \/ ServeCached(t) \/ RebuildFails(t) \/ Convert(t) \/ UseCachedRate(t)
  BY <1>1 DEF View, ServeCached, RebuildFails, Convert, UseCachedRate, Goto, TypeOK, Labels,
              limiter, snapshot, request
<1>2. CASE Rebuild(t)
  <2>1. PICK k \in {"rates", "portfolio"} : Begin(t, k)
    BY <1>2 DEF Rebuild
  <2>2. k \in Kinds
    BY DEF Kinds
  <2>3. built' \in Snapshots
    BY <1>2 DEF Rebuild, Snapshots
  <2>. QED BY <1>2, <2>1, <2>2, <2>3, TypeBegin DEF Rebuild, TypeOK, limiter
<1>3. CASE AskProviders(t)
  <2>1. asked' \in [Threads -> 0..RateTtl]
    BY <1>3 DEF AskProviders, TypeOK
  <2>2. pc' \in [Threads -> Labels]
    BY <1>3 DEF AskProviders, Goto, TypeOK, Labels
  <2>. QED BY <1>3, <2>1, <2>2 DEF AskProviders, TypeOK, limiter, snapshot, request
<1>4. CASE RateFetched(t)
  <2>1. fx' \in CachedFx
    BY <1>4 DEF RateFetched, TypeOK, CachedFx
  <2>2. pc' \in [Threads -> Labels]
    BY <1>4 DEF RateFetched, Goto, TypeOK, Labels
  <2>. QED BY <1>4, <2>1, <2>2 DEF RateFetched, TypeOK, limiter, snapshot, request
<1>5. CASE RateMissed(t)
  <2>1. (IF fx # None /\ fx.ok THEN fx.rate ELSE None) \in Rates \cup {None}
    BY DEF TypeOK, CachedFx
  <2>2. fx' \in CachedFx
    BY <1>5, <2>1 DEF RateMissed, TypeOK, CachedFx
  <2>. QED BY <1>5, <2>2 DEF RateMissed, Goto, TypeOK, Labels, limiter, snapshot, request
<1>. QED BY <1>1, <1>2, <1>3, <1>4, <1>5 DEF SnapshotStep, RateStep

LEMMA TypeInductive == TypeOK /\ [Next]_vars => TypeOK'
<1>1. TypeOK /\ UNCHANGED vars => TypeOK'
  BY DEF TypeOK, vars, limiter, snapshot, request
<1>. QED BY <1>1, TypeTick, TypeBroker, TypeOthers DEF Next

LEMMA TypeInit == Init => TypeOK
BY LimitAssumption DEF Init, TypeOK, Snapshots, Labels, Kinds

\* Every variable stays in its range, for any threads and limits.
THEOREM TypeCorrect == Spec => []TypeOK
BY TypeInit, TypeInductive, PTL DEF Spec

-----------------------------------------------------------------------------
(* The limiter.  What it remembers is the end of the log, what it forgot   *)
(* is out of the window; and the thread that sleeps with its lock wakes    *)
(* when the oldest acquisition is out of the window.                       *)

Forgot == Len(log) - Len(calls)

LimiterInv ==
  /\ Len(calls) <= MaxCalls /\ Len(calls) <= Len(log)
  /\ \A i \in 1..Len(calls) : calls[i] = log[Forgot + i]
  /\ \A i \in 1..Forgot : log[i] >= Period
  /\ \A t \in Threads : pc[t] = "sleep" =>
       gate = t /\ Len(calls) >= 1 /\ calls[1] + wait[t] >= Period

IInv == TypeOK /\ LimiterInv

LEMMA WindowFromInv == IInv => WindowBounded
BY LimitAssumption DEF IInv, LimiterInv, WindowBounded, TypeOK, Forgot

\* An acquisition with room after the eviction keeps the deque the end of the log.
LEMMA AcquisitionKeepsLog ==
  ASSUME IInv, NEW n \in 0..Len(calls), Evicts(n), Len(calls) - n < MaxCalls,
         calls' = Append(Kept(n), 0), Logged
  PROVE  /\ Len(calls') <= MaxCalls /\ Len(calls') <= Len(log')
         /\ \A i \in 1..Len(calls') : calls'[i] = log'[Forgot' + i]
         /\ \A i \in 1..Forgot' : log'[i] >= Period
<1>. DEFINE lc == Len(calls)
            ll == Len(log)
<1>1. /\ calls \in Seq(0..Period) /\ log \in Seq(0..Period)
      /\ lc \in Nat /\ ll \in Nat /\ ll <= MaxCalls + 1
  BY DEF IInv, TypeOK
<1>2. lc \in Nat /\ ll \in Nat /\ ll <= MaxCalls + 1 /\ MaxCalls \in Nat \ {0} /\ Period \in Nat
  BY <1>1, LimitAssumption
<1>3. n \in 0..lc /\ lc - n < MaxCalls
  OBVIOUS
<1>4. /\ Kept(n) \in Seq(0..Period) /\ Len(Kept(n)) = lc - n
      /\ \A i \in 1..Len(Kept(n)) : Kept(n)[i] = calls[n + i]
  BY <1>1, KeptType
<1>5. /\ Len(calls') = lc - n + 1
      /\ \A i \in 1..(lc - n) : calls'[i] = calls[n + i]
      /\ calls'[lc - n + 1] = 0
  BY <1>1, <1>4, LimitAssumption
<1>6. /\ lc <= ll
      /\ \A i \in 1..lc : calls[i] = log[ll - lc + i]
      /\ \A i \in 1..(ll - lc) : log[i] >= Period
  BY DEF IInv, LimiterInv, Forgot
<1>7. \A i \in 1..n : calls[i] >= Period
  BY DEF Evicts
<1>8. Forgot' = Len(log') - Len(calls')
  BY DEF Forgot
<1>9. /\ ll <= MaxCalls =>
           /\ Len(log') = ll + 1 /\ log'[ll + 1] = 0
           /\ \A i \in 1..ll : log'[i] = log[i]
      /\ ll = MaxCalls + 1 =>
           /\ Len(log') = ll /\ log'[ll] = 0
           /\ \A i \in 1..(ll - 1) : log'[i] = log[i + 1]
  BY <1>1, LimitAssumption DEF Logged
<1>. HIDE DEF lc, ll
<1>10. \A i \in 1..(ll - lc + n) : log[i] >= Period
  <2>. SUFFICES ASSUME NEW i \in 1..(ll - lc + n) PROVE log[i] >= Period
    OBVIOUS
  <2>1. CASE i <= ll - lc
    BY <1>2, <1>6, <2>1
  <2>2. CASE i > ll - lc
    <3>1. PICK k \in Nat : i = ll - lc + k /\ k \in 1..n /\ k \in 1..lc
      BY <1>2, <1>3, <1>6, <2>2
    <3>. QED BY <1>6, <1>7, <3>1
  <2>. QED BY <1>2, <1>3, <1>6, <2>1, <2>2
<1>11. CASE ll <= MaxCalls
  <2>1. Forgot' = ll - lc + n
    <3>1. Len(log') = ll + 1 /\ Len(calls') = lc - n + 1
      BY <1>5, <1>9, <1>11
    <3>. QED BY <1>2, <1>3, <1>8, <3>1
  <2>2. \A i \in 1..Len(calls') : calls'[i] = log'[Forgot' + i]
    <3>. SUFFICES ASSUME NEW i \in 1..(lc - n + 1) PROVE calls'[i] = log'[ll - lc + n + i]
      BY <1>5, <2>1
    <3>1. CASE i = lc - n + 1
      BY <1>2, <1>3, <1>5, <1>9, <1>11, <3>1
    <3>2. CASE i <= lc - n
      <4>1. calls'[i] = calls[n + i] /\ n + i \in 1..lc
        BY <1>2, <1>3, <1>5, <3>2
      <4>2. calls[n + i] = log[ll - lc + (n + i)]
        BY <1>6, <4>1
      <4>3. ll - lc + (n + i) = ll - lc + n + i /\ ll - lc + n + i \in 1..ll
        BY <1>2, <1>3, <1>6, <3>2
      <4>. QED BY <1>9, <1>11, <4>1, <4>2, <4>3
    <3>3. i = lc - n + 1 \/ i <= lc - n
      BY <1>2, <1>3
    <3>. QED BY <3>1, <3>2, <3>3
  <2>3. \A i \in 1..Forgot' : log'[i] >= Period
    BY <1>2, <1>3, <1>9, <1>10, <1>11, <2>1
  <2>4. Len(calls') <= MaxCalls /\ Len(calls') <= Len(log')
    BY <1>2, <1>3, <1>5, <1>6, <1>9, <1>11
  <2>. QED BY <2>2, <2>3, <2>4
<1>12. CASE ll = MaxCalls + 1
  <2>1. Forgot' = ll - lc + n - 1
    <3>1. Len(log') = ll /\ Len(calls') = lc - n + 1
      BY <1>5, <1>9, <1>12
    <3>. QED BY <1>2, <1>3, <1>8, <3>1
  <2>2. \A i \in 1..Len(calls') : calls'[i] = log'[Forgot' + i]
    <3>. SUFFICES ASSUME NEW i \in 1..(lc - n + 1) PROVE calls'[i] = log'[ll - lc + n - 1 + i]
      BY <1>5, <2>1
    <3>1. CASE i = lc - n + 1
      BY <1>2, <1>3, <1>5, <1>9, <1>12, <3>1
    <3>2. CASE i <= lc - n
      <4>1. calls'[i] = calls[n + i] /\ n + i \in 1..lc
        BY <1>2, <1>3, <1>5, <3>2
      <4>2. calls[n + i] = log[ll - lc + (n + i)]
        BY <1>6, <4>1
      <4>3. /\ ll - lc + n - 1 + i \in 1..(ll - 1)
            /\ (ll - lc + n - 1 + i) + 1 = ll - lc + (n + i)
        BY <1>2, <1>3, <1>6, <1>12, <3>2
      <4>4. log'[ll - lc + n - 1 + i] = log[(ll - lc + n - 1 + i) + 1]
        BY <1>9, <1>12, <4>3
      <4>. QED BY <4>1, <4>2, <4>3, <4>4
    <3>3. i = lc - n + 1 \/ i <= lc - n
      BY <1>2, <1>3
    <3>. QED BY <3>1, <3>2, <3>3
  <2>3. \A i \in 1..Forgot' : log'[i] >= Period
    <3>. SUFFICES ASSUME NEW i \in 1..(ll - lc + n - 1) PROVE log'[i] >= Period
      BY <2>1
    <3>1. i \in 1..(ll - 1) /\ i + 1 \in 1..(ll - lc + n)
      BY <1>2, <1>3, <1>6
    <3>2. log'[i] = log[i + 1] /\ log[i + 1] >= Period
      BY <1>9, <1>10, <1>12, <3>1
    <3>. QED BY <3>2
  <2>4. Len(calls') <= MaxCalls /\ Len(calls') <= Len(log')
    BY <1>2, <1>3, <1>5, <1>6, <1>9, <1>12
  <2>. QED BY <2>2, <2>3, <2>4
<1>. QED BY <1>2, <1>11, <1>12

LEMMA LimiterTick == IInv /\ Tick => LimiterInv'
<1>. SUFFICES ASSUME IInv, Tick PROVE LimiterInv'
  OBVIOUS
<1>. USE LimitAssumption
<1>1. calls \in Seq(0..Period) /\ log \in Seq(0..Period)
  BY DEF IInv, TypeOK
<1>2. /\ Len(calls') = Len(calls) /\ \A i \in 1..Len(calls) : calls'[i] = Older(calls[i], Period)
      /\ Len(log') = Len(log) /\ \A i \in 1..Len(log) : log'[i] = Older(log[i], Period)
  BY <1>1 DEF Tick
<1>3. Forgot' = Forgot
  BY <1>2 DEF Forgot
<1>4. \A i \in 1..Len(calls') : calls'[i] = log'[Forgot' + i]
  <2>. SUFFICES ASSUME NEW i \in 1..Len(calls) PROVE calls'[i] = log'[Forgot + i]
    BY <1>2, <1>3
  <2>1. Forgot + i \in 1..Len(log) /\ calls[i] = log[Forgot + i]
    BY <1>1 DEF IInv, LimiterInv, Forgot
  <2>. QED BY <1>2, <2>1
<1>5. \A i \in 1..Forgot' : log'[i] >= Period
  <2>. SUFFICES ASSUME NEW i \in 1..Forgot PROVE log'[i] >= Period
    BY <1>3
  <2>1. i \in 1..Len(log) /\ log[i] >= Period /\ log[i] \in 0..Period
    BY <1>1 DEF IInv, LimiterInv, Forgot
  <2>. QED BY <1>2, <2>1 DEF Older
<1>6. ASSUME NEW t \in Threads, pc'[t] = "sleep"
      PROVE  gate' = t /\ Len(calls') >= 1 /\ calls'[1] + wait'[t] >= Period
  <2>1. /\ gate = t /\ Len(calls) >= 1 /\ calls[1] + wait[t] >= Period
        /\ wait[t] \in Nat /\ calls[1] \in 0..Period
    <3>1. pc[t] = "sleep"
      BY <1>6 DEF Tick
    <3>2. gate = t /\ Len(calls) >= 1 /\ calls[1] + wait[t] >= Period
      BY <3>1 DEF IInv, LimiterInv
    <3>3. wait[t] \in Nat
      BY DEF IInv, TypeOK
    <3>4. calls[1] \in 0..Period
      BY <1>1, <3>2
    <3>. QED BY <3>2, <3>3, <3>4
  <2>2. calls'[1] = Older(calls[1], Period)
    BY <1>2, <2>1
  <2>3. wait'[t] = IF wait[t] > 0 THEN wait[t] - 1 ELSE 0
    BY DEF Tick
  <2>. QED BY <1>2, <2>1, <2>2, <2>3 DEF Tick, Older
<1>. QED BY <1>2, <1>3, <1>4, <1>5, <1>6 DEF LimiterInv, IInv, Forgot

\* A step that leaves the limiter alone and puts no thread to sleep in it.
LEMMA LimiterAlone ==
  ASSUME IInv, NEW t \in Threads, UNCHANGED limiter, pc[t] # "sleep",
         NEW label \in Labels, label # "sleep", pc' = [pc EXCEPT ![t] = label],
         \A u \in Threads : u # t => wait'[u] = wait[u]
  PROVE  LimiterInv'
BY DEF IInv, TypeOK, LimiterInv, limiter, Forgot

LEMMA LimiterInductive == IInv /\ [Next]_vars => IInv'
<1>. SUFFICES ASSUME IInv, [Next]_vars PROVE LimiterInv'
  BY TypeInductive DEF IInv
<1>. USE LimitAssumption
<1>1. CASE Tick
  BY <1>1, LimiterTick
<1>2. CASE UNCHANGED vars
  BY <1>2 DEF IInv, LimiterInv, Forgot, vars, limiter, request
<1>3. ASSUME NEW t \in Threads, Acquire(t) PROVE LimiterInv'
  <2>1. PICK n \in 0..Len(calls) : Evicts(n) /\ Room(Kept(n)) /\ calls' = Append(Kept(n), 0)
    BY <1>3 DEF Acquire
  <2>2. Len(calls) - n < MaxCalls
    BY <2>1, KeptType DEF Room, IInv, TypeOK
  <2>3. /\ Len(calls') <= MaxCalls /\ Len(calls') <= Len(log')
        /\ \A i \in 1..Len(calls') : calls'[i] = log'[Forgot' + i]
        /\ \A i \in 1..Forgot' : log'[i] >= Period
    BY <1>3, <2>1, <2>2, AcquisitionKeepsLog DEF Acquire
  <2>4. \A u \in Threads : pc'[u] # "sleep"
    BY <1>3 DEF Acquire, Goto, IInv, TypeOK, LimiterInv
  <2>. QED BY <2>3, <2>4 DEF LimiterInv
<1>4. ASSUME NEW t \in Threads, MustWait(t) PROVE LimiterInv'
  <2>1. PICK n \in 0..Len(calls) : /\ Evicts(n) /\ ~Room(Kept(n)) /\ calls' = Kept(n)
                                   /\ wait' = [wait EXCEPT ![t] = Period - Kept(n)[1]]
    BY <1>4 DEF MustWait
  <2>2. /\ calls \in Seq(0..Period) /\ log \in Seq(0..Period) /\ log' = log
        /\ Len(calls) \in Nat /\ Len(log) \in Nat
        /\ wait \in [Threads -> Nat] /\ pc \in [Threads -> Labels]
    BY <1>4 DEF MustWait, IInv, TypeOK
  <2>3. /\ Kept(n) \in Seq(0..Period) /\ Len(Kept(n)) = Len(calls) - n
        /\ \A i \in 1..Len(Kept(n)) : Kept(n)[i] = calls[n + i]
    BY <2>2, KeptType
  <2>4. n = 0
    BY <2>1, <2>2, <2>3 DEF Room, IInv, LimiterInv
  <2>5. calls' = calls
    BY <2>1, <2>2, <2>3, <2>4 DEF Kept
  <2>6. Len(calls) >= 1 /\ Kept(n)[1] = calls[1] /\ calls[1] \in 0..Period
    BY <2>1, <2>2, <2>3, <2>4 DEF Room
  <2>7. ASSUME NEW u \in Threads, pc'[u] = "sleep"
        PROVE  gate' = u /\ Len(calls') >= 1 /\ calls'[1] + wait'[u] >= Period
    <3>1. u = t
      BY <1>4, <2>2, <2>7 DEF MustWait, Goto, IInv, LimiterInv, TypeOK
    <3>2. wait'[u] = Period - calls[1]
      BY <2>1, <2>2, <2>6, <3>1
    <3>. QED BY <1>4, <2>5, <2>6, <3>1, <3>2 DEF MustWait
  <2>. QED BY <2>2, <2>5, <2>7 DEF LimiterInv, IInv, Forgot
<1>5. ASSUME NEW t \in Threads, Slept(t) PROVE LimiterInv'
  <2>1. PICK n \in 0..Len(calls) : Evicts(n) /\ calls' = Append(Kept(n), 0)
    BY <1>5 DEF Slept
  <2>2. /\ Len(calls) >= 1 /\ calls[1] >= Period /\ Len(calls) <= MaxCalls
        /\ Len(calls) \in Nat /\ calls[1] \in 0..Period
    <3>1. pc[t] = "sleep" /\ wait[t] = 0
      BY <1>5 DEF Slept
    <3>2. Len(calls) >= 1 /\ calls[1] + 0 >= Period /\ Len(calls) <= MaxCalls
      BY <3>1 DEF IInv, LimiterInv
    <3>3. calls \in Seq(0..Period)
      BY DEF IInv, TypeOK
    <3>. QED BY <3>2, <3>3
  <2>3. n # 0
    BY <2>1, <2>2 DEF Evicts, IInv, TypeOK
  <2>4. Len(calls) - n < MaxCalls
    BY <2>2, <2>3
  <2>5. /\ Len(calls') <= MaxCalls /\ Len(calls') <= Len(log')
        /\ \A i \in 1..Len(calls') : calls'[i] = log'[Forgot' + i]
        /\ \A i \in 1..Forgot' : log'[i] >= Period
    BY <1>5, <2>1, <2>4, AcquisitionKeepsLog DEF Slept
  <2>6. \A u \in Threads : pc'[u] # "sleep"
    BY <1>5 DEF Slept, Goto, IInv, TypeOK, LimiterInv
  <2>. QED BY <2>5, <2>6 DEF LimiterInv
<1>6. ASSUME NEW t \in Threads,
             \/ StartRequest(t) \/ Answered(t) \/ Failed(t) \/ TryAgain(t)
             \/ SnapshotStep(t) \/ RateStep(t)
      PROVE  LimiterInv'
  <2>1. UNCHANGED limiter /\ pc[t] # "sleep"
    BY <1>6 DEF StartRequest, Answered, Failed, TryAgain, SnapshotStep, RateStep, View,
                ServeCached, Rebuild, RebuildFails, Convert, UseCachedRate, AskProviders,
                RateFetched, RateMissed
  <2>2. \E label \in Labels : label # "sleep" /\ pc' = [pc EXCEPT ![t] = label]
    <3>1. ASSUME NEW label \in Labels \ {"sleep"}, Goto(t, label)
          PROVE  \E l \in Labels : l # "sleep" /\ pc' = [pc EXCEPT ![t] = l]
      BY <3>1 DEF Goto
    <3>2. \A label \in Labels \ {"sleep"} : Goto(t, label) =>
            \E l \in Labels : l # "sleep" /\ pc' = [pc EXCEPT ![t] = l]
      BY <3>1
    <3>3. \E label \in Labels \ {"sleep"} : Goto(t, label)
      BY <1>6 DEF StartRequest, Answered, Failed, TryAgain, SnapshotStep, RateStep, View,
                  ServeCached, Rebuild, RebuildFails, Convert, UseCachedRate, AskProviders,
                  RateFetched, RateMissed, Return, Leave, Begin, Enter, Labels
    <3>. QED BY <3>2, <3>3
  <2>3. \A u \in Threads : u # t => wait'[u] = wait[u]
    BY <1>6 DEF StartRequest, Answered, Failed, TryAgain, SnapshotStep, RateStep, View,
                ServeCached, Rebuild, RebuildFails, Convert, UseCachedRate, AskProviders,
                RateFetched, RateMissed, Return, Leave, Begin, request, IInv, TypeOK
  <2>. QED BY <2>1, <2>2, <2>3, LimiterAlone
<1>. QED BY <1>1, <1>2, <1>3, <1>4, <1>5, <1>6 DEF Next, BrokerStep

\* At most MaxCalls acquisitions in any Period, for any threads, limits and retries.
THEOREM WindowIsBounded == Spec => []WindowBounded
<1>1. Init => IInv
  BY TypeInit, LimitAssumption DEF Init, IInv, LimiterInv, Forgot
<1>. QED BY <1>1, LimiterInductive, WindowFromInv, PTL DEF Spec

-----------------------------------------------------------------------------
(* The snapshot.  While nobody rebuilds, the snapshot is as old as the     *)
(* last rebuild, and its prices are no older.                              *)

NoOlder(s) == s.quoted # None => s.quoted <= s.age

SnapshotInv ==
  /\ NoOlder(built) /\ (cached # None => NoOlder(cached))
  /\ builder = None => built.age = (IF cached = None THEN SnapshotTtl ELSE cached.age)

LEMMA NoOlderLater ==
  ASSUME NEW s \in Snapshots, NoOlder(s) PROVE NoOlder(OlderSnapshot(s))
BY LimitAssumption DEF NoOlder, OlderSnapshot, Older, Snapshots

LEMMA SnapshotInductive == TypeOK /\ SnapshotInv /\ [Next]_vars => SnapshotInv'
<1>. SUFFICES ASSUME TypeOK, SnapshotInv, [Next]_vars PROVE SnapshotInv'
  OBVIOUS
<1>. USE LimitAssumption
<1>1. CASE Tick
  <2>1. OlderSnapshot(built).age = Older(built.age, SnapshotTtl)
    BY DEF OlderSnapshot
  <2>2. cached # None => OlderSnapshot(cached).age = Older(cached.age, SnapshotTtl)
    BY DEF OlderSnapshot
  <2>3. NoOlder(built)' /\ (cached' # None => NoOlder(cached)')
    BY <1>1, NoOlderLater DEF Tick, SnapshotInv, TypeOK, NoOlder
  <2>4. cached' = None <=> cached = None
    <3>1. ASSUME cached # None PROVE OlderSnapshot(cached) # None
      BY <3>1, OlderSnapshotType DEF TypeOK
    <3>. QED BY <1>1, <3>1 DEF Tick
  <2>. QED BY <1>1, <2>1, <2>2, <2>3, <2>4 DEF Tick, SnapshotInv, Older
<1>2. CASE UNCHANGED snapshot
  BY <1>2 DEF snapshot, SnapshotInv, NoOlder
<1>3. ASSUME NEW t \in Threads, Rebuild(t) PROVE SnapshotInv'
  BY <1>3 DEF Rebuild, SnapshotInv, NoOlder, TypeOK
<1>4. ASSUME NEW t \in Threads, NEW ok \in BOOLEAN, Return(t, ok) PROVE SnapshotInv'
  <2>1. CASE kind[t] \in {"get", "order"} /\ UNCHANGED snapshot
    BY <1>2, <2>1
  <2>2. CASE /\ built' = [built EXCEPT !.quoted = IF ok THEN 0 ELSE None]
             /\ UNCHANGED <<builder, cached>>
    BY <2>2 DEF SnapshotInv, NoOlder, TypeOK, Snapshots
  <2>3. CASE cached' = Stamp(built) /\ builder' = None /\ UNCHANGED built
    BY <2>3 DEF SnapshotInv, NoOlder, TypeOK, Snapshots, Stamp
  <2>. QED BY <1>4, <2>1, <2>2, <2>3 DEF Return
<1>5. ASSUME NEW t \in Threads,
             \/ StartRequest(t) \/ Acquire(t) \/ MustWait(t) \/ Slept(t) \/ TryAgain(t)
             \/ View(t) \/ ServeCached(t) \/ RebuildFails(t) \/ RateStep(t)
      PROVE  UNCHANGED snapshot
  BY <1>5 DEF StartRequest, Acquire, MustWait, Slept, TryAgain, View, ServeCached,
              RebuildFails, RateStep, Convert, UseCachedRate, AskProviders, RateFetched,
              RateMissed
<1>6. ASSUME NEW t \in Threads, Answered(t) \/ Failed(t) PROVE SnapshotInv'
  BY <1>2, <1>4, <1>6 DEF Answered, Failed
<1>7. UNCHANGED vars => UNCHANGED snapshot
  BY DEF vars
<1>. QED BY <1>1, <1>2, <1>3, <1>5, <1>6, <1>7 DEF Next, BrokerStep, SnapshotStep

\* Rebuilds begin SnapshotTtl apart and cached prices are younger than that, for
\* any number of viewers and however long the broker takes.
THEOREM SnapshotIsTimely == Spec => SnapshotTimely
<1>1. Init => SnapshotInv
  BY DEF Init, SnapshotInv, NoOlder
<1>2. ASSUME TypeOK, SnapshotInv, NEW t \in Threads
      PROVE  /\ Rebuild(t) => built.age >= SnapshotTtl
             /\ ServeCached(t) /\ cached.quoted # None => cached.quoted < SnapshotTtl
  BY <1>2, LimitAssumption DEF Rebuild, ServeCached, IsFresh, SnapshotInv, NoOlder, TypeOK, Snapshots
<1>3. TypeOK /\ SnapshotInv =>
        [\A t \in Threads :
           /\ Rebuild(t) => built.age >= SnapshotTtl
           /\ ServeCached(t) /\ cached.quoted # None => cached.quoted < SnapshotTtl]_vars
  BY <1>2
<1>. QED BY <1>1, <1>3, SnapshotInductive, TypeCorrect, PTL DEF Spec, SnapshotTimely
=============================================================================

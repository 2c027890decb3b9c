--------------------------- MODULE SchedulerProofs ---------------------------
(***************************************************************************)
(* Theorems about Scheduler, for every set of jobs, threads and requests   *)
(* and every number of resets.                                             *)
(***************************************************************************)
EXTENDS Scheduler, TLAPS

USE ThreadAssumption, BoundAssumption

\* Where a thread has a scheduled job in hand, and where it may be draining.
Holding == {"acquire", "file", "defer", "timeout"}
Nesting == {"acquire", "file", "run", "defer", "timeout", "release", "giveUp", "pop", "endDrain"}

ThreadInv ==
  \A t \in Threads :
    /\ pc[t] \in {"acquire", "defer", "timeout"} => name[t] \in Jobs
    /\ nested[t] => pc[t] \in Nesting
    /\ ref[t] <= lock

LockInv == \A o \in locked : o <= lock

Base == TypeOK /\ ThreadInv /\ LockInv

LEMMA InitBase == Init => Base
<1>. SUFFICES ASSUME Init PROVE Base
  OBVIOUS
<1>1. TypeOK
  <2>1. pc \in [Threads -> Labels] /\ 0 \in Objects /\ pending \in Seq(Jobs)
    BY DEF Init, Labels, Objects
  <2>. QED  BY <2>1 DEF Init, TypeOK
<1>2. ThreadInv /\ LockInv
  BY DEF Init, ThreadInv, LockInv, Threads
<1>. QED  BY <1>1, <1>2 DEF Base

LEMMA DeferredType ==
  ASSUME NEW j \in Jobs, NEW l, pending \in Seq(Jobs)
  PROVE  /\ Deferred(j, l) \in Seq(Jobs)
         /\ \A i \in Jobs : Pending(i) \/ i = j =>
              \E k \in 1..Len(Deferred(j, l)) : Deferred(j, l)[k] = i
<1>1. CASE Pending(j)
  BY <1>1 DEF Deferred, Pending
<1>2. CASE ~Pending(j)
  <2>1. /\ Deferred(j, l) = Append(pending, j)
        /\ Len(Append(pending, j)) = Len(pending) + 1 /\ Len(pending) \in Nat
        /\ Append(pending, j)[Len(pending) + 1] = j
        /\ \A k \in 1..Len(pending) : Append(pending, j)[k] = pending[k]
    BY <1>2 DEF Deferred
  <2>2. ASSUME NEW i \in Jobs, Pending(i)
        PROVE  \E k \in 1..Len(Deferred(j, l)) : Deferred(j, l)[k] = i
    <3>1. PICK k \in 1..Len(pending) : pending[k] = i
      BY <2>2 DEF Pending
    <3>. QED  BY <2>1, <3>1
  <2>3. \E k \in 1..Len(Deferred(j, l)) : Deferred(j, l)[k] = j
    BY <2>1
  <2>. QED  BY <2>1, <2>2, <2>3
<1>. QED  BY <1>1, <1>2

LEMMA PopType ==
  ASSUME pending \in Seq(Jobs), pending # <<>>
  PROVE  /\ Head(pending) \in Jobs /\ Tail(pending) \in Seq(Jobs)
         /\ \A i \in Jobs : Pending(i) =>
              i = Head(pending) \/ \E k \in 1..Len(Tail(pending)) : Tail(pending)[k] = i
<1>1. /\ Head(pending) = pending[1] /\ Len(pending) \in Nat \ {0}
      /\ Tail(pending) \in Seq(Jobs) /\ Len(Tail(pending)) = Len(pending) - 1
      /\ \A k \in 1..Len(Tail(pending)) : Tail(pending)[k] = pending[k + 1]
  OBVIOUS
<1>2. ASSUME NEW i \in Jobs, Pending(i), i # Head(pending)
      PROVE  \E k \in 1..Len(Tail(pending)) : Tail(pending)[k] = i
  <2>1. PICK k \in 1..Len(pending) : pending[k] = i
    BY <1>2 DEF Pending
  <2>2. k - 1 \in 1..Len(Tail(pending)) /\ Tail(pending)[k - 1] = i
    BY <1>1, <1>2, <2>1
  <2>. QED  BY <2>2
<1>. QED  BY <1>1, <1>2


\* The parts of TypeOK.
LocksType ==
  /\ lock \in Objects /\ locked \subseteq Objects
  /\ file \in Objects /\ flocked \subseteq Objects

ThreadType ==
  /\ pc \in [Threads -> Labels]
  /\ fired \in [Threads -> Jobs \cup {None}]
  /\ name \in [Threads -> Jobs \cup {None}]
  /\ nested \in [Threads -> BOOLEAN]
  /\ ref \in [Threads -> Objects]
  /\ mine \in [Threads -> Objects]

LEMMA StepLocks ==
  ASSUME Base, NEW t \in Threads, Step(t)
  PROVE  LocksType' /\ LockInv' /\ lock' = lock
<1>1. /\ lock \in Nat /\ file \in Nat /\ MaxResets \in Nat /\ lock <= MaxResets
      /\ \A o \in locked : o \in Nat /\ o <= lock
      /\ ref[t] \in Nat /\ ref[t] <= lock
  BY DEF Base, TypeOK, ThreadInv, LockInv, Objects
<1>2. lock' = lock /\ locked' \subseteq locked \cup {lock, ref[t]}
  BY DEF Step, Acquire, AcquireOrRefuse, OpenFile, JobEnds, Defer, Release, AfterRelease, Drain, Pop, EndDrain,
         ClearPending, RemoveFile, locks
<1>3. /\ file' = file \/ (file < MaxResets /\ file' = file + 1)
      /\ flocked' \subseteq flocked \cup {file}
  BY DEF Step, Acquire, AcquireOrRefuse, OpenFile, JobEnds, Defer, Release, Drain, Pop, EndDrain,
         ClearPending, RemoveFile, locks
<1>4. locked' \subseteq Objects /\ LockInv'
  BY <1>1, <1>2 DEF LockInv, Objects
<1>5. file' \in Objects /\ flocked' \subseteq Objects
  BY <1>1, <1>3 DEF Base, TypeOK, Objects
<1>. QED  BY <1>1, <1>2, <1>4, <1>5 DEF LocksType, Objects

LEMMA ReturnThreads ==
  ASSUME Base, NEW t \in Threads, Return(t), lock' = lock
  PROVE  ThreadType' /\ ThreadInv'
<1>1. 0 \in Objects /\ lock \in Nat
  BY DEF Base, TypeOK, Objects
<1>2. ThreadType'
  BY <1>1 DEF Base, TypeOK, ThreadType, Return, Labels
<1>3. \A u \in Threads \ {t} :
        pc'[u] = pc[u] /\ name'[u] = name[u] /\ nested'[u] = nested[u] /\ ref'[u] = ref[u]
  BY DEF Base, TypeOK, Return
<1>4. pc'[t] = "idle" /\ ~nested'[t] /\ ref'[t] = 0
  BY DEF Base, TypeOK, Return
<1>5. ThreadInv'
  BY <1>1, <1>3, <1>4 DEF Base, ThreadInv
<1>. QED  BY <1>2, <1>5

\* A step that changes only where its thread is.
LEMMA GotoThreads ==
  ASSUME Base, NEW t \in Threads, NEW l \in Labels, Goto(t, l), lock' = lock,
         UNCHANGED <<fired, name, nested, ref, mine>>,
         l \in {"acquire", "defer", "timeout"} => name[t] \in Jobs,
         nested[t] => l \in Nesting
  PROVE  ThreadType' /\ ThreadInv'
<1>1. ThreadType'
  BY DEF Base, TypeOK, ThreadType, Goto
<1>2. \A u \in Threads \ {t} : pc'[u] = pc[u]
  BY DEF Base, TypeOK, Goto
<1>3. pc'[t] = l
  BY DEF Base, TypeOK, Goto
<1>4. ThreadInv'
  BY <1>2, <1>3 DEF Base, ThreadInv
<1>. QED  BY <1>1, <1>4

LEMMA StepThreads ==
  ASSUME Base, NEW t \in Threads, Step(t)
  PROVE  ThreadType' /\ ThreadInv'
<1>0. /\ lock' = lock
      /\ \A u \in Threads : nested[u] => pc[u] \in Nesting
      /\ pc[t] \in {"acquire", "defer", "timeout"} => name[t] \in Jobs
  BY StepLocks DEF Base, ThreadInv
<1>. USE DEF Labels, Nesting
<1>1. CASE Acquire(t)
  BY <1>0, <1>1, GotoThreads DEF Acquire
<1>2. CASE AcquireOrRefuse(t)
  BY <1>0, <1>2, GotoThreads, ReturnThreads DEF AcquireOrRefuse
<1>3. CASE OpenFile(t)
  <2>1. CASE file \in flocked
    BY <1>0, <1>3, <2>1, GotoThreads DEF OpenFile, Base, TypeOK
  <2>2. CASE file \notin flocked
    <3>1. /\ pc' = [pc EXCEPT ![t] = "run"] /\ mine' = [mine EXCEPT ![t] = file]
          /\ UNCHANGED <<fired, name, nested, ref>>
      BY <1>3, <2>2 DEF OpenFile, Goto
    <3>2. ThreadType'
      BY <3>1 DEF Base, TypeOK, ThreadType
    <3>3. ThreadInv'
      BY <1>0, <3>1 DEF Base, TypeOK, ThreadInv
    <3>. QED  BY <3>2, <3>3
  <2>. QED  BY <2>1, <2>2
<1>4. CASE JobEnds(t)
  BY <1>0, <1>4, GotoThreads DEF JobEnds
<1>5. CASE Defer(t)
  BY <1>0, <1>5, GotoThreads, ReturnThreads DEF Defer
<1>6. CASE Release(t)
  BY <1>0, <1>6, GotoThreads, ReturnThreads DEF Release
<1>7. CASE Drain(t)
  BY <1>0, <1>7, GotoThreads, ReturnThreads DEF Drain
<1>8. CASE Pop(t)
  <2>1. CASE pending = <<>>
    BY <1>0, <1>8, <2>1, GotoThreads DEF Pop
  <2>2. CASE pending # <<>>
    <3>1. /\ pc' = [pc EXCEPT ![t] = "acquire"] /\ name' = [name EXCEPT ![t] = Head(pending)]
          /\ nested' = [nested EXCEPT ![t] = TRUE] /\ UNCHANGED <<fired, ref, mine>>
          /\ Head(pending) \in Jobs
      BY <1>8, <2>2, PopType DEF Pop, Goto, Base, TypeOK
    <3>2. ThreadType'
      BY <3>1 DEF Base, TypeOK, ThreadType
    <3>3. ThreadInv'
      BY <1>0, <3>1 DEF Base, TypeOK, ThreadInv
    <3>. QED  BY <3>2, <3>3
  <2>. QED  BY <2>1, <2>2
<1>9. CASE EndDrain(t)
  BY <1>0, <1>9, ReturnThreads DEF EndDrain
<1>10. CASE ClearPending(t)
  BY <1>0, <1>10, GotoThreads DEF ClearPending
<1>11. CASE RemoveFile(t)
  BY <1>0, <1>11, GotoThreads DEF RemoveFile
<1>. QED  BY <1>1, <1>2, <1>3, <1>4, <1>5, <1>6, <1>7, <1>8, <1>9, <1>10, <1>11 DEF Step

LEMMA StepBase == ASSUME Base, NEW t \in Threads, Step(t) PROVE Base'
<1>1. pending' \in Seq(Jobs)
  <2>1. CASE Defer(t)
    <3>1. name[t] \in Jobs
      BY <2>1 DEF Base, ThreadInv, Defer
    <3>. QED  BY <2>1, <3>1, DeferredType DEF Base, TypeOK, Defer
  <2>2. CASE Pop(t)
    BY <2>2, PopType DEF Base, TypeOK, Pop
  <2>3. CASE ~Defer(t) /\ ~Pop(t)
    <3>1. pending' = pending \/ pending' = <<>>
      BY <2>3 DEF Step, Acquire, AcquireOrRefuse, OpenFile, JobEnds, Release, Drain,
         EndDrain, ClearPending, RemoveFile
    <3>2. <<>> \in Seq(Jobs) /\ pending \in Seq(Jobs)
      BY DEF Base, TypeOK
    <3>. QED  BY <3>1, <3>2
  <2>. QED  BY <2>1, <2>2, <2>3
<1>2. draining' \in BOOLEAN /\ booted' = booted /\ manual' = manual /\ due' \subseteq due
  BY DEF Base, TypeOK, Step, Acquire, AcquireOrRefuse, OpenFile, JobEnds,
     Defer, Release, Drain, Pop, EndDrain, ClearPending, RemoveFile
<1>. QED  BY <1>1, <1>2, StepLocks, StepThreads DEF Base, TypeOK, LocksType, ThreadType

LEMMA NextBase == Base /\ [Next]_vars => Base'
<1>. SUFFICES ASSUME Base, [Next]_vars PROVE Base'
  OBVIOUS
<1>. USE DEF Base, TypeOK, ThreadInv, LockInv, Objects, Labels, Nesting, Goto, locks, thread
<1>1. CASE BootstrapEnds
  BY <1>1 DEF BootstrapEnds, Threads
<1>2. ASSUME NEW t \in Workers, NEW j \in Jobs, Fire(t, j) PROVE Base'
  BY <1>2 DEF Fire, Threads
<1>3. ASSUME NEW t \in Requests, Request(t) PROVE Base'
  BY <1>3 DEF Request, Threads
<1>4. ASSUME NEW t \in Requests, SwapLock(t) PROVE Base'
  BY <1>4 DEF SwapLock, Threads
<1>5. CASE UNCHANGED vars
  BY <1>5 DEF vars
<1>. QED  BY <1>1, <1>2, <1>3, <1>4, <1>5, StepBase DEF Next

LEMMA BaseInvariant == Spec => []Base
BY InitBase, NextBase, PTL DEF Spec

\* Every variable stays in its range.
THEOREM TypeCorrect == Spec => []TypeOK
<1>1. Base => TypeOK
  BY DEF Base
<1>. QED  BY <1>1, BaseInvariant, PTL

-----------------------------------------------------------------------------
(* ExclusiveSinceReset: whoever runs a job holds a file, and no two the    *)
(* same one.                                                               *)

FilesHeld ==
  /\ \A t \in Threads : Running(t) => mine[t] \in flocked
  /\ \A t, u \in Threads : Running(t) /\ Running(u) /\ mine[t] = mine[u] => t = u

LEMMA InitFilesHeld == Init => FilesHeld
BY DEF Init, FilesHeld, Running, Threads

\* A step after which no more threads run, and the files stay held.
LEMMA FilesHeldKept ==
  ASSUME FilesHeld,
         \A t \in Threads : Running(t)' => Running(t) /\ mine'[t] = mine[t],
         flocked' = flocked
  PROVE  FilesHeld'
BY DEF FilesHeld, Running

LEMMA StepFilesHeld ==
  ASSUME Base, FilesHeld, NEW t \in Threads, Step(t)
  PROVE  FilesHeld'
<1>0. pc \in [Threads -> Labels] /\ mine \in [Threads -> Objects]
  BY DEF Base, TypeOK
<1>1. CASE OpenFile(t) /\ file \notin flocked
  <2>1. /\ pc' = [pc EXCEPT ![t] = "run"] /\ mine' = [mine EXCEPT ![t] = file]
        /\ flocked' = flocked \cup {file}
    BY <1>1 DEF OpenFile, Goto
  <2>2. \A u \in Threads \ {t} : pc'[u] = pc[u] /\ mine'[u] = mine[u]
    BY <1>0, <2>1
  <2>3. mine'[t] = file
    BY <1>0, <2>1
  <2>. QED  BY <1>1, <2>1, <2>2, <2>3 DEF FilesHeld, Running
<1>2. CASE JobEnds(t)
  <2>1. /\ pc[t] = "run" /\ pc' = [pc EXCEPT ![t] = "release"] /\ mine' = mine
        /\ flocked' = flocked \ {mine[t]}
    BY <1>2 DEF JobEnds, Goto
  <2>2. pc'[t] # "run" /\ \A u \in Threads \ {t} : pc'[u] = pc[u]
    BY <1>0, <2>1
  <2>. QED  BY <2>1, <2>2 DEF FilesHeld, Running
<1>3. CASE ~(OpenFile(t) /\ file \notin flocked) /\ ~JobEnds(t)
  <2>1. /\ flocked' = flocked
        /\ \A u \in Threads : pc'[u] = "run" => pc[u] = "run" /\ mine'[u] = mine[u]
    BY <1>0, <1>3 DEF Step, Acquire, AcquireOrRefuse, OpenFile, Defer, Release, Drain, Pop,
       EndDrain, ClearPending, RemoveFile, Goto, Return, locks
  <2>. QED  BY <2>1, FilesHeldKept DEF Running
<1>. QED  BY <1>1, <1>2, <1>3

LEMMA NextFilesHeld == Base /\ FilesHeld /\ [Next]_vars => FilesHeld'
<1>. SUFFICES ASSUME Base, FilesHeld, [Next]_vars PROVE FilesHeld'
  OBVIOUS
<1>0. pc \in [Threads -> Labels] /\ mine \in [Threads -> Objects]
  BY DEF Base, TypeOK
<1>1. CASE \E t \in Threads : Step(t)
  BY <1>1, StepFilesHeld
<1>2. CASE ~ \E t \in Threads : Step(t)
  <2>1. /\ flocked' = flocked
        /\ \A u \in Threads : pc'[u] = "run" => pc[u] = "run" /\ mine'[u] = mine[u]
    BY <1>0, <1>2 DEF Next, vars, BootstrapEnds, Fire, Request, SwapLock, Goto, locks, thread
  <2>. QED  BY <2>1, FilesHeldKept DEF Running
<1>. QED  BY <1>1, <1>2

\* Two jobs that began after the last reset never run at the same time, whatever
\* the thread locks that were swapped, shared or released under their feet.
THEOREM JobsExclusive == Spec => []ExclusiveSinceReset
<1>1. FilesHeld => ExclusiveSinceReset
  BY DEF FilesHeld, ExclusiveSinceReset
<1>2. Init => FilesHeld
  BY InitFilesHeld
<1>3. Base /\ FilesHeld /\ [Next]_vars => FilesHeld'
  BY NextFilesHeld
<1>. QED  BY <1>1, <1>2, <1>3, BaseInvariant, PTL DEF Spec

-----------------------------------------------------------------------------
(* NothingLeaks: a gate is closed only behind a thread that will open it.  *)

Owning == {"file", "run", "timeout", "giveUp", "release"}
Draining(t) == pc[t] \in {"pop", "endDrain"} \/ nested[t]

GateInv == lock \in locked => \E t \in Threads : pc[t] \in Owning
DrainInv == draining => \E t \in Threads : Draining(t)

LEMMA StepGate ==
  ASSUME Base, GateInv, NEW t \in Threads, Step(t)
  PROVE  GateInv'
<1>0. pc \in [Threads -> Labels] /\ lock' = lock
  BY StepLocks DEF Base, TypeOK
<1>1. CASE pc'[t] \in Owning
  BY <1>1 DEF GateInv
<1>2. CASE Release(t)
  BY <1>0, <1>2 DEF Release, AfterRelease, GateInv
<1>3. CASE ~Release(t) /\ pc'[t] \notin Owning
  <2>1. /\ locked' = locked /\ pc[t] \notin Owning
        /\ \A u \in Threads \ {t} : pc'[u] = pc[u]
    BY <1>0, <1>3 DEF Step, Acquire, AcquireOrRefuse, OpenFile, JobEnds, Defer, Drain, Pop,
       EndDrain, ClearPending, RemoveFile, Goto, Return, Owning, locks
  <2>. QED  BY <1>0, <2>1 DEF GateInv
<1>. QED  BY <1>1, <1>2, <1>3

LEMMA StepDrain ==
  ASSUME Base, DrainInv, NEW t \in Threads, Step(t)
  PROVE  DrainInv'
<1>0. /\ pc \in [Threads -> Labels] /\ nested \in [Threads -> BOOLEAN]
      /\ nested[t] => pc[t] \in Nesting
  BY DEF Base, TypeOK, ThreadInv
<1>1. CASE Draining(t)'
  BY <1>1 DEF DrainInv, Draining
<1>2. CASE EndDrain(t)
  BY <1>2 DEF EndDrain, DrainInv
<1>3. CASE ~Draining(t)' /\ ~EndDrain(t)
  <2>1. /\ draining' = draining /\ ~Draining(t)
        /\ \A u \in Threads \ {t} : pc'[u] = pc[u] /\ nested'[u] = nested[u]
    BY <1>0, <1>3 DEF Step, Acquire, AcquireOrRefuse, OpenFile, JobEnds, Defer, Release, Drain, Pop,
       ClearPending, RemoveFile, Goto, Return, Draining, Nesting
  <2>. QED  BY <1>0, <2>1 DEF DrainInv, Draining
<1>. QED  BY <1>1, <1>2, <1>3

LEMMA NextGates == Base /\ GateInv /\ DrainInv /\ [Next]_vars => GateInv' /\ DrainInv'
<1>. SUFFICES ASSUME Base, GateInv, DrainInv, [Next]_vars PROVE GateInv' /\ DrainInv'
  OBVIOUS
<1>0. /\ pc \in [Threads -> Labels] /\ nested \in [Threads -> BOOLEAN]
      /\ lock \in Nat /\ \A o \in locked : o <= lock
  BY DEF Base, TypeOK, LockInv, Objects
<1>1. CASE \E t \in Threads : Step(t)
  BY <1>1, StepGate, StepDrain
<1>2. CASE ~ \E t \in Threads : Step(t)
  <2>1. /\ locked' = locked /\ draining' = draining /\ nested' = nested
        /\ lock' = lock \/ lock' = lock + 1
        /\ \A u \in Threads : pc'[u] = pc[u] \/ pc[u] \in {"boot", "idle"}
    BY <1>0, <1>2 DEF Next, vars, BootstrapEnds, Fire, Request, SwapLock, Goto, locks, thread
  <2>2. GateInv'
    BY <1>0, <2>1 DEF GateInv, Owning
  <2>3. DrainInv'
    BY <1>0, <2>1 DEF DrainInv, Draining
  <2>. QED  BY <2>2, <2>3
<1>. QED  BY <1>1, <1>2

\* No path through timeouts, resets and releases that raise leaves the lock of
\* the scheduler, or its drain, locked with nobody left to unlock it.
THEOREM NoLockLeaks == Spec => []NothingLeaks
<1>1. GateInv /\ DrainInv => NothingLeaks
  BY DEF GateInv, DrainInv, NothingLeaks, Owning, Draining
<1>2. Init => GateInv /\ DrainInv
  BY DEF Init, GateInv, DrainInv
<1>3. Base /\ GateInv /\ DrainInv /\ [Next]_vars => GateInv' /\ DrainInv'
  BY NextGates
<1>. QED  BY <1>1, <1>2, <1>3, BaseInvariant, PTL DEF Spec

-----------------------------------------------------------------------------
(* DueIsKept: it is inductive with Base.                                   *)

InHand(j) == \E t \in Threads : name[t] = j /\ pc[t] \in Holding

LEMMA StepDue ==
  ASSUME Base, DueIsKept, NEW t \in Threads, Step(t), NEW j \in due'
  PROVE  Pending(j)' \/ InHand(j)'
<1>0. /\ pc \in [Threads -> Labels] /\ name \in [Threads -> Jobs \cup {None}]
      /\ pending \in Seq(Jobs) /\ due \subseteq Jobs
      /\ pc[t] \in {"acquire", "defer", "timeout"} => name[t] \in Jobs
  BY DEF Base, TypeOK, ThreadInv
<1>1. j \in due /\ j \in Jobs /\ (Pending(j) \/ InHand(j))
  <2>1. due' \subseteq due
    BY DEF Step, Acquire, AcquireOrRefuse, OpenFile, JobEnds, Defer, Release, Drain, Pop, EndDrain,
       ClearPending, RemoveFile
  <2>. QED  BY <1>0, <2>1 DEF DueIsKept, InHand, Holding
<1>2. \A u \in Threads \ {t} : pc'[u] = pc[u] /\ name'[u] = name[u]
  BY <1>0 DEF Step, Acquire, AcquireOrRefuse, OpenFile, JobEnds, Defer, Release, Drain, Pop, EndDrain,
     ClearPending, RemoveFile, Goto, Return
<1>3. CASE Defer(t)
  <2>1. pending' = Deferred(name[t], pc[t]) /\ name[t] \in Jobs
    BY <1>0, <1>3 DEF Defer
  <2>2. Pending(j) \/ name[t] = j => Pending(j)'
    BY <1>0, <1>1, <2>1, DeferredType DEF Pending
  <2>. QED  BY <1>1, <1>2, <2>2 DEF InHand
<1>4. CASE Pop(t)
  <2>1. CASE pending = <<>>
    <3>1. pc[t] = "pop" /\ pending' = pending
      BY <1>4, <2>1 DEF Pop
    <3>. QED  BY <1>1, <1>2, <3>1 DEF InHand, Holding, Pending
  <2>2. CASE pending # <<>>
    <3>1. /\ pc[t] = "pop" /\ pending' = Tail(pending)
          /\ name'[t] = Head(pending) /\ pc'[t] = "acquire"
      BY <1>0, <1>4, <2>2 DEF Pop, Goto
    <3>2. Pending(j) => j = Head(pending) \/ Pending(j)'
      BY <1>0, <1>1, <2>2, <3>1, PopType DEF Pending
    <3>. QED  BY <1>1, <1>2, <3>1, <3>2 DEF InHand, Holding
  <2>. QED  BY <2>1, <2>2
<1>5. CASE ClearPending(t)
  <2>1. pc[t] = "clear" /\ ~Pending(j)
    BY <1>5 DEF ClearPending
  <2>. QED  BY <1>1, <1>2, <2>1 DEF InHand, Holding
<1>6. CASE ~Defer(t) /\ ~Pop(t) /\ ~ClearPending(t)
  <2>1. pending' = pending
    BY <1>6 DEF Step, Acquire, AcquireOrRefuse, OpenFile, JobEnds, Release, Drain, EndDrain, RemoveFile
  <2>2. name[t] = j /\ pc[t] \in Holding => name'[t] = j /\ pc'[t] \in Holding
    <3>1. CASE Acquire(t)
      BY <1>0, <3>1 DEF Acquire, Goto, Holding
    <3>2. CASE OpenFile(t)
      BY <1>0, <1>1, <3>2 DEF OpenFile, Goto, Holding
    <3>3. CASE ~Acquire(t) /\ ~OpenFile(t)
      BY <1>6, <3>3 DEF Step, AcquireOrRefuse, JobEnds, Release, Drain, EndDrain, RemoveFile, Holding
    <3>. QED  BY <3>1, <3>2, <3>3
  <2>. QED  BY <1>1, <1>2, <2>1, <2>2 DEF InHand, Pending
<1>. QED  BY <1>3, <1>4, <1>5, <1>6

LEMMA NextDue == Base /\ DueIsKept /\ [Next]_vars => DueIsKept'
<1>. SUFFICES ASSUME Base, DueIsKept, [Next]_vars, NEW j \in due' PROVE Pending(j)' \/ InHand(j)'
  BY DEF DueIsKept, InHand, Holding
<1>0. pc \in [Threads -> Labels] /\ name \in [Threads -> Jobs \cup {None}]
  BY DEF Base, TypeOK
<1>1. CASE \E t \in Threads : Step(t)
  BY <1>1, StepDue
<1>2. ASSUME NEW t \in Workers, NEW i \in Jobs, Fire(t, i) PROVE Pending(j)' \/ InHand(j)'
  <2>1. /\ pc[t] = "idle" /\ pending' = pending /\ due' = due \cup {i}
        /\ pc'[t] = "acquire" /\ name'[t] = i /\ t \in Threads
        /\ \A u \in Threads \ {t} : pc'[u] = pc[u] /\ name'[u] = name[u]
    BY <1>0, <1>2 DEF Fire, Goto, Threads
  <2>. QED  BY <2>1 DEF DueIsKept, InHand, Holding, Pending
<1>3. CASE ~ (\E t \in Threads : Step(t)) /\ ~ \E t \in Workers, i \in Jobs : Fire(t, i)
  <2>1. /\ pending' = pending /\ due' = due /\ name' = name
        /\ \A u \in Threads : pc'[u] = pc[u] \/ pc[u] \in {"boot", "idle"}
    BY <1>0, <1>3 DEF Next, vars, BootstrapEnds, Request, SwapLock, Goto, locks, thread
  <2>. QED  BY <2>1 DEF DueIsKept, InHand, Holding, Pending
<1>. QED  BY <1>1, <1>2, <1>3

\* A scheduled job that fired is not lost on its way from a trigger, past two
\* locks, the deferred jobs and the thread that drains them, to its start.
THEOREM DueJobsAreKept == Spec => []DueIsKept
<1>1. Init => DueIsKept
  BY DEF Init, DueIsKept
<1>2. Base /\ DueIsKept /\ [Next]_vars => DueIsKept'
  BY NextDue
<1>. QED  BY <1>1, <1>2, BaseInvariant, PTL DEF Spec
=============================================================================

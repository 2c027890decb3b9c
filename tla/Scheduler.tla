------------------------------ MODULE Scheduler ------------------------------
(***************************************************************************)
(* services/scheduler.py: which thread may run a job.  Scheduled jobs run  *)
(* on the threads of APScheduler's pool, manual jobs and lock resets on    *)
(* threads of the API server, and the bootstrap run on the thread that     *)
(* starts the scheduler.  A job runs under a thread lock and a file lock;  *)
(* a scheduled job that finds one taken is deferred, and whoever ends a    *)
(* job runs what was deferred meanwhile.                                   *)
(*                                                                         *)
(* What a job does is left out (module TradeLifecycle has the most         *)
(* important one): returning and raising are the same step here.           *)
(***************************************************************************)
EXTENDS Naturals, Sequences, FiniteSets

CONSTANTS
  Jobs,          \* names of the scheduled jobs
  MaxInstances,  \* APScheduler's max_instances of each job
  Workers,       \* threads of APScheduler's pool
  Requests,      \* API threads: a manual job or a reset
  Bootstrap,     \* the thread of TradingScheduler.start
  None,
  MaxManual,     \* bound: manual jobs requested
  MaxResets      \* bound: resets of the locks

ASSUME ThreadAssumption ==
  /\ Workers \cap Requests = {} /\ Bootstrap \notin Workers \cup Requests
  /\ None \notin Jobs
ASSUME InstanceAssumption == MaxInstances \in [Jobs -> Nat \ {0}]
ASSUME BoundAssumption == MaxManual \in Nat /\ MaxResets \in Nat

VARIABLES
  lock,      \* which lock object _execution_lock is: a reset puts a new one
  locked,    \* the lock objects that are locked
  file,      \* which file the lock file's path names: a reset removes it
  flocked,   \* the files, removed or not, that some FileLock holds
  pending,   \* _pending_jobs, by name
  draining,  \* is _pending_jobs_drain_lock locked?
  booted,    \* start() has registered the jobs and runs APScheduler
  pc,        \* per thread: its next step
  fired,     \* per thread: the job APScheduler submitted it for
  name,      \* per thread: the scheduled job in its hands
  nested,    \* per thread: is it running a deferred job, from the drain loop?
  ref,       \* per thread: the lock object it waits for
  mine,      \* per thread: the file it holds
  manual,    \* manual jobs requested so far
  due        \* (history) jobs that fired and have not started since

locks  == <<lock, locked, file, flocked>>
thread == <<pc, fired, name, nested, ref, mine>>
vars   == <<locks, pending, draining, booted, thread, manual, due>>

Threads == Workers \cup Requests \cup {Bootstrap}
Objects == 0..MaxResets

Labels == {"idle", "boot", "acquire", "wait", "file", "run", "defer", "timeout",
           "release", "giveUp", "drain", "pop", "endDrain", "clear", "remove"}

TypeOK ==
  /\ lock \in Objects /\ locked \subseteq Objects
  /\ file \in Objects /\ flocked \subseteq Objects
  /\ pending \in Seq(Jobs)
  /\ draining \in BOOLEAN /\ booted \in BOOLEAN
  /\ pc \in [Threads -> Labels]
  /\ fired \in [Threads -> Jobs \cup {None}]
  /\ name \in [Threads -> Jobs \cup {None}]
  /\ nested \in [Threads -> BOOLEAN]
  /\ ref \in [Threads -> Objects]
  /\ mine \in [Threads -> Objects]
  /\ manual \in Nat
  /\ due \subseteq Jobs

Pending(j) == \E i \in 1..Len(pending) : pending[i] = j

Init ==
  /\ lock = 0 /\ locked = {} /\ file = 0 /\ flocked = {}
  /\ pending = <<>> /\ draining = FALSE /\ booted = FALSE
  /\ pc = [t \in Threads |-> IF t = Bootstrap THEN "boot" ELSE "idle"]
  /\ fired = [t \in Threads |-> None] /\ name = [t \in Threads |-> None]
  /\ nested = [t \in Threads |-> FALSE]
  /\ ref = [t \in Threads |-> 0] /\ mine = [t \in Threads |-> 0]
  /\ manual = 0 /\ due = {}

Goto(t, label) == pc' = [pc EXCEPT ![t] = label]

\* The guarded function, or the request, returns.
Return(t) ==
  /\ pc' = [pc EXCEPT ![t] = "idle"]
  /\ fired' = [fired EXCEPT ![t] = None]
  /\ name' = [name EXCEPT ![t] = None]
  /\ nested' = [nested EXCEPT ![t] = FALSE]
  /\ ref' = [ref EXCEPT ![t] = 0]
  /\ mine' = [mine EXCEPT ![t] = 0]

-----------------------------------------------------------------------------
(* Starting: bootstrap, cron triggers, manual jobs.                        *)

\* bootstrap_initial_run_if_needed calls the job functions themselves, without
\* a lock; API requests are served meanwhile.
BootstrapEnds ==
  /\ pc[Bootstrap] = "boot"
  /\ Goto(Bootstrap, "idle") /\ booted' = TRUE
  /\ UNCHANGED <<locks, pending, draining, fired, name, nested, ref, mine, manual, due>>

\* A trigger is skipped while max_instances of its job are still on their threads.
Fire(t, j) ==
  /\ booted /\ pc[t] = "idle"
  /\ Cardinality({u \in Workers : fired[u] = j}) < MaxInstances[j]
  /\ Goto(t, "acquire")
  /\ fired' = [fired EXCEPT ![t] = j]
  /\ name' = [name EXCEPT ![t] = j]
  /\ due' = due \cup {j}
  /\ UNCHANGED <<locks, pending, draining, booted, nested, ref, mine, manual>>

\* _execution_lock.acquire(blocking=False)
Acquire(t) ==
  /\ pc[t] = "acquire"
  /\ \/ lock \notin locked /\ locked' = locked \cup {lock} /\ Goto(t, "file")
     \/ lock \in locked /\ UNCHANGED locked /\ Goto(t, "defer")
  /\ UNCHANGED <<lock, file, flocked, pending, draining, booted, fired, name, nested, ref,
                 mine, manual, due>>

\* run_with_lock waits up to a second for the lock object it read on entry.
Request(t) ==
  /\ pc[t] = "idle" /\ manual < MaxManual
  /\ manual' = manual + 1
  /\ ref' = [ref EXCEPT ![t] = lock]
  /\ Goto(t, "wait")
  /\ UNCHANGED <<locks, pending, draining, booted, fired, name, nested, mine, due>>

AcquireOrRefuse(t) ==
  /\ pc[t] = "wait"
  /\ \/ /\ ref[t] \notin locked /\ locked' = locked \cup {ref[t]}
        /\ Goto(t, "file")
        /\ UNCHANGED <<fired, name, nested, ref, mine>>
     \/ ref[t] \in locked /\ UNCHANGED locked /\ Return(t)   \* 409
  /\ UNCHANGED <<lock, file, flocked, pending, draining, booted, manual, due>>

-----------------------------------------------------------------------------
(* Running: the file lock, the job, the releases.                          *)

\* (mutant) the file lock is not taken into account
OpenAnyFile(t) ==
  /\ pc[t] = "file"
  /\ flocked' = flocked \cup {file}
  /\ mine' = [mine EXCEPT ![t] = file]
  /\ due' = due \ {name[t]}
  /\ Goto(t, "run")
  /\ UNCHANGED <<lock, locked, file, pending, draining, booted, fired, name, nested, ref, manual>>

\* (mutant) a manual job that finds the file lock taken is deferred as well
OpenFileOrDefer(t) ==
  /\ pc[t] = "file"
  /\ \/ /\ file \notin flocked
        /\ flocked' = flocked \cup {file}
        /\ mine' = [mine EXCEPT ![t] = file]
        /\ due' = due \ {name[t]}
        /\ Goto(t, "run")
     \/ file \in flocked /\ Goto(t, "timeout") /\ UNCHANGED <<flocked, mine, due>>
  /\ UNCHANGED <<lock, locked, file, pending, draining, booted, fired, name, nested, ref, manual>>

\* FileLock: opens the path, creating it if a reset removed it, and locks what
\* it opened.  A manual job gives up with a 409, a scheduled one is deferred.
OpenFile(t) ==
  /\ pc[t] = "file"
  /\ \/ /\ file \notin flocked
        /\ flocked' = flocked \cup {file}
        /\ mine' = [mine EXCEPT ![t] = file]
        /\ due' = due \ {name[t]}
        /\ Goto(t, "run")
     \/ /\ file \in flocked
        /\ Goto(t, IF name[t] = None THEN "release" ELSE "timeout")
        /\ UNCHANGED <<flocked, mine, due>>
  /\ UNCHANGED <<lock, locked, file, pending, draining, booted, fired, name, nested, ref, manual>>

JobEnds(t) ==
  /\ pc[t] = "run"
  /\ flocked' = flocked \ {mine[t]}
  /\ Goto(t, "release")
  /\ UNCHANGED <<lock, locked, file, pending, draining, booted, fired, name, nested, ref, mine,
                 manual, due>>

\* (mutant) a job that timed out on the file lock is not deferred
DeferBusyOnly(j, from) == IF Pending(j) \/ from = "timeout" THEN pending ELSE Append(pending, j)

\* An OrderedDict: a job that is pending already keeps its place.
Deferred(j, from) == IF Pending(j) THEN pending ELSE Append(pending, j)

Defer(t) ==
  /\ pc[t] \in {"defer", "timeout"}
  /\ pending' = Deferred(name[t], pc[t])
  /\ \/ /\ pc[t] = "timeout" /\ Goto(t, "giveUp")
        /\ UNCHANGED <<fired, name, nested, ref, mine>>
     \/ /\ pc[t] = "defer" /\ nested[t] /\ Goto(t, "endDrain")
        /\ UNCHANGED <<fired, name, nested, ref, mine>>
     \/ pc[t] = "defer" /\ ~nested[t] /\ Return(t)
  /\ UNCHANGED <<locks, draining, booted, manual, due>>

\* (mutant) only a thread that drains afterwards releases
ReleaseBeforeDrain(t) == IF nested[t] THEN locked ELSE locked \ {lock}

AfterRelease(t) == locked \ {lock}

\* self._execution_lock.release() in a "finally": it releases the lock object of
\* now, whoever locked it, and raises if that one is not locked.
Release(t) ==
  /\ pc[t] \in {"release", "giveUp"}
  /\ locked' = AfterRelease(t)
  /\ \/ /\ lock \in locked
        /\ Goto(t, IF ~nested[t] THEN "drain" ELSE IF pc[t] = "release" THEN "pop" ELSE "endDrain")
        /\ UNCHANGED <<fired, name, nested, ref, mine>>
     \/ /\ lock \notin locked /\ nested[t] /\ Goto(t, "endDrain")
        /\ UNCHANGED <<fired, name, nested, ref, mine>>
     \/ lock \notin locked /\ ~nested[t] /\ Return(t)
  /\ UNCHANGED <<lock, file, flocked, pending, draining, booted, manual, due>>

-----------------------------------------------------------------------------
(* Draining the deferred jobs, and resetting the locks.                    *)

\* (mutant) nobody drains: deferred jobs wait for a trigger of their own
DrainNever(t) == pc[t] = "drain" /\ Return(t) /\ UNCHANGED <<locks, pending, draining, booted, manual, due>>

\* _drain_pending_jobs: one thread at a time.
Drain(t) ==
  /\ pc[t] = "drain"
  /\ \/ ~draining /\ draining' = TRUE /\ Goto(t, "pop")
        /\ UNCHANGED <<fired, name, nested, ref, mine>>
     \/ draining /\ UNCHANGED draining /\ Return(t)
  /\ UNCHANGED <<locks, pending, booted, manual, due>>

Pop(t) ==
  /\ pc[t] = "pop"
  /\ \/ pending = <<>> /\ Goto(t, "endDrain") /\ UNCHANGED <<pending, name, nested>>
     \/ /\ pending # <<>>
        /\ name' = [name EXCEPT ![t] = Head(pending)]
        /\ pending' = Tail(pending)
        /\ nested' = [nested EXCEPT ![t] = TRUE]
        /\ Goto(t, "acquire")
  /\ UNCHANGED <<locks, draining, booted, fired, ref, mine, manual, due>>

EndDrain(t) ==
  /\ pc[t] = "endDrain"
  /\ draining' = FALSE
  /\ Return(t)
  /\ UNCHANGED <<locks, pending, booted, manual, due>>

\* reset_locks, in its three steps.
SwapLock(t) ==
  /\ pc[t] = "idle" /\ lock < MaxResets
  /\ lock' = lock + 1
  /\ Goto(t, "clear")
  /\ UNCHANGED <<locked, file, flocked, pending, draining, booted, fired, name, nested, ref,
                 mine, manual, due>>

ClearPending(t) ==
  /\ pc[t] = "clear"
  /\ pending' = <<>>
  /\ due' = {j \in due : ~Pending(j)}
  /\ Goto(t, "remove")
  /\ UNCHANGED <<locks, draining, booted, fired, name, nested, ref, mine, manual>>

RemoveFile(t) ==
  /\ pc[t] = "remove" /\ file < MaxResets
  /\ file' = file + 1
  /\ Goto(t, "idle")
  /\ UNCHANGED <<lock, locked, flocked, pending, draining, booted, fired, name, nested, ref,
                 mine, manual, due>>

-----------------------------------------------------------------------------
Step(t) ==
  \/ Acquire(t) \/ AcquireOrRefuse(t) \/ OpenFile(t) \/ JobEnds(t) \/ Defer(t)
  \/ Release(t) \/ Drain(t) \/ Pop(t) \/ EndDrain(t) \/ ClearPending(t) \/ RemoveFile(t)

Next ==
  \/ BootstrapEnds
  \/ \E t \in Workers, j \in Jobs : Fire(t, j)
  \/ \E t \in Requests : Request(t) \/ SwapLock(t)
  \/ \E t \in Threads : Step(t)

Spec == Init /\ [][Next]_vars

\* A thread that has released the lock and not yet taken it for a deferred job.
HandingOver(t) == pc[t] \in {"drain", "pop"} \/ (pc[t] = "acquire" /\ nested[t])

\* A lock taken during a handover is taken for the deferred job.
Undisturbed ==
  (\E t \in Threads : HandingOver(t)) /\ Cardinality(locked') > Cardinality(locked)
    => \E t \in Threads : HandingOver(t) /\ pc'[t] = "file"

\* Threads go on, jobs end, and the trigger of each job comes again and again.
\* A handover takes microseconds and a trigger comes every minute: they do not
\* collide for ever.
FairSpec ==
  /\ Spec
  /\ WF_vars(BootstrapEnds) /\ \A t \in Threads : WF_vars(Step(t))
  /\ \A j \in Jobs : SF_vars(\E t \in Workers : Fire(t, j))
  /\ <>[][Undisturbed]_vars
-----------------------------------------------------------------------------
(* Properties.                                                             *)

Running(t) == pc[t] = "run"

\* Jobs that began after the last reset of the locks never overlap, although a
\* job from before the reset releases the new thread lock under their feet: the
\* file lock still holds the others off.
ExclusiveSinceReset ==
  \A t, u \in Threads :
    Running(t) /\ Running(u) /\ mine[t] = file /\ mine[u] = file => t = u

\* A locked gate has a thread that will open it, and a locked drain has one that
\* is draining, through timeouts, resets and releases that raise: otherwise no
\* job ever runs again.
NothingLeaks ==
  /\ lock \in locked =>
       \E t \in Threads : pc[t] \in {"file", "run", "timeout", "giveUp", "release"}
  /\ draining =>
       \E t \in Threads : pc[t] \in {"pop", "endDrain"} \/ nested[t]

\* A job that fired and has not started since is deferred or in the hands of a
\* thread on its way to start or defer it: only a reset drops it.
DueIsKept ==
  \A j \in due :
    \/ Pending(j)
    \/ \E t \in Threads : name[t] = j /\ pc[t] \in {"acquire", "file", "defer", "timeout"}

\* Every scheduled job that fires is started some time, if nobody ever resets.
DueRuns == [](lock = 0) => \A j \in Jobs : j \in due ~> j \notin due
=============================================================================

-------------------------------- MODULE Pool --------------------------------
(***************************************************************************)
(* beemo::pool (http/src/pool.cpp): a queue of jobs behind a mutex and a   *)
(* condition variable, the threads that serve it, and the one thread that  *)
(* submits jobs and in the end destroys the pool.  What a thread does      *)
(* while it holds job_mutex is one step.                                   *)
(***************************************************************************)
EXTENDS Naturals, Sequences, FiniteSets

CONSTANTS
  Threads,      \* the pool's threads: thread_num of them
  Jobs,         \* the jobs that can be submitted
  NoJob,        \* no job
  Loops         \* the jobs that never return, as evloop::loop

ASSUME PoolAssumption ==
  /\ IsFiniteSet(Threads)
  /\ NoJob \notin Jobs
  /\ Loops \subseteq Jobs

VARIABLES
  jobs,         \* pool::jobs
  stop,         \* pool::stop
  pc,           \* pc[t]: "test" (awake, about to take job_mutex and test the
                \* predicate of the wait), "wait", "run" or "exited"
  job,          \* job[t]: the job t runs
  caller,       \* where the submitting thread is
  submitted     \* the jobs that have been submitted

vars == <<jobs, stop, pc, job, caller, submitted>>

Init ==
  /\ jobs = <<>>
  /\ stop = FALSE
  /\ pc = [t \in Threads |-> "test"]
  /\ job = [t \in Threads |-> NoJob]
  /\ caller = "idle"
  /\ submitted = {}

-----------------------------------------------------------------------------
(* A pool thread                                                            *)

(* The predicate of condition.wait holds: leave if the pool stops, else     *)
(* take the oldest job.                                                     *)
Exit(t) ==
  /\ pc[t] = "test"
  /\ stop
  /\ pc' = [pc EXCEPT ![t] = "exited"]
  /\ UNCHANGED <<jobs, stop, job, caller, submitted>>

(* Mutant of Take: the job is not popped.                                   *)
TakeNoPop(t) ==
  /\ pc[t] = "test"
  /\ ~stop /\ jobs # <<>>
  /\ pc' = [pc EXCEPT ![t] = "run"]
  /\ job' = [job EXCEPT ![t] = Head(jobs)]
  /\ UNCHANGED <<jobs, stop, caller, submitted>>

Take(t) ==
  /\ pc[t] = "test"
  /\ ~stop /\ jobs # <<>>
  /\ pc' = [pc EXCEPT ![t] = "run"]
  /\ job' = [job EXCEPT ![t] = Head(jobs)]
  /\ jobs' = Tail(jobs)
  /\ UNCHANGED <<stop, caller, submitted>>

(* Mutant of Wait: the predicate asks for a job only.                       *)
WaitForJob(t) ==
  /\ pc[t] = "test"
  /\ jobs = <<>>
  /\ pc' = [pc EXCEPT ![t] = "wait"]
  /\ UNCHANGED <<jobs, stop, job, caller, submitted>>

Wait(t) ==
  /\ pc[t] = "test"
  /\ ~stop /\ jobs = <<>>
  /\ pc' = [pc EXCEPT ![t] = "wait"]
  /\ UNCHANGED <<jobs, stop, job, caller, submitted>>

SpuriousWakeup(t) ==
  /\ pc[t] = "wait"
  /\ pc' = [pc EXCEPT ![t] = "test"]
  /\ UNCHANGED <<jobs, stop, job, caller, submitted>>

Finish(t) ==
  /\ pc[t] = "run"
  /\ job[t] \notin Loops
  /\ pc' = [pc EXCEPT ![t] = "test"]
  /\ job' = [job EXCEPT ![t] = NoJob]
  /\ UNCHANGED <<jobs, stop, caller, submitted>>

-----------------------------------------------------------------------------
(* pool::submit and ~pool.  Both notify after they have let go of the mutex. *)

(* Mutants of Submit: a function already moved from is queued; nobody is    *)
(* notified.                                                                *)
SubmitMoved(j) ==
  /\ caller = "idle"
  /\ j \notin submitted
  /\ ~stop
  /\ jobs' = Append(jobs, NoJob)
  /\ submitted' = submitted \cup {j}
  /\ caller' = "notify_one"
  /\ UNCHANGED <<stop, pc, job>>

SubmitSilent(j) ==
  /\ caller = "idle"
  /\ j \notin submitted
  /\ ~stop
  /\ jobs' = Append(jobs, j)
  /\ submitted' = submitted \cup {j}
  /\ UNCHANGED <<stop, pc, job, caller>>

Submit(j) ==
  /\ caller = "idle"
  /\ j \notin submitted
  /\ ~stop
  /\ jobs' = Append(jobs, j)
  /\ submitted' = submitted \cup {j}
  /\ caller' = "notify_one"
  /\ UNCHANGED <<stop, pc, job>>

NotifyOne ==
  /\ caller = "notify_one"
  /\ caller' = "idle"
  /\ \/ \E t \in Threads :
          /\ pc[t] = "wait"
          /\ pc' = [pc EXCEPT ![t] = "test"]
     \/ /\ \A t \in Threads : pc[t] # "wait"
        /\ UNCHANGED pc
  /\ UNCHANGED <<jobs, stop, job, submitted>>

Stop ==
  /\ caller = "idle"
  /\ stop' = TRUE
  /\ caller' = "notify_all"
  /\ UNCHANGED <<jobs, pc, job, submitted>>

(* Mutant of NotifyAll: notify_one.                                         *)
NotifyAllAsOne ==
  /\ caller = "notify_all"
  /\ caller' = "join"
  /\ \E t \in Threads : pc' = [pc EXCEPT ![t] = IF @ = "wait" THEN "test" ELSE @]
  /\ UNCHANGED <<jobs, stop, job, submitted>>

NotifyAll ==
  /\ caller = "notify_all"
  /\ caller' = "join"
  /\ pc' = [t \in Threads |-> IF pc[t] = "wait" THEN "test" ELSE pc[t]]
  /\ UNCHANGED <<jobs, stop, job, submitted>>

Join ==
  /\ caller = "join"
  /\ \A t \in Threads : pc[t] = "exited"
  /\ caller' = "joined"
  /\ UNCHANGED <<jobs, stop, pc, job, submitted>>

-----------------------------------------------------------------------------
ThreadStep(t) == Exit(t) \/ Take(t) \/ Wait(t) \/ Finish(t)

Next ==
  \/ \E t \in Threads : ThreadStep(t) \/ SpuriousWakeup(t)
  \/ \E j \in Jobs : Submit(j)
  \/ NotifyOne \/ Stop \/ NotifyAll \/ Join

Spec == Init /\ [][Next]_vars

(* The scheduler runs every thread that can run; a job that can end does.   *)
FairSpec ==
  /\ Spec
  /\ \A t \in Threads : WF_vars(ThreadStep(t))
  /\ WF_vars(NotifyOne \/ NotifyAll \/ Join)

-----------------------------------------------------------------------------
(* Properties                                                               *)

Queued == {jobs[i] : i \in DOMAIN jobs}

Waiting == {t \in Threads : pc[t] = "wait"}
Awake   == {t \in Threads : pc[t] = "test"}

TypeOK ==
  /\ jobs \in Seq(Jobs)
  /\ stop \in BOOLEAN
  /\ pc \in [Threads -> {"test", "wait", "run", "exited"}]
  /\ job \in [Threads -> Jobs \cup {NoJob}]
  /\ caller \in {"idle", "notify_one", "notify_all", "join", "joined"}
  /\ submitted \in SUBSET Jobs

(* A job is never run by two threads, nor still queued while it runs: it is *)
(* taken from the queue exactly once.                                       *)
JobTakenOnce ==
  /\ \A i, k \in DOMAIN jobs : jobs[i] = jobs[k] => i = k
  /\ \A t \in Threads : job[t] # NoJob => job[t] \notin Queued
  /\ \A t, u \in Threads : job[t] = job[u] /\ job[t] # NoJob => t = u

(* While a thread sleeps on the condition, every queued job has a thread    *)
(* that is awake and will look, or a notification still to come: submit     *)
(* notifies without the mutex, and no wake-up is lost for it.               *)
NoIdleWorker ==
  ~stop /\ Waiting # {} =>
    Len(jobs) <= Cardinality(Awake) + IF caller = "notify_one" THEN 1 ELSE 0

(* Once stop is set a thread sleeps only as long as notify_all is still to  *)
(* come: a thread between a job and its next wait, or woken for nothing,    *)
(* does not fall asleep behind the one notification the destructor gives,   *)
(* and thread::join does not wait for it.                                   *)
NoSleeperLeft == stop /\ Waiting # {} => caller = "notify_all"

(* Jobs that never return, at most one for each thread, all get a thread,   *)
(* whatever else is queued with them: the event loops that server::start    *)
(* submits all run.                                                         *)
AllStart ==
  Cardinality(Loops) <= Cardinality(Threads) =>
    \A j \in Loops : j \in submitted ~> stop \/ \E t \in Threads : job[t] = j

(* If no job that never returns has been started, the destructor returns.   *)
DestructorReturns ==
  stop /\ (\A t \in Threads : job[t] \notin Loops) ~> caller = "joined"

=============================================================================

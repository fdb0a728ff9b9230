----------------------------- MODULE PoolProofs -----------------------------
(***************************************************************************)
(* Proofs about Pool, for any finite number of threads, any set of jobs    *)
(* and any of them never returning.                                        *)
(***************************************************************************)
EXTENDS Pool, FiniteSetTheorems, SequenceTheorems, TLAPS

(* Every step keeps the variables in their types.                           *)
LEMMA TypeStep == TypeOK /\ [Next]_vars => TypeOK'
<1> SUFFICES ASSUME TypeOK, [Next]_vars PROVE TypeOK'
  OBVIOUS
<1> USE PoolAssumption DEF TypeOK
<1>1. ASSUME NEW t \in Threads, Take(t) PROVE TypeOK'
  <2>1. jobs # <<>> /\ Head(jobs) \in Jobs /\ Tail(jobs) \in Seq(Jobs)
    BY <1>1 DEF Take
  <2>2. QED
    BY <1>1, <2>1 DEF Take
<1>2. ASSUME NEW t \in Threads,
             Exit(t) \/ Wait(t) \/ SpuriousWakeup(t) \/ Finish(t)
      PROVE  TypeOK'
  BY <1>2 DEF Exit, Wait, SpuriousWakeup, Finish
<1>3. ASSUME NEW j \in Jobs, Submit(j) PROVE TypeOK'
  BY <1>3 DEF Submit
<1>4. CASE NotifyOne
  BY <1>4 DEF NotifyOne
<1>5. CASE NotifyAll
  BY <1>5 DEF NotifyAll
<1>6. CASE Stop \/ Join
  BY <1>6 DEF Stop, Join
<1>7. CASE UNCHANGED vars
  BY <1>7 DEF vars
<1>8. QED
  BY <1>1, <1>2, <1>3, <1>4, <1>5, <1>6, <1>7 DEF Next, ThreadStep

(* Every variable of the pool keeps its type.                               *)
THEOREM PoolTypeCorrect == Spec => []TypeOK
<1>1. Init => TypeOK
  <2>1. <<>> \in Seq(Jobs)
    OBVIOUS
  <2>2. QED
    BY <2>1 DEF Init, TypeOK
<1>2. QED
  BY <1>1, TypeStep, PTL DEF Spec

-----------------------------------------------------------------------------
(* Every step keeps it that after stop a thread sleeps only before          *)
(* notify_all: the wait tests stop under the mutex that stop is set under.  *)
LEMMA NoSleeperLeftStep ==
  TypeOK /\ NoSleeperLeft /\ [Next]_vars => NoSleeperLeft'
<1> SUFFICES ASSUME TypeOK, NoSleeperLeft, [Next]_vars PROVE NoSleeperLeft'
  OBVIOUS
<1> USE DEF TypeOK, NoSleeperLeft, Waiting
<1>1. ASSUME NEW t \in Threads, ThreadStep(t) \/ SpuriousWakeup(t)
      PROVE  NoSleeperLeft'
  BY <1>1 DEF ThreadStep, Exit, Take, Wait, Finish, SpuriousWakeup
<1>2. ASSUME NEW j \in Jobs, Submit(j) PROVE NoSleeperLeft'
  BY <1>2 DEF Submit
<1>3. CASE NotifyOne
  BY <1>3 DEF NotifyOne
<1>4. CASE Stop \/ Join
  BY <1>4 DEF Stop, Join
<1>5. CASE NotifyAll
  BY <1>5 DEF NotifyAll
<1>6. CASE UNCHANGED vars
  BY <1>6 DEF vars
<1>7. QED
  BY <1>1, <1>2, <1>3, <1>4, <1>5, <1>6 DEF Next

(* However the destructor's unlocked notify_all meets the threads' waits,   *)
(* no thread sleeps through it.                                             *)
THEOREM AllWake == Spec => []NoSleeperLeft
<1>1. Init => NoSleeperLeft
  BY DEF Init, NoSleeperLeft
<1>2. QED
  BY <1>1, NoSleeperLeftStep, PoolTypeCorrect, PTL DEF Spec

-----------------------------------------------------------------------------
(* Why a job is taken once: only submitted jobs are about, each is either   *)
(* in one place of the queue or with one thread, and a thread that does not *)
(* run has none.                                                            *)
JobInv ==
  /\ JobTakenOnce
  /\ \A i \in DOMAIN jobs : jobs[i] \in submitted
  /\ \A t \in Threads : job[t] # NoJob => job[t] \in submitted
  /\ \A t \in Threads : pc[t] # "run" => job[t] = NoJob

(* Every step keeps JobInv.                                                 *)
LEMMA JobInvStep == TypeOK /\ JobInv /\ [Next]_vars => JobInv'
<1> SUFFICES ASSUME TypeOK, JobInv, [Next]_vars PROVE JobInv'
  OBVIOUS
<1> USE PoolAssumption DEF TypeOK, JobInv, JobTakenOnce, Queued
<1>1. ASSUME NEW t \in Threads, Take(t) PROVE JobInv'
  <2>1. /\ jobs # <<>> /\ Head(jobs) = jobs[1] /\ Len(jobs) \in Nat \ {0}
        /\ DOMAIN jobs = 1 .. Len(jobs)
    BY <1>1 DEF Take
  <2>2. /\ DOMAIN Tail(jobs) = 1 .. Len(jobs) - 1
        /\ \A i \in 1 .. Len(jobs) - 1 : Tail(jobs)[i] = jobs[i + 1]
    BY <2>1
  <2>3. QED
    BY <1>1, <2>1, <2>2 DEF Take
<1>2. ASSUME NEW t \in Threads,
             Exit(t) \/ Wait(t) \/ SpuriousWakeup(t) \/ Finish(t)
      PROVE  JobInv'
  BY <1>2 DEF Exit, Wait, SpuriousWakeup, Finish
<1>3. ASSUME NEW j \in Jobs, Submit(j) PROVE JobInv'
  <2>1. /\ DOMAIN jobs = 1 .. Len(jobs) /\ Len(jobs) \in Nat
        /\ DOMAIN Append(jobs, j) = 1 .. Len(jobs) + 1
        /\ \A i \in 1 .. Len(jobs) : Append(jobs, j)[i] = jobs[i]
        /\ Append(jobs, j)[Len(jobs) + 1] = j
    OBVIOUS
  <2>2. QED
    BY <1>3, <2>1 DEF Submit
<1>4. CASE NotifyOne \/ NotifyAll
  <2>1. /\ UNCHANGED <<jobs, job, submitted>>
        /\ \A t \in Threads : pc'[t] # "run" => pc[t] # "run"
    BY <1>4 DEF NotifyOne, NotifyAll
  <2>2. QED
    BY <2>1
<1>5. CASE Stop \/ Join
  BY <1>5 DEF Stop, Join
<1>6. CASE UNCHANGED vars
  BY <1>6 DEF vars
<1>7. QED
  BY <1>1, <1>2, <1>3, <1>4, <1>5, <1>6 DEF Next, ThreadStep

(* However submit, the threads' wake-ups and the destructor interleave, no  *)
(* job is taken twice.                                                      *)
THEOREM TakenOnce == Spec => []JobTakenOnce
<1>1. Init => JobInv
  BY DEF Init, JobInv, JobTakenOnce, Queued
<1>2. JobInv => JobTakenOnce
  BY DEF JobInv
<1>3. QED
  BY <1>1, <1>2, JobInvStep, PoolTypeCorrect, PTL DEF Spec

-----------------------------------------------------------------------------
(* Every step keeps enough threads awake.                                   *)
LEMMA NoIdleWorkerStep == TypeOK /\ NoIdleWorker /\ [Next]_vars => NoIdleWorker'
<1> SUFFICES ASSUME TypeOK, NoIdleWorker, [Next]_vars PROVE NoIdleWorker'
  OBVIOUS
<1> DEFINE Coming == IF caller = "notify_one" THEN 1 ELSE 0
<1>a. /\ IsFiniteSet(Awake) /\ Cardinality(Awake) \in Nat
      /\ IsFiniteSet(Awake') /\ Cardinality(Awake') \in Nat
  BY PoolAssumption, FS_Subset, FS_CardinalityType DEF Awake
<1>b. Len(jobs) \in Nat
  BY DEF TypeOK
<1>c. ~stop /\ Waiting # {} => Len(jobs) <= Cardinality(Awake) + Coming
  BY DEF NoIdleWorker
<1>1. ASSUME NEW t \in Threads, Take(t) PROVE NoIdleWorker'
  <2>1. Awake' = Awake \ {t} /\ t \in Awake /\ Waiting' = Waiting
    BY <1>1 DEF Take, Awake, Waiting, TypeOK
  <2>2. Cardinality(Awake') = Cardinality(Awake) - 1
    BY <1>a, <2>1, FS_RemoveElement
  <2>3. Len(jobs') = Len(jobs) - 1 /\ UNCHANGED <<stop, caller>>
    BY <1>1 DEF Take, TypeOK
  <2>4. QED
    BY <1>a, <1>b, <1>c, <2>1, <2>2, <2>3 DEF NoIdleWorker
<1>2. ASSUME NEW t \in Threads, Wait(t) PROVE NoIdleWorker'
  <2>1. Len(jobs') = 0
    BY <1>2 DEF Wait
  <2>2. QED
    BY <1>a, <2>1 DEF NoIdleWorker
<1>3. ASSUME NEW t \in Threads, SpuriousWakeup(t) \/ Finish(t) PROVE NoIdleWorker'
  <2>1. Awake' = Awake \cup {t} /\ t \notin Awake /\ Waiting' \subseteq Waiting
    BY <1>3 DEF SpuriousWakeup, Finish, Awake, Waiting, TypeOK
  <2>2. Cardinality(Awake') = Cardinality(Awake) + 1
    BY <1>a, <2>1, FS_AddElement
  <2>3. UNCHANGED <<jobs, stop, caller>>
    BY <1>3 DEF SpuriousWakeup, Finish
  <2>4. QED
    BY <1>a, <1>b, <1>c, <2>1, <2>2, <2>3 DEF NoIdleWorker
<1>4. ASSUME NEW j \in Jobs, Submit(j) PROVE NoIdleWorker'
  <2>1. /\ Awake' = Awake /\ Waiting' = Waiting /\ stop' = stop
        /\ caller = "idle" /\ caller' = "notify_one"
        /\ Len(jobs') = Len(jobs) + 1
    BY <1>4 DEF Submit, Awake, Waiting, TypeOK
  <2>2. QED
    BY <1>a, <1>b, <1>c, <2>1 DEF NoIdleWorker
<1>5. CASE NotifyOne
  <2>1. CASE Waiting = {}
    <3>1. Waiting' = {}
      BY <1>5, <2>1 DEF NotifyOne, Waiting
    <3>2. QED
      BY <3>1 DEF NoIdleWorker
  <2>2. CASE Waiting # {}
    <3> PICK t \in Threads : pc[t] = "wait" /\ pc' = [pc EXCEPT ![t] = "test"]
      BY <1>5, <2>2 DEF NotifyOne, Waiting
    <3>1. Awake' = Awake \cup {t} /\ t \notin Awake
      BY DEF Awake, TypeOK
    <3>2. Cardinality(Awake') = Cardinality(Awake) + 1
      BY <1>a, <3>1, FS_AddElement
    <3>3. caller = "notify_one" /\ caller' = "idle" /\ UNCHANGED <<jobs, stop>>
      BY <1>5 DEF NotifyOne
    <3>4. QED
      BY <1>a, <1>b, <1>c, <2>2, <3>2, <3>3 DEF NoIdleWorker
  <2>3. QED
    BY <2>1, <2>2
<1>6. ASSUME NEW t \in Threads, Exit(t) PROVE NoIdleWorker'
  BY <1>6 DEF Exit, NoIdleWorker
<1>7. CASE NotifyAll
  <2>1. Waiting' = {}
    BY <1>7 DEF NotifyAll, Waiting
  <2>2. QED
    BY <2>1 DEF NoIdleWorker
<1>8. CASE Stop \/ Join \/ UNCHANGED vars
  BY <1>8 DEF Stop, Join, vars, NoIdleWorker, Awake, Waiting
<1>9. QED
  BY <1>1, <1>2, <1>3, <1>4, <1>5, <1>6, <1>7, <1>8 DEF Next, ThreadStep

(* No job waits in the queue for a wake-up that was lost.                   *)
THEOREM NoJobForgotten == Spec => []NoIdleWorker
<1>1. Init => NoIdleWorker
  BY DEF Init, NoIdleWorker, Waiting
<1>2. QED
  BY <1>1, NoIdleWorkerStep, PoolTypeCorrect, PTL DEF Spec

=============================================================================

--------------------------- MODULE JobQueue_proofs ---------------------------
(* Proofs about JobQueue for any number of jobs, units and crashes. *)
EXTENDS JobQueue, TLAPS

\* What a session assigns to a row it loaded is a status, and it never puts the
\* job back into the queue nor makes it vanish.
LEMMA OrmWriteFacts ==
    ASSUME NEW current \in Statuses, NEW loaded \in Statuses
    PROVE  /\ Requested(loaded) \in Statuses
           /\ Answer(loaded) \in Answers
           /\ OrmWrite(current, loaded, Requested(loaded)) \in
                {current, "CANCELLED", "CANCELLING"}
           /\ OrmWrite(current, loaded, Requested(loaded)) # current
                => Answer(loaded) \in {"cancelled", "cancelling"}
           /\ OrmWrite(current, loaded, Requested(loaded)) # current
                => loaded \in {"PENDING", "RUNNING"}
BY DEF Requested, Answer, OrmWrite, Statuses, Ended, Answers

LEMMA UnitsAreUnits == ASSUME NEW j \in Jobs PROVE UnitsOf(j) \subseteq Units
BY JobAssumption DEF UnitsOf, Jobs

-----------------------------------------------------------------------------
LEMMA TypeInit == Init => TypeOK
BY JobAssumption DEF Init, TypeOK, Statuses, WorkerStates, Idle

LEMMA TypeNext == TypeOK /\ [Next]_vars => TypeOK'
<1> SUFFICES ASSUME TypeOK, [Next]_vars PROVE TypeOK'
  OBVIOUS
<1> USE DEF TypeOK
<1>1. ASSUME NEW j \in Jobs, Enqueue(j) \/ CancelLoad(j) \/ CancelTimeout(j)
      PROVE  TypeOK'
  BY <1>1 DEF Enqueue, CancelLoad, CancelTimeout, Statuses
<1>2. ASSUME NEW j \in Jobs, CancelCommit(j) PROVE TypeOK'
  <2>1. status[j] \in Statuses /\ request[j] \in Statuses
    BY <1>2 DEF CancelCommit
  <2>2. /\ OrmWrite(status[j], request[j], Requested(request[j])) \in Statuses
        /\ Answer(request[j]) \in Answers
    BY <2>1, OrmWriteFacts DEF Statuses, Ended
  <2>3. QED
    BY <1>2, <2>2 DEF CancelCommit
<1>3. CASE Claim \/ ClaimCommit \/ Die
  <2>1. CASE Claim
    BY <2>1 DEF Claim, Pending, WorkerStates
  <2>2. CASE ClaimCommit
    <3>1. worker.job \in Jobs
      BY <2>2 DEF ClaimCommit, WorkerStates, Idle
    <3>2. QED
      BY <2>2, <3>1 DEF ClaimCommit, WorkerStates, Statuses
  <2>3. CASE Die
    BY <2>3, JobAssumption DEF Die, WorkerStates
  <2>4. QED
    BY <1>3, <2>1, <2>2, <2>3
<1>4. CASE Start
  <2>1. worker.job \in Jobs
    BY <1>4 DEF Start, WorkerStates, Idle
  <2>2. QED
    BY <1>4, <2>1, UnitsAreUnits DEF Start, WorkerStates
<1>5. ASSUME NEW u \in Units, Checkpoint(u) PROVE TypeOK'
  <2>1. worker \in [pc : {"running"}, job : Jobs, todo : SUBSET Units,
                    fresh : SUBSET Units, polled : BOOLEAN]
    BY <1>5 DEF Checkpoint, WorkerStates, Idle
  <2>2. worker' \in WorkerStates
    BY <1>5, <2>1 DEF Checkpoint, Compute, WorkerStates
  <2>3. QED
    BY <1>5, <2>1, <2>2 DEF Checkpoint, Compute
<1>6. CASE Stop \/ Return \/ Raise
  <2>1. /\ worker.job \in Jobs
        /\ worker.pc = "running" => worker.fresh \in SUBSET Units
    BY <1>6 DEF Stop, Return, Raise, WorkerStates, Idle
  <2>2. PICK f \in SUBSET Units, o \in Ended : Leave(f, o)
    BY <1>6, <2>1 DEF Stop, Return, Raise, Ended
  <2>3. QED
    BY <2>1, <2>2 DEF Leave, WorkerStates
<1>7. CASE Store \/ StoreFails
  <2>1. /\ worker.job \in Jobs /\ worker.fresh \in SUBSET Units
        /\ worker.outcome \in Ended
    BY <1>7 DEF Store, StoreFails, WorkerStates, Idle
  <2>2. QED
    BY <1>7, <2>1 DEF Store, StoreFails, Stored, WorkerStates, Ended
<1>8. CASE FinishLoad \/ FinishCommit
  <2>1. CASE FinishLoad
    <3>1. worker.job \in Jobs /\ worker.outcome \in Ended
      BY <2>1 DEF FinishLoad, WorkerStates, Idle
    <3>2. QED
      BY <2>1, <3>1 DEF FinishLoad, WorkerStates
  <2>2. CASE FinishCommit
    <3>1. worker.job \in Jobs /\ worker.outcome \in Ended
      BY <2>2 DEF FinishCommit, WorkerStates, Idle
    <3>2. QED
      BY <2>2, <3>1 DEF FinishCommit, OrmWrite, WorkerStates, Statuses
  <2>3. QED
    BY <1>8, <2>1, <2>2
<1>9. CASE ClearCache \/ UNCHANGED vars
  BY <1>9 DEF ClearCache, vars
<1>10. QED
  BY <1>1, <1>2, <1>3, <1>4, <1>5, <1>6, <1>7, <1>8, <1>9 DEF Next, RunOnce, Proceed

\* Every variable keeps its type, for any number of jobs and crashes.
THEOREM TypeCorrect == Spec => []TypeOK
BY TypeInit, TypeNext, PTL DEF Spec
-----------------------------------------------------------------------------
(* The inductive invariant *)

\* A job in the queue, or in the worker's hands before the claim, never ran.
QueuedNeverRan ==
    \A j \in Jobs :
        \/ status[j] \in {"NONE", "PENDING"}
        \/ worker.pc = "claiming" /\ worker.job = j
        => starts[j] = 0

StartedRan == worker.pc \in {"starting", "running"} => starts[worker.job] = 1

\* A job that has not begun its work has evaluated nothing.
NothingBeforeStart ==
    \A j \in Jobs :
        starts[j] = 0 \/ (worker.pc = "starting" /\ worker.job = j) => computed[j] = {}

\* What the running job has evaluated is in the cache or still in its hands.
NothingDropped ==
    worker.pc \in {"running", "leaving"} =>
        computed[worker.job] \subseteq cache \cup worker.fresh

IInv == /\ TypeOK
        /\ RunsOnce /\ QueuedNeverRan /\ StartedRan
        /\ NothingBeforeStart /\ NothingDropped /\ SweepKept
        /\ CancelledWasAsked

LEMMA InitIInv == Init => IInv
BY TypeInit
   DEF Init, Idle, IInv, RunsOnce, QueuedNeverRan, StartedRan, NothingBeforeStart,
       NothingDropped, SweepKept, CancelledWasAsked

\* Requests and the end of the process touch neither the history nor the cache.
LEMMA RequestIInv ==
    ASSUME IInv, TypeOK', NEW j \in Jobs,
           Enqueue(j) \/ CancelLoad(j) \/ CancelTimeout(j) \/ CancelCommit(j)
    PROVE  IInv'
<1>1. UNCHANGED <<worker, cache, starts, computed>>
  BY DEF Enqueue, CancelLoad, CancelTimeout, CancelCommit
<1>2. RunsOnce' /\ StartedRan' /\ NothingBeforeStart' /\ NothingDropped' /\ SweepKept'
  BY <1>1 DEF IInv, RunsOnce, StartedRan, NothingBeforeStart, NothingDropped, SweepKept
<1>3. QueuedNeverRan' /\ CancelledWasAsked'
  <2>1. CASE CancelLoad(j) \/ CancelTimeout(j)
    BY <2>1, <1>1 DEF CancelLoad, CancelTimeout, IInv, QueuedNeverRan, CancelledWasAsked
  <2>2. CASE Enqueue(j)
    BY <2>2, <1>1 DEF Enqueue, IInv, TypeOK, QueuedNeverRan, CancelledWasAsked
  <2>3. CASE CancelCommit(j)
    <3> DEFINE new == OrmWrite(status[j], request[j], Requested(request[j]))
    <3>1. status[j] \in Statuses /\ request[j] \in Statuses
      BY <2>3 DEF CancelCommit, IInv, TypeOK
    <3>2. /\ new \in {status[j], "CANCELLED", "CANCELLING"}
          /\ new # status[j] => Answer(request[j]) \in {"cancelled", "cancelling"}
      BY <3>1, OrmWriteFacts
    <3>3. /\ status' = [status EXCEPT ![j] = new]
          /\ answers' = [answers EXCEPT ![j] = @ \cup {Answer(request[j])}]
      BY <2>3 DEF CancelCommit
    <3> HIDE DEF new
    <3>4. QueuedNeverRan'
      BY <1>1, <3>2, <3>3 DEF IInv, TypeOK, QueuedNeverRan
    <3>5. CancelledWasAsked'
      BY <1>1, <3>2, <3>3 DEF IInv, TypeOK, CancelledWasAsked
    <3>6. QED
      BY <3>4, <3>5
  <2>4. QED
    BY <2>1, <2>2, <2>3
<1>4. QED
  BY <1>2, <1>3 DEF IInv

\* The worker's own steps.
LEMMA WorkerIInv == IInv /\ TypeOK' /\ RunOnce => IInv'
<1> SUFFICES ASSUME IInv, TypeOK', RunOnce PROVE IInv'
  OBVIOUS
<1> USE DEF RunsOnce, QueuedNeverRan, StartedRan, NothingBeforeStart, NothingDropped,
            SweepKept, CancelledWasAsked
<1>1. CASE Claim
  BY <1>1 DEF Claim, Pending, IInv, TypeOK, Idle
<1>2. CASE ClaimCommit
  <2>1. worker.job \in Jobs /\ starts[worker.job] = 0
    BY <1>2 DEF ClaimCommit, IInv, TypeOK, WorkerStates, Idle
  <2>2. QED
    BY <1>2, <2>1 DEF ClaimCommit, IInv, TypeOK
<1>3. CASE Start
  <2>1. worker.job \in Jobs
    BY <1>3 DEF Start, IInv, TypeOK, WorkerStates, Idle
  <2>2. QED
    BY <1>3, <2>1 DEF Start, IInv, TypeOK
<1>4. ASSUME NEW u \in Units, Checkpoint(u) PROVE IInv'
  <2>1. worker \in [pc : {"running"}, job : Jobs, todo : SUBSET Units,
                    fresh : SUBSET Units, polled : BOOLEAN]
    BY <1>4 DEF Checkpoint, IInv, TypeOK, WorkerStates, Idle
  <2>2. /\ worker'.pc = "running" /\ worker'.job = worker.job
        /\ worker'.fresh = worker.fresh \cup {u}
        /\ computed' = [computed EXCEPT ![worker.job] = @ \cup {u}]
        /\ UNCHANGED <<status, answers, cache, starts>>
    BY <1>4, <2>1 DEF Checkpoint, Compute
  <2>3. starts[worker.job] = 1
    BY <2>1 DEF IInv
  <2>4. QED
    BY <2>1, <2>2, <2>3 DEF IInv, TypeOK
<1>5. CASE Stop \/ Return \/ Raise
  <2>1. worker.job \in Jobs /\ worker.pc \in {"starting", "running"}
    BY <1>5 DEF Stop, Return, Raise, IInv, TypeOK, WorkerStates, Idle
  <2>2. PICK f, o : /\ Leave(f, o)
                    /\ f = IF worker.pc = "running" THEN worker.fresh ELSE {}
                    /\ o = "CANCELLED" => CancelSeen(worker.job)
    BY <1>5 DEF Stop, Return, Raise
  <2>3. /\ worker' = [pc |-> "leaving", job |-> worker.job, fresh |-> f, outcome |-> o]
        /\ UNCHANGED <<status, answers, cache, starts, computed>>
    BY <2>2 DEF Leave
  <2>4. computed[worker.job] \subseteq cache \cup f
    BY <2>1, <2>2 DEF IInv
  <2>5. QED
    BY <2>1, <2>2, <2>3, <2>4 DEF IInv, CancelSeen
<1>6. CASE Store \/ StoreFails
  <2>1. worker.job \in Jobs
    BY <1>6 DEF Store, StoreFails, IInv, TypeOK, WorkerStates, Idle
  <2>2. QED
    BY <1>6, <2>1 DEF Store, StoreFails, Stored, IInv
<1>7. CASE FinishLoad \/ FinishCommit
  <2>1. worker.job \in Jobs /\ worker.outcome \in Ended
    BY <1>7 DEF FinishLoad, FinishCommit, IInv, TypeOK, WorkerStates, Idle
  <2>2. CASE FinishLoad
    BY <2>1, <2>2 DEF FinishLoad, IInv
  <2>3. CASE FinishCommit
    BY <2>1, <2>3 DEF FinishCommit, OrmWrite, Idle, IInv, TypeOK, Ended
  <2>4. QED
    BY <1>7, <2>2, <2>3
<1>8. QED
  BY <1>1, <1>2, <1>3, <1>4, <1>5, <1>6, <1>7 DEF RunOnce, Proceed
LEMMA NextIInv == IInv /\ [Next]_vars => IInv'
<1> SUFFICES ASSUME IInv, [Next]_vars PROVE IInv'
  OBVIOUS
<1>1. TypeOK'
  BY TypeNext DEF IInv
<1>2. CASE Die
  BY <1>1, <1>2
     DEF Die, Idle, IInv, RunsOnce, QueuedNeverRan, StartedRan, NothingBeforeStart,
         NothingDropped, SweepKept, CancelledWasAsked
<1>3. CASE ClearCache
  <2>1. /\ \A j \in Jobs : computed'[j] = computed[j] \ cache
        /\ UNCHANGED <<status, worker, request, answers, starts>>
    BY <1>3 DEF ClearCache
  <2>2. worker.pc # "idle" => worker.job \in Jobs
    BY DEF IInv, TypeOK, WorkerStates, Idle
  <2>3. SweepKept' /\ NothingBeforeStart' /\ NothingDropped'
    BY <2>1, <2>2 DEF IInv, SweepKept, NothingBeforeStart, NothingDropped
  <2>4. QED
    BY <1>1, <2>1, <2>3
       DEF IInv, RunsOnce, QueuedNeverRan, StartedRan, CancelledWasAsked
<1>4. CASE UNCHANGED vars
  BY <1>1, <1>4
     DEF vars, IInv, RunsOnce, QueuedNeverRan, StartedRan, NothingBeforeStart,
         NothingDropped, SweepKept, CancelledWasAsked
<1>5. CASE RunOnce
  BY <1>1, <1>5, WorkerIInv
<1>6. ASSUME NEW j \in Jobs,
             Enqueue(j) \/ CancelLoad(j) \/ CancelCommit(j) \/ CancelTimeout(j)
      PROVE  IInv'
  BY <1>1, <1>6, RequestIInv
<1>7. QED
  BY <1>2, <1>3, <1>4, <1>5, <1>6 DEF Next

\* However requests race with the worker and however often it dies: no job runs
\* twice, a sweep that ends has kept all its evaluations, and no job is shown as
\* cancelled that nobody cancelled.
THEOREM JobSafety == Spec => [](RunsOnce /\ SweepKept /\ CancelledWasAsked)
<1>1. Spec => []IInv
  BY InitIInv, NextIInv, PTL DEF Spec
<1>2. IInv => RunsOnce /\ SweepKept /\ CancelledWasAsked
  BY DEF IInv
<1>3. QED
  BY <1>1, <1>2, PTL

\* Only a session that loaded the row before the end of the job can change the
\* status of an ended job.
THEOREM EndIsFinal == Spec => EndedIsFinal
<1> DEFINE A == \A j \in Jobs : status[j] \in Ended /\ status'[j] # status[j]
                   => \/ request[j] \in {"PENDING", "RUNNING"}
                      \/ worker.pc # "idle" /\ worker.job = j
<1>1. TypeOK /\ [Next]_vars => [A]_vars
  <2> SUFFICES ASSUME TypeOK, [Next]_vars,
                      NEW j \in Jobs, status[j] \in Ended, status'[j] # status[j]
               PROVE  \/ request[j] \in {"PENDING", "RUNNING"}
                      \/ worker.pc # "idle" /\ worker.job = j
    OBVIOUS
  <2>1. ASSUME NEW i \in Jobs, Enqueue(i) PROVE FALSE
    BY <2>1 DEF Enqueue, TypeOK, Ended
  <2>2. ASSUME NEW i \in Jobs, CancelCommit(i)
        PROVE  request[j] \in {"PENDING", "RUNNING"}
    <3>1. i = j /\ status[j] \in Statuses /\ request[j] \in Statuses
      BY <2>2 DEF CancelCommit, TypeOK
    <3>2. OrmWrite(status[j], request[j], Requested(request[j])) # status[j]
      BY <2>2, <3>1 DEF CancelCommit, TypeOK
    <3>3. QED
      BY <3>1, <3>2, OrmWriteFacts
  <2>3. CASE ClaimCommit \/ FinishCommit
    BY <2>3 DEF ClaimCommit, FinishCommit, TypeOK
  <2>4. CASE UNCHANGED status
    BY <2>4
  <2>5. QED
    BY <2>1, <2>2, <2>3, <2>4
       DEF Next, RunOnce, Proceed, vars, CancelLoad, CancelTimeout, ClearCache, Claim, Start,
           Checkpoint, Compute, Stop, Return, Raise, Leave, Store, StoreFails,
           FinishLoad, Die
<1>2. QED
  BY TypeCorrect, <1>1, PTL DEF Spec, EndedIsFinal

\* No job is run twice, however often the worker dies on it.
THEOREM OneRun == Spec => []RunsOnce
BY JobSafety, PTL

\* A sweep that ended, by itself or because it was stopped, has all it has
\* evaluated in the cache.
THEOREM SweepResumes == Spec => []SweepKept
BY JobSafety, PTL

\* The token has asked the jobs table exactly when a unit has been evaluated.
PolledIsBegun == worker.pc = "running" => (worker.polled <=> worker.fresh # {})

LEMMA PolledIsBegunNext == TypeOK /\ PolledIsBegun /\ [Next]_vars => PolledIsBegun'
<1> SUFFICES ASSUME TypeOK, PolledIsBegun, [Next]_vars PROVE PolledIsBegun'
  OBVIOUS
<1>1. ASSUME NEW u \in Units, Checkpoint(u) PROVE PolledIsBegun'
  <2>1. worker \in [pc : {"running"}, job : Jobs, todo : SUBSET Units,
                    fresh : SUBSET Units, polled : BOOLEAN]
    BY <1>1 DEF Checkpoint, TypeOK, WorkerStates, Idle
  <2>2. worker'.polled = TRUE /\ u \in worker'.fresh
    BY <1>1, <2>1 DEF Checkpoint, Compute
  <2>3. QED
    BY <2>2 DEF PolledIsBegun
<1>2. CASE Start
  BY <1>2 DEF Start, PolledIsBegun
<1>3. CASE worker' = worker
  BY <1>3 DEF PolledIsBegun
<1>4. CASE worker'.pc # "running"
  BY <1>4 DEF PolledIsBegun
<1>5. CASE Claim \/ ClaimCommit \/ Stop \/ Return \/ Store \/ FinishLoad \/ FinishCommit
             \/ Raise \/ StoreFails \/ Die
  <2>1. worker'.pc # "running"
    BY <1>5
       DEF Claim, ClaimCommit, Stop, Return, Store, FinishLoad, FinishCommit, Raise,
           StoreFails, Die, Leave, Idle
  <2>2. QED
    BY <1>4, <2>1
<1>6. QED
  BY <1>1, <1>2, <1>3, <1>5
     DEF Next, RunOnce, Proceed, vars, ClearCache, Enqueue, CancelLoad, CancelCommit,
         CancelTimeout

\* A job that was flagged as cancelled before its first checkpoint evaluates
\* nothing: its token has not asked before, so it asks the jobs table now.
THEOREM FirstLook == Spec => FirstCheckpointStops
<1> DEFINE A == \A j \in Jobs :
                  worker.pc = "running" /\ worker.job = j /\ worker.fresh = {} /\ CancelSeen(j)
                    => computed'[j] \subseteq computed[j]
           I == TypeOK /\ PolledIsBegun
<1>1. Init => I
  BY TypeInit DEF Init, Idle, PolledIsBegun
<1>2. I /\ [Next]_vars => I'
  BY TypeNext, PolledIsBegunNext
<1>3. I /\ [Next]_vars => [A]_vars
  <2> SUFFICES ASSUME I, [Next]_vars, NEW j \in Jobs,
                      worker.pc = "running", worker.job = j, worker.fresh = {}, CancelSeen(j)
               PROVE  computed'[j] \subseteq computed[j]
    OBVIOUS
  <2>1. ~worker.polled
    BY DEF PolledIsBegun
  <2>2. ASSUME NEW u \in Units, Checkpoint(u) PROVE FALSE
    BY <2>1, <2>2 DEF Checkpoint
  <2>3. CASE ClearCache
    BY <2>3 DEF ClearCache
  <2>4. CASE UNCHANGED computed
    BY <2>4
  <2>5. QED
    BY <2>2, <2>3, <2>4
       DEF Next, RunOnce, Proceed, vars, Enqueue, CancelLoad, CancelCommit, CancelTimeout,
           Claim, ClaimCommit, Start, Stop, Return, Raise, Leave, Store, StoreFails,
           FinishLoad, FinishCommit, Die
<1>4. QED
  BY <1>1, <1>2, <1>3, PTL DEF Spec, FirstCheckpointStops
=============================================================================

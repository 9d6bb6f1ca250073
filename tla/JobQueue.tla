------------------------------ MODULE JobQueue ------------------------------
(***************************************************************************)
(* Background jobs: the web process enqueues and cancels them, the worker  *)
(* process claims and runs them one at a time, and the jobs table is all   *)
(* they share.                                                             *)
(*                                                                         *)
(* Each of claiming, cancelling and finishing is a session that loads the  *)
(* row first and writes it later, when it gets the write lock; the ORM     *)
(* then writes the status unless it equals the loaded one.  The worker has *)
(* no handler around claim and finish: an error there ends the process,    *)
(* like a crash, and the container starts it again.                        *)
(*                                                                         *)
(* A sweep evaluates parameter combinations and caches them; a download    *)
(* has checkpoints but stores nothing before its end; the other kinds run  *)
(* to their end without looking at the jobs table.                         *)
(***************************************************************************)
EXTENDS Integers, FiniteSets

CONSTANTS
    LastJob,        \* bound: the jobs are 1..LastJob, in order of created_at
    Kind,           \* job |-> "sweep", "download" or "other"
    Units,          \* combinations of a sweep, chunks of a download
    MaxCrashes      \* bound: how often the worker process dies

ASSUME JobAssumption ==
    /\ LastJob \in Nat
    /\ Kind \in [1..LastJob -> {"sweep", "download", "other"}]
    /\ IsFiniteSet(Units)
    /\ MaxCrashes \in Nat

Jobs == 1..LastJob
Ended == {"DONE", "FAILED", "CANCELLED"}
Statuses == {"NONE", "PENDING", "RUNNING", "CANCELLING"} \cup Ended
Answers == {"cancelled", "cancelling", "finished"}

VARIABLES
    status,         \* jobs.status; NONE before the job is enqueued
    worker,         \* JobWorker.run_once
    request,        \* job |-> the session of request_cancel
    answers,        \* job |-> what cancel requests have told the user
    cache,          \* the combinations in hyperopt_evaluations
    starts,         \* history: job |-> how often it was run
    computed,       \* history: job |-> the combinations it has evaluated
    crashes

vars == <<status, worker, request, answers, cache, starts, computed, crashes>>

Idle == [pc |-> "idle"]

WorkerStates ==
    {Idle}
    \cup [pc : {"claiming", "starting"}, job : Jobs]
    \cup [pc : {"running"}, job : Jobs, todo : SUBSET Units, fresh : SUBSET Units,
          polled : BOOLEAN]
    \cup [pc : {"leaving"}, job : Jobs, fresh : SUBSET Units, outcome : Ended]
    \cup [pc : {"ended"}, job : Jobs, outcome : Ended]
    \cup [pc : {"finishing"}, job : Jobs, outcome : Ended, loaded : Statuses]

Init ==
    /\ status = [j \in Jobs |-> "NONE"]
    /\ worker = Idle
    /\ request = [j \in Jobs |-> "none"]
    /\ answers = [j \in Jobs |-> {}]
    /\ cache = {}
    /\ starts = [j \in Jobs |-> 0]
    /\ computed = [j \in Jobs |-> {}]
    /\ crashes = 0

\* What a commit leaves when the session loaded one status and assigned another.
OrmWrite(current, loaded, assigned) ==
    IF assigned = loaded THEN current ELSE assigned

-----------------------------------------------------------------------------
(* The web process *)

Enqueue(j) ==
    /\ status[j] = "NONE"
    /\ \A i \in 1..(j - 1) : status[i] # "NONE"
    /\ status' = [status EXCEPT ![j] = "PENDING"]
    /\ UNCHANGED <<worker, request, answers, cache, starts, computed, crashes>>

CancelLoad(j) ==
    /\ request[j] = "none"
    /\ status[j] # "NONE"
    /\ request' = [request EXCEPT ![j] = status[j]]
    /\ UNCHANGED <<status, worker, answers, cache, starts, computed, crashes>>

\* What request_cancel answers for the status it loaded.
Answer(loaded) == CASE loaded = "PENDING" -> "cancelled"
                    [] loaded \in {"RUNNING", "CANCELLING"} -> "cancelling"
                    [] OTHER -> "finished"

\* Faulty: a job that has ended is flagged too.
RequestedAlways(loaded) == IF loaded = "PENDING" THEN "CANCELLED" ELSE "CANCELLING"

\* The status request_cancel assigns for the status it loaded.
Requested(loaded) == CASE loaded = "PENDING" -> "CANCELLED"
                       [] loaded = "RUNNING" -> "CANCELLING"
                       [] OTHER -> loaded

CancelCommit(j) ==
    /\ request[j] # "none"
    /\ status' = [status EXCEPT ![j] = OrmWrite(@, request[j], Requested(request[j]))]
    /\ answers' = [answers EXCEPT ![j] = @ \cup {Answer(request[j])}]
    /\ request' = [request EXCEPT ![j] = "none"]
    /\ UNCHANGED <<worker, cache, starts, computed, crashes>>

\* The write lock is not to be had: the request fails and the user is told so.
CancelTimeout(j) ==
    /\ request[j] \in {"PENDING", "RUNNING"}
    /\ request' = [request EXCEPT ![j] = "none"]
    /\ UNCHANGED <<status, worker, answers, cache, starts, computed, crashes>>

\* The "clear cache" button; what it deletes no longer counts as evaluated.
ClearCache ==
    /\ cache # {}
    /\ cache' = {}
    /\ computed' = [j \in Jobs |-> computed[j] \ cache]
    /\ UNCHANGED <<status, worker, request, answers, starts, crashes>>

-----------------------------------------------------------------------------
(* The worker process *)

\* Faulty: a job waits until every older one has ended.
OldestUnended == {j \in Jobs : /\ status[j] = "PENDING"
                               /\ \A i \in 1..(j - 1) : status[i] \in Ended}

Pending == {j \in Jobs : status[j] = "PENDING"}

Claim ==
    /\ worker.pc = "idle"
    /\ \E j \in Pending : /\ \A i \in Pending : j <= i
                          /\ worker' = [pc |-> "claiming", job |-> j]
    /\ UNCHANGED <<status, request, answers, cache, starts, computed, crashes>>

ClaimCommit ==
    /\ worker.pc = "claiming"
    /\ status' = [status EXCEPT ![worker.job] = "RUNNING"]
    /\ starts' = [starts EXCEPT ![worker.job] = @ + 1]
    /\ worker' = [pc |-> "starting", job |-> worker.job]
    /\ UNCHANGED <<request, answers, cache, computed, crashes>>

\* The units the job has to work through; a sweep skips what the cache holds.
UnitsOf(j) == CASE Kind[j] = "sweep" -> Units \ cache
                [] Kind[j] = "download" -> Units
                [] Kind[j] = "other" -> {}

Start ==
    /\ worker.pc = "starting"
    /\ worker' = [pc |-> "running", job |-> worker.job, todo |-> UnitsOf(worker.job),
                  fresh |-> {}, polled |-> FALSE]
    /\ UNCHANGED <<status, request, answers, cache, starts, computed, crashes>>

\* Faulty: the unit is left on the list.
ComputeAgain(u) ==
    /\ worker' = [worker EXCEPT !.fresh = @ \cup {u}, !.polled = TRUE]
    /\ computed' = [computed EXCEPT ![worker.job] = @ \cup {u}]
    /\ UNCHANGED <<status, request, answers, cache, starts, crashes>>

Compute(u) ==
    /\ worker' = [worker EXCEPT !.todo = @ \ {u}, !.fresh = @ \cup {u}, !.polled = TRUE]
    /\ computed' = [computed EXCEPT ![worker.job] = @ \cup {u}]
    /\ UNCHANGED <<status, request, answers, cache, starts, crashes>>

CancelSeen(j) == status[j] \in {"CANCELLING", "CANCELLED"}

\* Faulty: the token waits for a poll_interval before its first look.
LazyCheckpoint(u) ==
    /\ worker.pc = "running"
    /\ u \in worker.todo
    /\ Compute(u)

\* The checkpoint before a unit: the token reads the status, unless it has read
\* it less than poll_interval ago.
Checkpoint(u) ==
    /\ worker.pc = "running"
    /\ u \in worker.todo
    /\ worker.polled \/ ~CancelSeen(worker.job)
    /\ Compute(u)

\* The job's coroutine returns or raises; a sweep's finally block comes next.
Leave(fresh, outcome) ==
    /\ worker' = [pc |-> "leaving", job |-> worker.job, fresh |-> fresh,
                  outcome |-> outcome]
    /\ UNCHANGED <<status, request, answers, cache, starts, computed, crashes>>

\* Faulty: an interrupted job is recorded as cancelled whatever interrupted it.
StopAnyway ==
    /\ worker.pc = "running"
    /\ worker.todo # {}
    /\ Leave(worker.fresh, "CANCELLED")

Stop ==
    /\ worker.pc = "running"
    /\ worker.todo # {}
    /\ CancelSeen(worker.job)
    /\ Leave(worker.fresh, "CANCELLED")

Return ==
    /\ worker.pc = "running"
    /\ worker.todo = {}
    /\ Leave(worker.fresh, "DONE")

Raise ==
    \/ worker.pc = "starting" /\ Leave({}, "FAILED")
    \/ worker.pc = "running" /\ Leave(worker.fresh, "FAILED")

\* Faulty: the evaluations are stored when the sweep returns, not in a finally.
StoredIf(fresh, outcome) == IF outcome = "DONE" THEN fresh ELSE {}

\* What the finally block of a sweep adds to the cache of evaluations.
Stored(fresh, outcome) == IF Kind[worker.job] = "sweep" THEN fresh ELSE {}

Store ==
    /\ worker.pc = "leaving"
    /\ cache' = cache \cup Stored(worker.fresh, worker.outcome)
    /\ worker' = [pc |-> "ended", job |-> worker.job, outcome |-> worker.outcome]
    /\ UNCHANGED <<status, request, answers, starts, computed, crashes>>

\* An error while storing replaces the outcome; the evaluations are lost.
StoreFails ==
    /\ worker.pc = "leaving"
    /\ worker.fresh # {}
    /\ worker' = [pc |-> "ended", job |-> worker.job, outcome |-> "FAILED"]
    /\ UNCHANGED <<status, request, answers, cache, starts, computed, crashes>>

FinishLoad ==
    /\ worker.pc = "ended"
    /\ worker' = [pc |-> "finishing", job |-> worker.job,
                  outcome |-> worker.outcome, loaded |-> status[worker.job]]
    /\ UNCHANGED <<status, request, answers, cache, starts, computed, crashes>>

\* Faulty: a failed job goes back to the queue.
FinishRetry ==
    /\ worker.pc = "finishing"
    /\ status' = [status EXCEPT ![worker.job] =
                    IF worker.outcome = "FAILED" THEN "PENDING" ELSE worker.outcome]
    /\ worker' = Idle
    /\ UNCHANGED <<request, answers, cache, starts, computed, crashes>>

FinishCommit ==
    /\ worker.pc = "finishing"
    /\ status' = [status EXCEPT ![worker.job] =
                    OrmWrite(@, worker.loaded, worker.outcome)]
    /\ worker' = Idle
    /\ UNCHANGED <<request, answers, cache, starts, computed, crashes>>

\* Killed, redeployed, or ended by a lock timeout in a session of run_once.
Die ==
    /\ worker.pc # "idle"
    /\ crashes < MaxCrashes
    /\ crashes' = crashes + 1
    /\ worker' = Idle
    /\ UNCHANGED <<status, request, answers, cache, starts, computed>>

-----------------------------------------------------------------------------
\* What run_once does when nothing goes wrong.
Proceed ==
    \/ Claim \/ ClaimCommit \/ Start
    \/ \E u \in Units : Checkpoint(u)
    \/ Stop \/ Return
    \/ Store \/ FinishLoad \/ FinishCommit

RunOnce == Proceed \/ Raise \/ StoreFails

Next ==
    \/ RunOnce
    \/ Die
    \/ ClearCache
    \/ \E j \in Jobs : Enqueue(j) \/ CancelLoad(j) \/ CancelCommit(j) \/ CancelTimeout(j)

Spec == Init /\ [][Next]_vars

\* The worker's loop goes on as long as the process lives, and so does the
\* handler of a cancel request once it has begun.  No error is ever due.
FairSpec ==
    /\ Spec
    /\ WF_vars(Proceed)
    /\ \A j \in Jobs : WF_vars(CancelCommit(j))
-----------------------------------------------------------------------------
\* Values every variable takes.
TypeOK ==
    /\ status \in [Jobs -> Statuses]
    /\ worker \in WorkerStates
    /\ request \in [Jobs -> Statuses \cup {"none"}]
    /\ answers \in [Jobs -> SUBSET Answers]
    /\ cache \subseteq Units
    /\ starts \in [Jobs -> Nat]
    /\ computed \in [Jobs -> SUBSET Units]
    /\ crashes \in 0..MaxCrashes

\* A job is run at most once, however the worker dies and whatever the cancel
\* requests write: nothing ever puts a claimed job back into the queue.
RunsOnce == \A j \in Jobs : starts[j] <= 1

\* When a sweep ends, by itself or because the user stopped it, every
\* combination it has evaluated is in the cache, so the next sweep resumes there.
SweepKept ==
    worker.pc \in {"ended", "finishing"} =>
        (Kind[worker.job] = "sweep" /\ worker.outcome \in {"DONE", "CANCELLED"}
            => computed[worker.job] \subseteq cache)

\* No job is shown as cancelled, or stops as cancelled, unless a user asked for it.
CancelledWasAsked ==
    \A j \in Jobs :
        (\/ status[j] \in {"CANCELLING", "CANCELLED"}
         \/ /\ worker.pc \in {"leaving", "ended", "finishing"}
            /\ worker.job = j
            /\ worker.outcome = "CANCELLED")
        => answers[j] \cap {"cancelled", "cancelling"} # {}

\* A job flagged before its first checkpoint does none of its work.
FirstCheckpointStops ==
    [][\A j \in Jobs :
         worker.pc = "running" /\ worker.job = j /\ worker.fresh = {} /\ CancelSeen(j)
            => computed'[j] \subseteq computed[j]]_vars

\* The status of an ended job changes only by a session that loaded the row
\* before it ended; a request made after the end changes nothing.
EndedIsFinal ==
    [][\A j \in Jobs : status[j] \in Ended /\ status'[j] # status[j]
            => \/ request[j] \in {"PENDING", "RUNNING"}
               \/ worker.pc # "idle" /\ worker.job = j]_vars

\* Every queued job is taken from the queue or cancelled, also when the worker has died on
\* another one, and a worker that has taken a job comes to its end.
QueueMoves ==
    /\ \A j \in Jobs : status[j] = "PENDING" ~> status[j] # "PENDING"
    /\ worker.pc # "idle" ~> worker.pc = "idle"

\* repositories.py:658 "A PENDING job is cancelled here and now - nothing has
\* started, so there is nobody to ask": a job whose user was told so never runs.
CancelledNeverRuns == \A j \in Jobs : "cancelled" \in answers[j] => starts[j] = 0
=============================================================================

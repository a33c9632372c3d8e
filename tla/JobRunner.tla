------------------------------ MODULE JobRunner ------------------------------
(***************************************************************************)
(* The data pipeline's job runner (services/data_pipeline/app): the        *)
(* in-memory JobService, the jobs API and the JobRunner's poll loop.       *)
(*                                                                         *)
(* Everything runs in one event loop.  JobService's methods never really   *)
(* suspend, so a poll, an API call, and each stretch of _execute() between *)
(* the semaphore and the handler are one action.  Every poll creates a     *)
(* task for every job it finds pending; a task waits for a permit of the   *)
(* semaphore, runs the handler and ends.                                   *)
(*                                                                         *)
(* Abstracted: the order in which waiting tasks get a permit (any one may; *)
(* the code's semaphore is first-in first-out); progress, parameters and   *)
(* results.                                                                *)
(***************************************************************************)
EXTENDS Naturals, FiniteSets

CONSTANTS Jobs,       \* job ids
          Unknown,    \* jobs whose kind has no handler
          Permits,    \* the semaphore's permits, one for each task in a handler
          ListLimit,  \* pending jobs one poll takes, the newest ones
          MaxWaiting, \* bound on the waiting tasks of one job
          NoJob       \* what a free permit holds

PENDING == "pending"
RUNNING == "running"
DONE == "done"
FAILED == "failed"
CANCELLED == "cancelled"
Absent == "absent"
Settled == {DONE, FAILED, CANCELLED}

ASSUME RunnerAssumption ==
    /\ IsFiniteSet(Jobs)
    /\ Unknown \subseteq Jobs
    /\ ListLimit \in Nat \ {0}
    /\ MaxWaiting \in Nat \ {0}
    /\ NoJob \notin Jobs

VARIABLES status,    \* the job's status, Absent before it is created
          created,   \* created_at: the number of jobs there were, itself included
          cancelSet, \* jobs whose cancel_event is set
          waiting,   \* tasks of each job that have no permit yet
          permit,    \* the job whose handler runs under each permit
          loop,      \* the poll loop: "running" or "stopped"
          early      \* history: jobs cancelled while pending without a task

runnerVars == <<status, created, cancelSet, waiting, permit, loop, early>>

RunnerInit == /\ status = [j \in Jobs |-> Absent]
              /\ created = [j \in Jobs |-> 0]
              /\ cancelSet = {}
              /\ waiting = [j \in Jobs |-> 0]
              /\ permit = [p \in Permits |-> NoJob]
              /\ loop = "running"
              /\ early = {}

-----------------------------------------------------------------------------
(* The API.                                                                *)
CreateJob(j) ==
    /\ status[j] = Absent
    /\ status' = [status EXCEPT ![j] = PENDING]
    /\ created' = [created EXCEPT ![j] = Cardinality({k \in Jobs : status[k] # Absent}) + 1]
    /\ UNCHANGED <<cancelSet, waiting, permit, loop, early>>

(* cancel_job() only sets the event, whatever the job's status.            *)
CancelJob(j) ==
    /\ status[j] # Absent
    /\ cancelSet' = cancelSet \union {j}
    /\ early' = IF status[j] = PENDING /\ waiting[j] = 0 THEN early \union {j} ELSE early
    /\ UNCHANGED <<status, created, waiting, permit, loop>>

-----------------------------------------------------------------------------
(* _loop().                                                                *)

(* list_jobs(limit, PENDING): the newest first.                            *)
Listed(j) ==
    /\ status[j] = PENDING
    /\ Cardinality({k \in Jobs : status[k] = PENDING /\ created[k] > created[j]}) < ListLimit

(* A task goes for its permit on its first step, a second before the next  *)
(* poll: at a poll, tasks wait only while no permit is free.  (A poll may  *)
(* fall in the turn of the event loop in which a permit was released and   *)
(* the woken task has not run yet: that poll lists the same pending jobs   *)
(* as one before the release.)                                             *)
PermitsAreTaken ==
    (\E j \in Jobs : waiting[j] > 0) => \A p \in Permits : permit[p] # NoJob

(* Faulty variant: the poll does not look at the cancel event.             *)
PollIgnoresCancel ==
    /\ loop = "running" /\ PermitsAreTaken
    /\ \A j \in Jobs : Listed(j) => waiting[j] < MaxWaiting
    /\ waiting' = [j \in Jobs |-> IF Listed(j) THEN waiting[j] + 1 ELSE waiting[j]]
    /\ UNCHANGED <<status, created, cancelSet, permit, loop, early>>

(* A listed job whose cancel event is set becomes cancelled; every other   *)
(* one gets a task, also when it has one already.                          *)
Poll ==
    /\ loop = "running" /\ PermitsAreTaken
    /\ \A j \in Jobs \ cancelSet : Listed(j) => waiting[j] < MaxWaiting
    /\ status' = [j \in Jobs |-> IF Listed(j) /\ j \in cancelSet THEN CANCELLED ELSE status[j]]
    /\ waiting' = [j \in Jobs |-> IF Listed(j) /\ j \notin cancelSet
                                    THEN waiting[j] + 1 ELSE waiting[j]]
    /\ UNCHANGED <<created, cancelSet, permit, loop, early>>

-----------------------------------------------------------------------------
(* _execute().                                                             *)

(* A waiting task gets a free permit.                                      *)
TakesPermit(p, j) ==
    /\ permit[p] = NoJob
    /\ waiting[j] > 0
    /\ waiting' = [waiting EXCEPT ![j] = @ - 1]

(* Faulty variant: the handler is not looked up first.                     *)
StartUnchecked(p, j) ==
    /\ TakesPermit(p, j)
    /\ status' = [status EXCEPT ![j] = RUNNING]
    /\ permit' = [permit EXCEPT ![p] = j]
    /\ UNCHANGED <<created, cancelSet, loop, early>>

(* The job becomes running, whatever its status was.                       *)
Start(p, j) ==
    /\ TakesPermit(p, j)
    /\ j \notin Unknown
    /\ status' = [status EXCEPT ![j] = RUNNING]
    /\ permit' = [permit EXCEPT ![p] = j]
    /\ UNCHANGED <<created, cancelSet, loop, early>>

(* Faulty variant: the task returns without an update.                     *)
StartUnknownSilently(p, j) ==
    /\ TakesPermit(p, j)
    /\ j \in Unknown
    /\ UNCHANGED <<status, created, cancelSet, permit, loop, early>>

(* No handler: the job fails and the permit is free again.                 *)
StartUnknown(p, j) ==
    /\ TakesPermit(p, j)
    /\ j \in Unknown
    /\ status' = [status EXCEPT ![j] = FAILED]
    /\ UNCHANGED <<created, cancelSet, permit, loop, early>>

(* The handler under p ended and the job got its new status.               *)
Ends(p, s) ==
    /\ permit[p] # NoJob
    /\ status' = [status EXCEPT ![permit[p]] = s]
    /\ permit' = [permit EXCEPT ![p] = NoJob]
    /\ UNCHANGED <<created, cancelSet, waiting, loop, early>>

JobReturns(p) == Ends(p, DONE)

(* Faulty variant: the exception is swallowed without an update.           *)
JobRaisesSilently(p) ==
    /\ permit[p] # NoJob
    /\ permit' = [permit EXCEPT ![p] = NoJob]
    /\ UNCHANGED <<status, created, cancelSet, waiting, loop, early>>

JobRaises(p) == Ends(p, FAILED)

-----------------------------------------------------------------------------
(* Shutdown: stop() ends the loop, then the event loop cancels the tasks;  *)
(* one that waits for a permit is cancelled outside the try.               *)
StopLoop ==
    /\ loop = "running"
    /\ loop' = "stopped"
    /\ UNCHANGED <<status, created, cancelSet, waiting, permit, early>>

CancelRunning(p) == loop = "stopped" /\ Ends(p, CANCELLED)

CancelWaiting(j) ==
    /\ loop = "stopped"
    /\ waiting[j] > 0
    /\ waiting' = [waiting EXCEPT ![j] = @ - 1]
    /\ UNCHANGED <<status, created, cancelSet, permit, loop, early>>

RunnerNext == \/ \E j \in Jobs : CreateJob(j) \/ CancelJob(j) \/ CancelWaiting(j)
        \/ \E p \in Permits : \/ \E j \in Jobs : Start(p, j) \/ StartUnknown(p, j)
                              \/ JobReturns(p) \/ JobRaises(p) \/ CancelRunning(p)
        \/ Poll
        \/ StopLoop

(* The loop polls every second, a free permit goes to a waiting task, and  *)
(* handlers end: they read finite data and have no unbounded wait.         *)
RunnerFairness ==
    /\ WF_runnerVars(Poll)
    /\ WF_runnerVars(\E p \in Permits, j \in Jobs : Start(p, j) \/ StartUnknown(p, j))
    /\ \A p \in Permits : WF_runnerVars(JobReturns(p) \/ JobRaises(p))

RunnerSafeSpec == RunnerInit /\ [][RunnerNext]_runnerVars
RunnerSpec == RunnerSafeSpec /\ RunnerFairness

-----------------------------------------------------------------------------
Executing(j) == \E p \in Permits : permit[p] = j

RunnerTypeOK ==
    /\ status \in [Jobs -> Settled \union {Absent, PENDING, RUNNING}]
    /\ created \in [Jobs -> Nat]
    /\ cancelSet \subseteq Jobs
    /\ waiting \in [Jobs -> 0..MaxWaiting]
    /\ permit \in [Permits -> (Jobs \ Unknown) \union {NoJob}]
    /\ loop \in {"running", "stopped"}
    /\ early \subseteq cancelSet

(* The status a caller reads is `running` only while a handler of the job  *)
(* runs, and a job with a running handler never reads as pending, although *)
(* several tasks of one job write its status.                              *)
RunningIsExecuting ==
    \A j \in Jobs : /\ status[j] = RUNNING => Executing(j)
                    /\ Executing(j) => status[j] \notin {Absent, PENDING}

(* A cancellation that comes before the job got a task is honoured: the    *)
(* job never gets one, now or later, and never leaves pending but to       *)
(* become cancelled.                                                       *)
EarlyCancelHonoured ==
    \A j \in early : /\ waiting[j] = 0
                     /\ ~Executing(j)
                     /\ status[j] \in {PENDING, CANCELLED}

(* Every job ends, and stays ended once its last task is gone, however     *)
(* many tasks it got, unless the service shuts down: no job is starved by  *)
(* the newest-first list, by the permits or by a job without a handler.    *)
EveryJobSettles ==
    (<>[](loop = "running")) => \A j \in Jobs : <>[](status[j] \in Settled \union {Absent})

(* "pending -> running -> done / failed / cancelled (via /cancel           *)
(* endpoint)" (the service's README, Job Lifecycle): the last statuses of  *)
(* the lifecycle are final.                                                *)
SettledIsFinal ==
    [][\A j \in Jobs : status[j] \in Settled => status'[j] = status[j]]_runnerVars
=============================================================================

-------------------------------- MODULE Job --------------------------------
(***************************************************************************)
(* The jobs of a scheduler that is asked to terminate (job.py): each job   *)
(* runs its action in a thread, the main thread collects what the threads  *)
(* return, retries what failed temporarily, and on termination raises an   *)
(* exception in the threads that are at work.                              *)
(*                                                                         *)
(* The main thread reads _thread_id under the lock, releases the lock, and *)
(* reads it again for the call that raises the exception; the interpreter  *)
(* delivers the exception when the thread next checks for one, which may   *)
(* be after it has left the block that handles it.                         *)
(***************************************************************************)
EXTENDS Naturals, FiniteSets

CONSTANTS
  Jobs,        \* the jobs of the scheduler
  MaxRetries,  \* Job._max_retries
  NoJob        \* no job

ASSUME JobsAssumption == IsFiniteSet(Jobs) /\ MaxRetries \in Nat /\ NoJob \notin Jobs

VARIABLES
  tries,            \* _tries
  thread,           \* how far the thread of the job is
  code,             \* what child_action() is going to return
  threadId,         \* the jobs whose _thread_id is not None
  shouldTerminate,  \* the jobs with _should_terminate
  jobTerminated,    \* the jobs with _terminated
  raised,           \* the jobs in whose thread an exception is to be delivered
  active,           \* Scheduler._active_jobs
  group,            \* how the task group of its queue counts a job
  schedTerminated,  \* Scheduler.terminated
  terminateCall,    \* _terminate_jobs_real is pending in the loop
  main,             \* the main thread: in its loop, or inside terminate()
  toTerminate,      \* the jobs that _terminate_jobs_real has still to visit
  target            \* the job it is visiting

jobVars == <<tries, thread, code, threadId, shouldTerminate, jobTerminated, raised>>
schedVars == <<active, group, schedTerminated, terminateCall>>
mainVars == <<main, toTerminate, target>>
vars == <<jobVars, schedVars, mainVars>>

Code == {"none", "OK", "FAIL", "PERM_FAIL", "SKIPPED", "TERMINATED"}

TypeOK ==
  /\ tries \in [Jobs -> 1..(MaxRetries + 1)]
  /\ thread \in [Jobs -> {"queued", "acting", "leaving", "unwinding", "returned", "died"}]
  /\ code \in [Jobs -> Code]
  /\ threadId \subseteq Jobs
  /\ shouldTerminate \subseteq Jobs
  /\ jobTerminated \subseteq Jobs
  /\ raised \subseteq Jobs
  /\ active \subseteq Jobs
  /\ group \in [Jobs -> {"none", "processed", "skipped", "failed"}]
  /\ schedTerminated \in BOOLEAN
  /\ terminateCall \in BOOLEAN
  /\ main \in {"loop", "visit", "read", "raise"}
  /\ toTerminate \subseteq Jobs
  /\ target \in Jobs \cup {NoJob}

\* Every job was started once: start() has queued its action in the pool.
Init ==
  /\ tries = [j \in Jobs |-> 1]
  /\ thread = [j \in Jobs |-> "queued"]
  /\ code = [j \in Jobs |-> "none"]
  /\ threadId = {} /\ shouldTerminate = {} /\ jobTerminated = {} /\ raised = {}
  /\ active = Jobs
  /\ group = [j \in Jobs |-> "none"]
  /\ schedTerminated = FALSE /\ terminateCall = FALSE
  /\ main = "loop" /\ toTerminate = {} /\ target = NoJob

-----------------------------------------------------------------------------
(* The thread of a job: child_action(). *)

threadFrame == <<tries, shouldTerminate, jobTerminated, schedVars, mainVars>>

Goes(j, where, what) ==
  /\ thread' = [thread EXCEPT ![j] = where]
  /\ code' = [code EXCEPT ![j] = what]

\* The log file cannot be opened: a permanent failure before anything else.
LogFails(j) ==
  /\ thread[j] = "queued"
  /\ Goes(j, "unwinding", "PERM_FAIL")
  /\ UNCHANGED <<threadId, raised, threadFrame>>

\* Mutant of Enter: the thread does not look whether it should stop.
EnterUnchecked(j) ==
  /\ thread[j] = "queued"
  /\ threadId' = threadId \cup {j}
  /\ Goes(j, "acting", "none")
  /\ UNCHANGED <<raised, threadFrame>>

\* Under the lock the thread announces itself and looks whether it should stop.
Enter(j) ==
  /\ thread[j] = "queued"
  /\ threadId' = threadId \cup {j}
  /\ IF j \in shouldTerminate THEN Goes(j, "unwinding", "TERMINATED")
     ELSE Goes(j, "acting", "none")
  /\ UNCHANGED <<raised, threadFrame>>

\* The action ends, in one of the ways the inner try tells apart; the thread
\* takes its name back in the finally clause.
Act(j) ==
  /\ thread[j] = "acting"
  /\ \E c \in {"OK", "FAIL", "PERM_FAIL", "SKIPPED"} : Goes(j, "leaving", c)
  /\ threadId' = threadId \ {j}
  /\ UNCHANGED <<raised, threadFrame>>

\* The thread leaves the block that handles the exception ...
Leave(j) ==
  /\ thread[j] = "leaving"
  /\ Goes(j, "unwinding", code[j])
  /\ UNCHANGED <<threadId, raised, threadFrame>>

\* ... and returns; an exception that comes now finds the thread in the pool.
Return(j) ==
  /\ thread[j] = "unwinding"
  /\ Goes(j, "returned", code[j])
  /\ raised' = raised \ {j}
  /\ UNCHANGED <<threadId, threadFrame>>

\* The exception is delivered: inside the block it makes the job return
\* TERMINATED, outside of it nothing handles it and the job never completes.
Deliver(j) ==
  /\ j \in raised /\ thread[j] \in {"acting", "leaving", "unwinding"}
  /\ raised' = raised \ {j}
  /\ IF thread[j] = "unwinding" THEN Goes(j, "died", "none") /\ UNCHANGED threadId
     ELSE Goes(j, "unwinding", "TERMINATED") /\ threadId' = threadId \ {j}
  /\ UNCHANGED threadFrame

\* All a thread does but the action itself, which may take for ever.
Proceed(j) == LogFails(j) \/ Enter(j) \/ Leave(j) \/ Return(j) \/ Deliver(j)

ThreadStep(j) == Act(j) \/ Proceed(j)

-----------------------------------------------------------------------------
(* The main thread. *)

\* _parent_child_completed(): a temporary failure is retried while tries are left
\* and the scheduler is not terminated, anything else completes the job.
\* (Mutants: one try too many; whether the scheduler is terminated or not.)
RetriesOnceMore(j) == code[j] = "FAIL" /\ tries[j] <= MaxRetries + 1 /\ ~schedTerminated
RetriesAnyway(j) == code[j] = "FAIL" /\ tries[j] <= MaxRetries
Retries(j) == code[j] = "FAIL" /\ tries[j] <= MaxRetries /\ ~schedTerminated

Retry(j) ==
  /\ main = "loop" /\ j \in active /\ thread[j] = "returned" /\ Retries(j)
  /\ tries' = [tries EXCEPT ![j] = @ + 1]
  /\ Goes(j, "queued", "none")
  /\ UNCHANGED <<threadId, shouldTerminate, jobTerminated, raised, schedVars, mainVars>>

\* The queue's task group counts the job, skipped if get_terminated() says so;
\* the frontend may react to a failure by terminating all jobs.
Complete(j) ==
  LET failed == code[j] \notin {"OK", "SKIPPED"}
  IN /\ main = "loop" /\ j \in active /\ thread[j] = "returned" /\ ~Retries(j)
     /\ active' = active \ {j}
     /\ group' = [group EXCEPT ![j] = IF code[j] = "SKIPPED" \/ j \in jobTerminated THEN "skipped"
                                      ELSE IF failed THEN "failed" ELSE "processed"]
     /\ \E react \in BOOLEAN :
          /\ react => failed /\ ~schedTerminated
          /\ schedTerminated' = (schedTerminated \/ react)
          /\ terminateCall' = (terminateCall \/ react)
     /\ UNCHANGED <<jobVars, mainVars>>

\* Scheduler.terminate(), at the user's or a signal's request, which may be
\* repeated (once every job was told to stop, that would change nothing).
RequestTerminate ==
  /\ main = "loop" /\ ~terminateCall /\ ~(active \subseteq shouldTerminate)
  /\ schedTerminated' = TRUE /\ terminateCall' = TRUE
  /\ UNCHANGED <<jobVars, active, group, mainVars>>

\* _terminate_jobs_real() goes through the active jobs.
TerminateJobs ==
  /\ main = "loop" /\ terminateCall
  /\ terminateCall' = FALSE
  /\ main' = "visit" /\ toTerminate' = active /\ UNCHANGED target
  /\ UNCHANGED <<jobVars, active, group, schedTerminated>>

\* Job.terminate(), its locked part: only a thread that has announced itself is
\* raised an exception in, another one is left to notice the flag.
Visit(j) ==
  /\ main = "visit" /\ j \in toTerminate
  /\ toTerminate' = toTerminate \ {j}
  /\ shouldTerminate' = shouldTerminate \cup {j}
  /\ IF j \in threadId \ shouldTerminate THEN main' = "read" /\ target' = j
     ELSE UNCHANGED <<main, target>>
  /\ UNCHANGED <<tries, thread, code, threadId, jobTerminated, raised, schedVars>>

VisitNoMore ==
  /\ main = "visit" /\ toTerminate = {}
  /\ main' = "loop"
  /\ UNCHANGED <<jobVars, schedVars, toTerminate, target>>

\* Mutant of ReadThreadId: the main thread waits for the thread to have an id.
ReadThreadIdAgain ==
  /\ main = "read" /\ target \in threadId
  /\ main' = "raise" /\ UNCHANGED <<toTerminate, target, jobVars, schedVars>>

\* After the lock: _thread_id is read again, and if the thread has given it up the
\* call fails on None, which ends _terminate_jobs_real.
ReadThreadId ==
  /\ main = "read"
  /\ IF target \in threadId THEN main' = "raise" /\ UNCHANGED <<toTerminate, target>>
     ELSE main' = "loop" /\ toTerminate' = {} /\ target' = NoJob
  /\ UNCHANGED <<jobVars, schedVars>>

\* terminate_thread(), then the job knows that it is terminated.
RaiseInThread ==
  /\ main = "raise"
  /\ raised' = IF thread[target] \in {"acting", "leaving", "unwinding"} THEN raised \cup {target}
               ELSE raised
  /\ jobTerminated' = jobTerminated \cup {target}
  /\ main' = "visit" /\ target' = NoJob
  /\ UNCHANGED <<tries, thread, code, threadId, shouldTerminate, schedVars, toTerminate>>

MainStep ==
  \/ \E j \in Jobs : Retry(j) \/ Complete(j) \/ Visit(j)
  \/ TerminateJobs \/ VisitNoMore \/ ReadThreadId \/ RaiseInThread

\* real_schedule() stops the loop when no job is active.
LoopStopped == active = {} /\ main = "loop" /\ ~terminateCall

Stopped == LoopStopped /\ UNCHANGED vars

Next == (\E j \in Jobs : ThreadStep(j)) \/ MainStep \/ RequestTerminate \/ Stopped

Spec == Init /\ [][Next]_vars

\* The loop gets to run, and so does every thread but for its action, which may hang;
\* nobody needs to ask for termination.
HangingSpec == Spec /\ WF_vars(MainStep) /\ \A j \in Jobs : WF_vars(Proceed(j))

-----------------------------------------------------------------------------
(* Properties. *)

\* No termination is lost (Job.terminate, Job.child_action): a thread that is at
\* work on a job that was told to stop has the exception coming, or the main
\* thread is just about to raise it.  The lock that both take is what makes it so.
NoLostTermination ==
  \A j \in shouldTerminate :
    thread[j] = "acting" => j \in raised \/ (main \in {"read", "raise"} /\ target = j)

\* The assertion of Job.start(), "Attempted to start a job which was already
\* terminated": no retry of a job follows its termination.
NeverRestarted == [][\A j \in Jobs : tries'[j] # tries[j] => j \notin jobTerminated]_vars

\* What scheduler.py says of terminate(), "Forcefully terminates all ongoing jobs":
\* once it was carried out every active job was told to stop.
TerminatesAllJobs ==
  schedTerminated /\ ~terminateCall /\ main = "loop" => active \subseteq shouldTerminate

Died(j) == thread[j] = "died"

\* If every action ends some time, all that can keep Scheduler.run() from returning
\* is a thread that died of the exception.
RunReturnsUnlessThreadDied ==
  (\A j \in Jobs : thread[j] = "acting" ~> thread[j] # "acting")
    => <>(LoopStopped \/ \E j \in Jobs : Died(j))

\* Job.terminate() works on jobs that would never end: a job that was told to stop
\* completes, unless its thread died of the exception.
TerminatedJobsEnd == \A j \in Jobs : j \in shouldTerminate ~> (j \notin active \/ Died(j))
=============================================================================

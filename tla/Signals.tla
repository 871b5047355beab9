------------------------------- MODULE Signals -------------------------------
(***************************************************************************)
(* Suspension of a session (_signals.py, Scheduler._suspend_jobs()): the   *)
(* stack of suspenders that job threads change, and the main thread that   *)
(* calls them for a SIGTSTP or while it asks the user.                     *)
(*                                                                         *)
(* A SIGTSTP is served twice.  Scheduler.run() lets the event loop handle  *)
(* it and then enters the outermost suspendable(), which installs          *)
(* suspend_handler() instead; the loop is still told of the signal through *)
(* its wakeup file descriptor.  Each frame of the main thread is one such  *)
(* service: "handler", "event", or "prompt" for Stream.suspend().          *)
(*                                                                         *)
(* A job thread times itself and, within, runs one process.                *)
(***************************************************************************)
EXTENDS Naturals, SequencesExt

CONSTANTS
  Thread,      \* the threads of the pool that run a job
  Sandboxed,   \* those whose process is started by _run_buildbox(), not by utils._call()
  MaxSignals,  \* bound of the model: how many SIGTSTP the user sends
  MaxPrompts   \* bound of the model: how many questions the user is asked

ASSUME ThreadAssumption == Sandboxed \subseteq Thread
ASSUME BoundAssumption == MaxSignals \in Nat /\ MaxPrompts \in Nat

VARIABLES
  machine,   \* whether this process runs or is stopped
  handler,   \* who handles SIGTSTP
  pending,   \* whether a signal waits for its Python handler
  wakeup,    \* how many signals the event loop is still to read
  frames,    \* what the main thread is at, the innermost last
  lock,      \* suspendable_lock, which the main thread holds for long
  event,     \* is_not_suspended
  stack,     \* suspendable_stack
  pc,        \* where each thread is
  process,   \* the process of each thread
  timed,     \* the threads whose clock was stopped once: stopped_time in timed_suspendable()
  error,     \* what was raised in the main thread, and where
  sent, stops, prompts  \* counts of SIGTSTP, of SIGSTOP and of questions

mainVars == <<machine, handler, pending, wakeup, frames, lock, event, error, sent, stops, prompts>>
threadVars == <<stack, pc, process, timed>>
vars == <<mainVars, threadVars>>

NoError == [frame |-> "none", why |-> "none"]
Suspender(t, kind) == [thread |-> t, kind |-> kind]

\* Scheduler.run(), up to the event loop.
Init ==
  /\ machine = "running" /\ handler = "suspend_handler" /\ pending = FALSE /\ wakeup = 0
  /\ frames = <<>> /\ lock = FALSE /\ event = TRUE /\ error = NoError
  /\ stack = <<>>
  /\ pc = [t \in Thread |-> "new"] /\ process = [t \in Thread |-> "none"] /\ timed = {}
  /\ sent = 0 /\ stops = 0 /\ prompts = 0

-----------------------------------------------------------------------------
(* The main thread.  An error in a callback unwinds all that it was at.    *)

Top == Last(frames)
Frame(kind, at) == [kind |-> kind, at |-> at, left |-> <<>>, mutated |-> FALSE]
SetTop(f) == frames' = Append(Front(frames), f)
Iterate(at, list) == [Top EXCEPT !.at = at, !.left = list, !.mutated = FALSE]

\* Signal handlers run before the next bytecode of the main thread.
MainRuns == machine = "running" /\ ~pending /\ error = NoError

Raise(why) ==
  /\ error' = [frame |-> Top.kind, why |-> why]
  /\ frames' = <<>>
  /\ lock' = FALSE

\* suspend_handler() starts wherever the main thread is, within another one too.
HandlerBegins ==
  /\ machine = "running" /\ pending /\ error = NoError
  /\ pending' = FALSE
  /\ event' = FALSE
  /\ frames' = Append(frames, Frame("handler", "lock"))
  /\ UNCHANGED <<machine, handler, wakeup, lock, error, sent, stops, prompts, threadVars>>

HandlerLocks ==
  /\ MainRuns /\ frames # <<>> /\ Top.at = "lock"
  /\ ~lock
  /\ lock' = TRUE
  /\ SetTop(Iterate("suspend", Reverse(stack)))
  /\ UNCHANGED <<machine, handler, pending, wakeup, event, error, sent, stops, prompts, threadVars>>

\* _suspend_event(), a callback of the event loop.
EventBegins ==
  /\ MainRuns /\ frames = <<>> /\ wakeup > 0
  /\ wakeup' = wakeup - 1
  /\ event' = FALSE
  /\ frames' = <<[Frame("event", "suspend") EXCEPT !.left = Reverse(stack)]>>
  /\ UNCHANGED <<machine, handler, pending, lock, error, sent, stops, prompts, threadVars>>

\* Scheduler.suspend(): signals are disconnected before jobs are suspended.
PromptBegins ==
  /\ MainRuns /\ frames = <<>> /\ prompts < MaxPrompts
  /\ prompts' = prompts + 1
  /\ handler' = "default"
  /\ event' = FALSE
  /\ frames' = <<[Frame("prompt", "suspend") EXCEPT !.left = Reverse(stack)]>>
  /\ UNCHANGED <<machine, pending, wakeup, lock, error, sent, stops, threadVars>>

\* suspend_proc() and resume_proc() of _run_buildbox() name a process that may not be started,
\* and either asks for the group of one that may be gone.
ProcessError(t) ==
  IF process[t] = "exited" THEN "gone"
  ELSE IF process[t] = "none" /\ t \in Sandboxed THEN "unbound" ELSE "none"

\* The next suspender is called; a deque that changed meanwhile raises an error.
CallSuspend ==
  /\ MainRuns /\ frames # <<>> /\ Top.at = "suspend" /\ Top.left # <<>>
  /\ LET s == Head(Top.left)
         t == s.thread
         why == IF Top.mutated THEN "mutated"
                ELSE IF s.kind = "process" THEN ProcessError(t) ELSE "none"
     IN IF why # "none" THEN Raise(why) /\ UNCHANGED <<process, timed>>
        ELSE /\ SetTop([Top EXCEPT !.left = Tail(@)])
             /\ timed' = IF s.kind = "time" THEN timed \cup {t} ELSE timed
             /\ process' = IF s.kind = "process" /\ process[t] = "running"
                           THEN [process EXCEPT ![t] = "stopped"] ELSE process
             /\ UNCHANGED <<error, lock>>
  /\ UNCHANGED <<machine, handler, pending, wakeup, event, sent, stops, prompts, stack, pc>>

\* The process stops itself, or the user is asked.
Suspended ==
  /\ MainRuns /\ frames # <<>> /\ Top.at = "suspend" /\ Top.left = <<>>
  /\ SetTop([Top EXCEPT !.at = "suspended"])
  /\ IF Top.kind = "prompt" THEN UNCHANGED <<machine, stops>>
     ELSE machine' = "stopped" /\ stops' = stops + 1
  /\ UNCHANGED <<handler, pending, wakeup, lock, event, error, sent, prompts, threadVars>>

\* Scheduler.resume() connects the signals again, to the event loop only.
ResumeBegins ==
  /\ MainRuns /\ frames # <<>> /\ Top.at = "suspended"
  /\ handler' = IF Top.kind = "prompt" THEN "loop" ELSE handler
  /\ SetTop(Iterate("resume", stack))
  /\ UNCHANGED <<machine, pending, wakeup, lock, event, error, sent, stops, prompts, threadVars>>

CallResume ==
  /\ MainRuns /\ frames # <<>> /\ Top.at = "resume" /\ (Top.left # <<>> \/ Top.mutated)
  /\ LET s == Head(Top.left)
         t == s.thread
         why == IF Top.mutated THEN "mutated"
                ELSE IF s.kind = "process" THEN ProcessError(t)
                ELSE IF t \notin timed THEN "not suspended" ELSE "none"
     IN IF why # "none" THEN Raise(why) /\ UNCHANGED process
        ELSE /\ SetTop([Top EXCEPT !.left = Tail(@)])
             /\ process' = IF s.kind = "process" /\ process[t] = "stopped"
                           THEN [process EXCEPT ![t] = "running"] ELSE process
             /\ UNCHANGED <<error, lock>>
  /\ UNCHANGED <<machine, handler, pending, wakeup, event, sent, stops, prompts, stack, pc, timed>>

\* Mutant: only the handler sets the event again.
EventAfterHandler(kind) == kind = "handler"
\* What is_not_suspended is set to in the end.
EventAfter(kind) == TRUE

Resumed ==
  /\ MainRuns /\ frames # <<>> /\ Top.at = "resume" /\ Top.left = <<>> /\ ~Top.mutated
  /\ event' = EventAfter(Top.kind)
  /\ lock' = (lock /\ Top.kind # "handler")
  /\ frames' = Front(frames)
  /\ UNCHANGED <<machine, handler, pending, wakeup, error, sent, stops, prompts, threadVars>>

-----------------------------------------------------------------------------
(* The job threads. *)

Goes(t, from, to) == machine = "running" /\ pc[t] = from /\ pc' = [pc EXCEPT ![t] = to]

\* Mutant: the stack is changed without the lock.
NoLockNeeded == TRUE

\* Only the main thread holds the lock for more than a step.
LockIsFree == ~lock

ChangeStack(new) ==
  /\ LockIsFree
  /\ stack' = new
  /\ frames' = [i \in DOMAIN frames |-> [frames[i] EXCEPT !.mutated = TRUE]]

notStack == <<machine, handler, pending, wakeup, lock, event, error, sent, stops, prompts, process, timed>>

\* suspendable() waits before it adds its suspender, and not after.
WaitToTime(t) == Goes(t, "new", "timing") /\ event /\ UNCHANGED <<mainVars, stack, process, timed>>
StartTiming(t) ==
  Goes(t, "timing", "timed") /\ ChangeStack(Append(stack, Suspender(t, "time"))) /\ UNCHANGED notStack
WaitToRun(t) == Goes(t, "timed", "entering") /\ event /\ UNCHANGED <<mainVars, stack, process, timed>>
EnterProcess(t) ==
  Goes(t, "entering", "launching") /\ ChangeStack(Append(stack, Suspender(t, "process"))) /\ UNCHANGED notStack

Launch(t) ==
  /\ Goes(t, "launching", "running")
  /\ process' = [process EXCEPT ![t] = "running"]
  /\ UNCHANGED <<mainVars, stack, timed>>

\* The process ends and is waited for.
Exit(t) ==
  /\ Goes(t, "running", "exited")
  /\ process[t] = "running"
  /\ process' = [process EXCEPT ![t] = "exited"]
  /\ UNCHANGED <<mainVars, stack, timed>>

LeaveProcess(t) ==
  /\ Goes(t, "exited", "ending")
  /\ \E i \in DOMAIN stack : stack[i] = Suspender(t, "process") /\ ChangeStack(RemoveAt(stack, i))
  /\ UNCHANGED notStack
EndTiming(t) ==
  /\ Goes(t, "ending", "done")
  /\ \E i \in DOMAIN stack : stack[i] = Suspender(t, "time") /\ ChangeStack(RemoveAt(stack, i))
  /\ UNCHANGED notStack

ThreadStep(t) ==
  \/ WaitToTime(t) \/ StartTiming(t) \/ WaitToRun(t) \/ EnterProcess(t)
  \/ Launch(t) \/ Exit(t) \/ LeaveProcess(t) \/ EndTiming(t)

-----------------------------------------------------------------------------
(* The user. *)

\* ^Z: both the handler and the event loop get it, or neither while the user is asked.
Sigtstp ==
  /\ machine = "running" /\ sent < MaxSignals
  /\ sent' = sent + 1
  /\ machine' = IF handler = "default" THEN "stopped" ELSE machine
  /\ pending' = (pending \/ handler = "suspend_handler")
  /\ wakeup' = IF handler = "default" THEN wakeup ELSE wakeup + 1
  /\ UNCHANGED <<handler, frames, lock, event, error, stops, prompts, threadVars>>

Sigcont ==
  /\ machine = "stopped"
  /\ machine' = "running"
  /\ UNCHANGED <<handler, pending, wakeup, frames, lock, event, error, sent, stops, prompts, threadVars>>

MainStep ==
  \/ HandlerBegins \/ HandlerLocks \/ EventBegins
  \/ CallSuspend \/ Suspended \/ ResumeBegins \/ CallResume \/ Resumed

Next == MainStep \/ PromptBegins \/ (\E t \in Thread : ThreadStep(t)) \/ Sigtstp \/ Sigcont

Spec == Init /\ [][Next]_vars

\* The interpreter runs every thread, the user continues what is stopped and answers a question,
\* and processes end.
FairSpec ==
  Spec /\ WF_vars(MainStep) /\ WF_vars(Sigcont) /\ \A t \in Thread : WF_vars(ThreadStep(t))

-----------------------------------------------------------------------------
(* Properties. *)

\* Whatever the order in which a signal is served twice, a question is asked and threads start and
\* end, when the main thread is back in its loop nothing is left stopped, locked or told to wait.
LeftAsFound ==
  frames = <<>> /\ ~pending /\ error = NoError =>
    event /\ ~lock /\ \A t \in Thread : process[t] # "stopped"

\* The handler holds the lock from the first suspender to the last that it resumes, so that
\* neither the stack changes under it nor is anything resumed that was not suspended.
HandlerNeverRaces ==
  error.frame = "handler" => error.why \in {"gone", "unbound"}

\* The main thread never waits for a lock that it holds itself.
NoSelfDeadlock == ~(frames # <<>> /\ Top.at = "lock" /\ lock)

\* If nothing is raised in the main thread, and no signal interrupts the handler of another one,
\* all threads come to their end.
ThreadsEnd == [](error = NoError /\ NoSelfDeadlock) => <>(\A t \in Thread : pc[t] = "done")

\* One signal stops the session once.
StopsOncePerSignal == stops <= sent

\* While the session is suspended no process runs ("we can enable and disable the launching of
\* processes and ensure we don't do anything resource intensive while being interrupted").
NothingRunsWhileSuspended ==
  frames # <<>> /\ Top.at = "suspended" => \A t \in Thread : process[t] # "running"

\* No callback raises an error.
NothingRaised == error = NoError
=============================================================================

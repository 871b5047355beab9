----------------------------- MODULE JobProofs -----------------------------
(***************************************************************************)
(* What TLAPS proves of Job for any number of jobs and of retries: its     *)
(* types, that no termination is lost, and that no terminated job starts   *)
(* again.                                                                  *)
(*                                                                         *)
(* NoLostTermination is not inductive by itself: when terminate() finds    *)
(* that the thread has taken its id back, it matters that the thread is    *)
(* then no longer at work (Announced).  NeverRestarted rests on the fact   *)
(* that only a terminated scheduler terminates jobs (OnlyWhenTerminated).  *)
(***************************************************************************)
EXTENDS Job, TLAPS

Announced == \A j \in Jobs : thread[j] = "acting" => j \in threadId

Targeted == main \in {"read", "raise"} => target \in Jobs

OnlyWhenTerminated ==
  (terminateCall \/ main # "loop" \/ jobTerminated # {}) => schedTerminated

Inv == TypeOK /\ Announced /\ Targeted /\ OnlyWhenTerminated /\ NoLostTermination

LEMMA InitInv == Init => Inv
<1> SUFFICES ASSUME Init PROVE Inv
  OBVIOUS
<1>1. MaxRetries \in Nat
  BY JobsAssumption DEF JobsAssumption
<1>2. TypeOK
  <2>1. tries \in [Jobs -> 1..(MaxRetries + 1)]
    BY <1>1 DEF Init
  <2>2. schedTerminated \in BOOLEAN /\ terminateCall \in BOOLEAN
    BY DEF Init
  <2>3. thread \in [Jobs -> {"queued", "acting", "leaving", "unwinding", "returned", "died"}]
    BY DEF Init
  <2>4. code \in [Jobs -> Code] /\ group \in [Jobs -> {"none", "processed", "skipped", "failed"}]
    BY DEF Init, Code
  <2> QED  BY <2>1, <2>2, <2>3, <2>4 DEF Init, TypeOK
<1>3. Announced /\ Targeted /\ OnlyWhenTerminated /\ NoLostTermination
  BY DEF Init, Announced, Targeted, OnlyWhenTerminated, NoLostTermination
<1> QED  BY <1>2, <1>3 DEF Inv

\* The steps of a thread.
LEMMA ThreadInv ==
  ASSUME Inv, NEW j \in Jobs, ThreadStep(j)
  PROVE  Inv'
<1> USE JobsAssumption
          DEF JobsAssumption, Inv, TypeOK, Code, Announced, Targeted, OnlyWhenTerminated, NoLostTermination,
              Goes, threadFrame, schedVars, mainVars
<1>1. CASE LogFails(j)
  BY <1>1 DEF LogFails
<1>2. CASE Enter(j)
  BY <1>2 DEF Enter
<1>3. CASE Act(j)
  BY <1>3 DEF Act
<1>4. CASE Leave(j)
  BY <1>4 DEF Leave
<1>5. CASE Return(j)
  BY <1>5 DEF Return
<1>6. CASE Deliver(j)
  BY <1>6 DEF Deliver
<1> QED  BY <1>1, <1>2, <1>3, <1>4, <1>5, <1>6 DEF ThreadStep, Proceed

\* The steps of the main thread, and the requests to terminate.
LEMMA MainInv ==
  ASSUME Inv, MainStep \/ RequestTerminate
  PROVE  Inv'
<1> USE JobsAssumption
          DEF JobsAssumption, Inv, TypeOK, Code, Announced, Targeted, OnlyWhenTerminated, NoLostTermination,
              jobVars, schedVars, mainVars
<1>1. CASE \E j \in Jobs : Retry(j)
  BY <1>1 DEF Retry, Retries, Goes
<1>2. CASE \E j \in Jobs : Complete(j)
  BY <1>2 DEF Complete
<1>3. CASE \E j \in Jobs : Visit(j)
  BY <1>3 DEF Visit
<1>4. CASE TerminateJobs
  BY <1>4 DEF TerminateJobs
<1>5. CASE VisitNoMore
  BY <1>5 DEF VisitNoMore
<1>6. CASE ReadThreadId
  BY <1>6 DEF ReadThreadId
<1>7. CASE RaiseInThread
  BY <1>7 DEF RaiseInThread
<1>8. CASE RequestTerminate
  BY <1>8 DEF RequestTerminate
<1> QED  BY <1>1, <1>2, <1>3, <1>4, <1>5, <1>6, <1>7, <1>8 DEF MainStep

LEMMA StutterInv == Inv /\ UNCHANGED vars => Inv'
BY DEF Inv, TypeOK, Announced, Targeted, OnlyWhenTerminated, NoLostTermination, vars, jobVars,
       schedVars, mainVars

LEMMA NextInv == Inv /\ [Next]_vars => Inv'
BY ThreadInv, MainInv, StutterInv DEF Next, Stopped

LEMMA SpecInv == Spec => []Inv
BY InitInv, NextInv, PTL DEF Spec

\* The variables of Job stay within their types.
THEOREM TypeCorrect == Spec => []TypeOK
<1>1. Inv => TypeOK
  BY DEF Inv
<1> QED  BY <1>1, SpecInv, PTL

\* No termination is lost, whatever the interleaving of Job.terminate() with the
\* threads.
THEOREM TerminationIsNotLost == Spec => []NoLostTermination
<1>1. Inv => NoLostTermination
  BY DEF Inv
<1> QED  BY <1>1, SpecInv, PTL

\* A job is never retried once it was terminated: the assertion in Job.start() holds.
THEOREM NoRestart == Spec => NeverRestarted
<1>1. ASSUME Inv, [Next]_vars
      PROVE  [\A j \in Jobs : tries'[j] # tries[j] => j \notin jobTerminated]_vars
  <2>1. ASSUME NEW k \in Jobs, Retry(k)
        PROVE  jobTerminated = {}
    BY <1>1, <2>1 DEF Inv, OnlyWhenTerminated, Retry, Retries
  <2>2. CASE \E k \in Jobs : Retry(k)
    BY <2>1, <2>2
  <2>3. CASE ~ \E k \in Jobs : Retry(k)
    BY <1>1, <2>3
       DEF Next, MainStep, ThreadStep, Proceed, LogFails, Enter, Act, Leave, Return, Deliver,
           Complete, Visit, TerminateJobs, VisitNoMore, ReadThreadId, RaiseInThread,
           RequestTerminate, Stopped, vars, jobVars, threadFrame
  <2> QED  BY <2>2, <2>3
<1> QED  BY <1>1, SpecInv, PTL DEF Spec, NeverRestarted
=============================================================================

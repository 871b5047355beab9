----------------------------- MODULE CasdProofs -----------------------------
(***************************************************************************)
(* Proofs about Casd, for any number of threads: who asks for a stub gets  *)
(* it or an error, and the session leaves nothing behind.                  *)
(***************************************************************************)
EXTENDS Casd, TLAPS

\* The lock is held by the one thread that waits for casd or connects, and by nobody else.
LockIsHeld ==
  \A c \in Caller : pc[c] \in {"polling", "connecting"} <=> lock = c

\* While nobody connects, and nobody was interrupted, either all is set or nothing.
AllOrNothing ==
  /\ \A c \in Caller : pc[c] = "polling" => set = 0
  /\ \A c \in Caller : pc[c] = "connecting" => set < Len(Order)
  /\ lock = NoThread /\ ~interrupted => set \in {0, Len(Order)}

\* Who is about to read a stub that was looked at itself finds it.
StubIsThere ==
  \A c \in Caller : pc[c] = "returning" /\ ~interrupted =>
    /\ Wants(c) = "bytestream" => set >= 2
    /\ Wants(c) = "local_cas" => set >= 4

\* How far the main thread is tells what the others may still do.
Leaving ==
  /\ main \notin {"running", "joining"} => \A c \in Client : pc[c] = "idle"
  /\ main \notin {"running", "joining", "stopping"} => pc[Monitor] = "ended"
  /\ main \in {"running", "joining", "stopping", "releasing"} <=> ~shutdown
  /\ shutdown => set = 0
  /\ main = "gone" => process = "dead"

Inv == TypeOK /\ LockIsHeld /\ AllOrNothing /\ StubIsThere /\ Leaving /\ StubOrError

-----------------------------------------------------------------------------
\* There is a channel and three kinds of stubs.
LEMMA OrderLength == Len(Order) = 4
BY DEF Order

\* At most four things are set.
LEMMA SetRange ==
  ASSUME TypeOK
  PROVE  set \in 0..4
BY OrderLength DEF TypeOK

\* What is set in the course of _establish_connection().
LEMMA WhatIsSet ==
  ASSUME TypeOK
  PROVE  /\ IsSet("channel") <=> set >= 1
         /\ IsSet("bytestream") <=> set >= 2
         /\ IsSet("cas") <=> set >= 3
         /\ IsSet("local_cas") <=> set >= 4
<1>1. Len(Order) = 4 /\ Order[1] = "channel" /\ Order[2] = "bytestream" /\ Order[3] = "cas"
      /\ Order[4] = "local_cas"
  BY DEF Order
<1>2. set \in 0..4
  BY <1>1 DEF TypeOK
<1>3. \A i \in 1..set : i \in {1, 2, 3, 4}
  BY <1>2
<1>4. QED
  BY <1>1, <1>2, <1>3 DEF IsSet

\* What a caller wants is one of three stubs.
LEMMA WantsAStub == \A c \in Caller : Wants(c) \in {"bytestream", "cas", "local_cas"}
BY ClientAssumption DEF Caller, Wants

\* Before the session begins nobody has asked.
LEMMA InitInv == Init => Inv
<1> SUFFICES ASSUME Init PROVE Inv
  OBVIOUS
<1>1. TypeOK
  <2>1. pc \in [Caller -> {"idle", "locking", "polling", "connecting", "returning", "ended"}]
    BY DEF Init
  <2>2. got \in [Caller -> {"nothing yet", "stub", "None", "error"}]
    BY DEF Init
  <2>3. set \in 0..Len(Order)
    <3>1. set = 0
      BY DEF Init
    <3>2. QED
      BY <3>1, OrderLength
  <2>4. QED
    BY <2>1, <2>2, <2>3 DEF Init, TypeOK
<1>2. LockIsHeld
  BY ClientAssumption DEF Init, LockIsHeld, Caller
<1>3. AllOrNothing
  BY OrderLength DEF Init, AllOrNothing
<1>4. StubIsThere /\ StubOrError
  BY DEF Init, StubIsThere, StubOrError
<1>5. Leaving
  BY DEF Init, Leaving
<1>6. QED
  BY <1>1, <1>2, <1>3, <1>4, <1>5 DEF Inv

\* A getter finds its own stub, or goes on to the lock.
LEMMA AskKeepsInv ==
  ASSUME Inv, NEW c \in Caller, Ask(c)
  PROVE  Inv'
<1>1. TypeOK'
  BY OrderLength DEF Inv, TypeOK, Ask, Goes, casdVars, mainVars
<1>2. LockIsHeld'
  BY ClientAssumption DEF Inv, TypeOK, LockIsHeld, Caller, Ask, Goes, casdVars, mainVars
<1>3. AllOrNothing'
  BY ClientAssumption, OrderLength DEF Inv, TypeOK, AllOrNothing, LockIsHeld, Caller, Ask,
     Goes, casdVars, mainVars
<1>4. StubIsThere'
  BY WhatIsSet DEF Inv, TypeOK, StubIsThere, Ask, Goes, casdVars, mainVars, Tests
<1>5. Leaving'
  BY ClientAssumption DEF Inv, TypeOK, Leaving, Caller, Ask, Goes, casdVars, mainVars
<1>6. StubOrError'
  BY DEF Inv, TypeOK, StubOrError, Ask, Goes, casdVars, mainVars
<1>7. QED
  BY <1>1, <1>2, <1>3, <1>4, <1>5, <1>6 DEF Inv

\* Who takes the lock and finds a channel finds all of it, unless a thread was interrupted.
LEMMA TakeLockKeepsInv ==
  ASSUME Inv, NEW c \in Caller, TakeLock(c)
  PROVE  Inv'
<1> USE DEF casdVars, mainVars
<1>1. TypeOK /\ set' = set /\ lock = NoThread /\ interrupted' = interrupted
  BY DEF Inv, TakeLock
<1>2. IsSet("channel") <=> set >= 1
  BY <1>1, WhatIsSet
<1>3. CASE IsSet("channel")
  <2>1. pc' = [pc EXCEPT ![c] = "returning"] /\ pc[c] = "locking" /\ lock' = lock
    BY <1>3 DEF TakeLock, Goes
  <2>2. interrupted \/ set = 4
    <3>1. interrupted \/ set \in {0, Len(Order)}
      BY <1>1 DEF Inv, AllOrNothing
    <3>2. QED
      BY <1>2, <1>3, <3>1, OrderLength
  <2>3. LockIsHeld'
    BY <1>1, <2>1 DEF Inv, LockIsHeld, TypeOK
  <2>4. AllOrNothing'
    BY <1>1, <2>1 DEF Inv, AllOrNothing, TypeOK
  <2>5. StubIsThere'
    <3> SUFFICES ASSUME NEW d \in Caller, pc'[d] = "returning", ~interrupted
                 PROVE  /\ Wants(d) = "bytestream" => set >= 2
                        /\ Wants(d) = "local_cas" => set >= 4
      BY <1>1 DEF StubIsThere
    <3>1. QED
      BY <2>2
  <2>6. TypeOK' /\ StubOrError'
    BY <2>1 DEF Inv, TakeLock, TypeOK, StubOrError
  <2>7. Leaving'
    BY <2>1, ClientAssumption DEF Inv, TakeLock, TypeOK, Leaving, Caller
  <2>8. QED
    BY <2>3, <2>4, <2>5, <2>6, <2>7 DEF Inv
<1>4. CASE ~IsSet("channel")
  <2>1. pc' = [pc EXCEPT ![c] = "polling"] /\ pc[c] = "locking" /\ lock' = c
    BY <1>4 DEF TakeLock, Goes
  <2>2. set = 0
    BY <1>1, <1>2, <1>4, SetRange
  <2>3. LockIsHeld'
    BY <1>1, <2>1, ClientAssumption DEF Inv, LockIsHeld, TypeOK, Caller
  <2>4. AllOrNothing'
    BY <1>1, <2>1, <2>2, ClientAssumption DEF Inv, AllOrNothing, LockIsHeld, TypeOK, Caller
  <2>5. StubIsThere'
    BY <1>1, <2>1, <2>2 DEF Inv, StubIsThere, TypeOK
  <2>6. TypeOK' /\ StubOrError'
    BY <2>1 DEF Inv, TakeLock, TypeOK, StubOrError
  <2>7. Leaving'
    BY <2>1, ClientAssumption DEF Inv, TakeLock, TypeOK, Leaving, Caller
  <2>8. QED
    BY <2>3, <2>4, <2>5, <2>6, <2>7 DEF Inv
<1>5. QED
  BY <1>3, <1>4

\* Who waits has the lock, and leaves it with an error or when the socket is there.
LEMMA PollKeepsInv ==
  ASSUME Inv, NEW c \in Caller, Poll(c)
  PROVE  Inv'
<1>1. TypeOK'
  BY OrderLength DEF Inv, TypeOK, Poll, Goes, Ends, After, casdVars, mainVars
<1>2. LockIsHeld'
  BY ClientAssumption DEF Inv, TypeOK, LockIsHeld, Caller, Poll, Goes, Ends, After, casdVars,
     mainVars
<1>3. AllOrNothing'
  <2>1. lock = c /\ set = 0 /\ set' = set
    BY DEF Inv, AllOrNothing, LockIsHeld, Poll
  <2>2. \A d \in Caller : d # c => pc[d] \notin {"polling", "connecting"} /\ pc'[d] = pc[d]
    BY <2>1 DEF Inv, LockIsHeld, TypeOK, Poll, Goes, Ends
  <2>3. QED
    BY <2>1, <2>2, OrderLength DEF AllOrNothing
<1>4. StubIsThere'
  BY DEF Inv, TypeOK, StubIsThere, Poll, Goes, Ends, After, casdVars, mainVars, Leaving, Caller
<1>5. Leaving'
  BY ClientAssumption DEF Inv, TypeOK, Leaving, Caller, Poll, Goes, Ends, After, casdVars,
     mainVars
<1>6. StubOrError'
  BY DEF Inv, TypeOK, StubOrError, Poll, Goes, Ends, After, casdVars, mainVars
<1>7. QED
  BY <1>1, <1>2, <1>3, <1>4, <1>5, <1>6 DEF Inv

\* Who connects lets the lock go when all is set.
LEMMA ConnectKeepsInv ==
  ASSUME Inv, NEW c \in Caller, Connect(c)
  PROVE  Inv'
<1> USE DEF casdVars, mainVars
<1>1. lock = c /\ pc[c] = "connecting" /\ interrupted' = interrupted
  BY DEF Inv, LockIsHeld, Connect
<1>2. set \in 0..4 /\ set' = set + 1
  BY SetRange DEF Inv, Connect
<1>3. set < 4
  BY <1>1, OrderLength DEF Inv, AllOrNothing
<1>4. \A d \in Caller : d # c => pc[d] \notin {"polling", "connecting"}
  BY <1>1 DEF Inv, LockIsHeld
<1>5. /\ pc' = (IF set' = 4 THEN [pc EXCEPT ![c] = "returning"] ELSE pc)
      /\ lock' = IF set' = 4 THEN NoThread ELSE lock
  BY OrderLength DEF Connect, Goes
<1>6. TypeOK'
  <2>1. set' \in 0..Len(Order)
    BY <1>2, <1>3, OrderLength
  <2>2. QED
    BY <1>5, <2>1 DEF Inv, TypeOK, Connect
<1>7. LockIsHeld'
  BY <1>1, <1>4, <1>5, ClientAssumption DEF Inv, LockIsHeld, TypeOK, Caller
<1>8. AllOrNothing'
  <2>1. \A d \in Caller : pc'[d] # "polling"
    BY <1>1, <1>4, <1>5 DEF Inv, TypeOK
  <2>2. \A d \in Caller : pc'[d] = "connecting" => set' < Len(Order)
    <3>1. \A d \in Caller : pc'[d] = "connecting" => set' # 4
      BY <1>1, <1>4, <1>5 DEF Inv, TypeOK
    <3>2. QED
      BY <1>2, <1>3, <3>1, OrderLength
  <2>3. lock' = NoThread => set' = Len(Order)
    BY <1>1, <1>5, OrderLength, ClientAssumption DEF Caller
  <2>4. QED
    BY <2>1, <2>2, <2>3 DEF AllOrNothing
<1>9. StubIsThere'
  <2> SUFFICES ASSUME NEW d \in Caller, pc'[d] = "returning", ~interrupted
               PROVE  /\ Wants(d) = "bytestream" => set' >= 2
                      /\ Wants(d) = "local_cas" => set' >= 4
    BY <1>1 DEF StubIsThere
  <2>1. CASE d = c
    <3>1. set' = 4
      BY <1>1, <1>5, <2>1
    <3>2. QED
      BY <3>1
  <2>2. CASE d # c
    <3>1. pc[d] = "returning"
      BY <1>5, <2>2 DEF Inv, TypeOK
    <3>2. QED
      BY <1>1, <1>2, <3>1 DEF Inv, StubIsThere
  <2>3. QED
    BY <2>1, <2>2
<1>10. Leaving'
  BY <1>1, <1>5, ClientAssumption DEF Inv, TypeOK, Leaving, Caller, Connect
<1>11. StubOrError'
  BY DEF Inv, StubOrError, Connect
<1>12. QED
  BY <1>6, <1>7, <1>8, <1>9, <1>10, <1>11 DEF Inv

\* What was there is still there when it is read.
LEMMA ReturnKeepsInv ==
  ASSUME Inv, NEW c \in Caller, Return(c)
  PROVE  Inv'
<1>1. TypeOK'
  BY OrderLength DEF Inv, TypeOK, Return, Ends, After, casdVars, mainVars
<1>2. LockIsHeld'
  BY ClientAssumption DEF Inv, TypeOK, LockIsHeld, Caller, Return, Ends, After, casdVars,
     mainVars
<1>3. AllOrNothing'
  BY ClientAssumption, OrderLength DEF Inv, TypeOK, AllOrNothing, LockIsHeld, Caller, Return,
     Ends, After, casdVars, mainVars
<1>4. StubIsThere'
  BY DEF Inv, TypeOK, StubIsThere, Return, Ends, After, casdVars, mainVars
<1>5. Leaving'
  BY ClientAssumption DEF Inv, TypeOK, Leaving, Caller, Return, Ends, After, casdVars, mainVars
<1>6. StubOrError'
  BY WhatIsSet, WantsAStub DEF Inv, TypeOK, StubOrError, Return, Ends, After, casdVars,
     mainVars, StubIsThere
<1>7. QED
  BY <1>1, <1>2, <1>3, <1>4, <1>5, <1>6 DEF Inv

\* A thread that is interrupted between two assignments is remembered.
LEMMA InterruptKeepsInv ==
  ASSUME Inv, NEW c \in Caller, Interrupt(c)
  PROVE  Inv'
<1>1. TypeOK'
  BY OrderLength DEF Inv, TypeOK, Interrupt, Ends, After, casdVars, mainVars
<1>2. LockIsHeld'
  BY ClientAssumption DEF Inv, TypeOK, LockIsHeld, Caller, Interrupt, Ends, After, casdVars,
     mainVars
<1>3. AllOrNothing'
  <2>1. set' = set /\ lock' = NoThread /\ interrupted' = (interrupted \/ set > 0)
    BY DEF Interrupt, Ends, mainVars
  <2>2. \A d \in Caller : pc'[d] \notin {"polling", "connecting"}
    BY DEF Inv, LockIsHeld, TypeOK, Interrupt, Ends, After
  <2>3. set \in 0..4
    BY SetRange DEF Inv
  <2>4. CASE set = 0
    BY <2>1, <2>2, <2>4 DEF AllOrNothing
  <2>5. CASE set > 0
    BY <2>1, <2>2, <2>5 DEF AllOrNothing
  <2>6. QED
    BY <2>3, <2>4, <2>5
<1>4. StubIsThere'
  BY DEF Inv, TypeOK, StubIsThere, Interrupt, Ends, After, casdVars, mainVars
<1>5. Leaving'
  BY ClientAssumption DEF Inv, TypeOK, Leaving, Caller, Interrupt, Ends, After, casdVars,
     mainVars
<1>6. StubOrError'
  BY DEF Inv, TypeOK, StubOrError, Interrupt, Ends, After, casdVars, mainVars
<1>7. QED
  BY <1>1, <1>2, <1>3, <1>4, <1>5, <1>6 DEF Inv


\* The monitor ends by itself.
LEMMA MonitorEndsKeepsInv ==
  ASSUME Inv, MonitorEnds
  PROVE  Inv'
<1> USE DEF casdVars, mainVars
<1>1. TypeOK'
  BY DEF Inv, TypeOK, MonitorEnds, Goes
<1>2. LockIsHeld'
  BY DEF Inv, TypeOK, LockIsHeld, MonitorEnds, Goes
<1>3. AllOrNothing'
  <2>1. \A d \in Caller : pc'[d] \in {"polling", "connecting"} => pc'[d] = pc[d]
    BY DEF Inv, TypeOK, MonitorEnds, Goes
  <2>2. QED
    BY <2>1 DEF Inv, AllOrNothing, MonitorEnds
<1>4. StubIsThere'
  BY DEF Inv, TypeOK, StubIsThere, MonitorEnds, Goes
<1>5. Leaving'
  BY ClientAssumption DEF Inv, TypeOK, Leaving, MonitorEnds, Goes, Caller
<1>6. StubOrError'
  BY DEF Inv, StubOrError, MonitorEnds
<1>7. QED
  BY <1>1, <1>2, <1>3, <1>4, <1>5, <1>6 DEF Inv

\* The connection is dropped when no thread uses it any more; the rest of the way out does not
\* concern the callers.
LEMMA MainKeepsInv ==
  ASSUME Inv, LeaveSession \/ MainStep
  PROVE  Inv'
<1> USE DEF casdVars, callVars, Main
<1>1. CASE Release
  <2>1. set' = 0 /\ set' \in 0..Len(Order) /\ UNCHANGED <<pc, lock, got, interrupted>>
    BY <1>1, OrderLength DEF Release
  <2>2. \A c \in Caller : pc[c] \in {"idle", "ended"}
    BY <1>1 DEF Inv, Leaving, Release, Caller
  <2>3. LockIsHeld' /\ StubIsThere' /\ StubOrError'
    BY <2>1, <2>2 DEF Inv, LockIsHeld, StubIsThere, StubOrError
  <2>4. AllOrNothing'
    BY <2>1, <2>2 DEF AllOrNothing
  <2>5. TypeOK'
    BY <1>1, <2>1 DEF Inv, Release, TypeOK
  <2>6. Leaving'
    BY <1>1, <2>1 DEF Inv, Release, Leaving
  <2>7. QED
    BY <2>3, <2>4, <2>5, <2>6 DEF Inv
<1>2. CASE Kill
  <2>1. UNCHANGED <<pc, lock, got, interrupted, set, shutdown>>
    BY <1>2 DEF Kill
  <2>2. LockIsHeld' /\ AllOrNothing' /\ StubIsThere' /\ StubOrError'
    BY <2>1 DEF Inv, LockIsHeld, AllOrNothing, StubIsThere, StubOrError
  <2>3. TypeOK'
    BY <1>2, <2>1 DEF Inv, Kill, TypeOK
  <2>4. Leaving'
    BY <1>2, <2>1 DEF Inv, Kill, Leaving
  <2>5. QED
    BY <2>2, <2>3, <2>4 DEF Inv
<1>3. CASE LeaveSession \/ StopMonitor \/ JoinMonitor \/ Terminate \/ WaitForExit
  <2>1. UNCHANGED <<pc, lock, got, interrupted, set, shutdown, process>>
    BY <1>3 DEF LeaveSession, StopMonitor, JoinMonitor, Terminate, WaitForExit
  <2>2. LockIsHeld' /\ AllOrNothing' /\ StubIsThere' /\ StubOrError'
    BY <2>1 DEF Inv, LockIsHeld, AllOrNothing, StubIsThere, StubOrError, IsSet
  <2>3. TypeOK'
    BY <1>3, <2>1 DEF Inv, TypeOK, LeaveSession, StopMonitor, JoinMonitor, Terminate, WaitForExit
  <2>4. Leaving'
    BY <1>3, <2>1 DEF Inv, Leaving, LeaveSession, StopMonitor, JoinMonitor, Terminate, WaitForExit
  <2>5. QED
    BY <2>2, <2>3, <2>4 DEF Inv
<1>4. QED
  BY <1>1, <1>2, <1>3 DEF MainStep

\* What casd does, and when, does not disturb the order among the threads.
LEMMA CasdKeepsInv ==
  ASSUME Inv, Ready \/ Die \/ TimePasses \/ UNCHANGED vars
  PROVE  Inv'
<1> USE DEF callVars, mainVars, casdVars, vars
<1>1. UNCHANGED <<callVars, mainVars>>
  BY DEF Ready, Die, TimePasses
<1>2. LockIsHeld' /\ AllOrNothing' /\ StubIsThere' /\ StubOrError'
  BY <1>1 DEF Inv, LockIsHeld, AllOrNothing, StubIsThere, StubOrError
<1>3. TypeOK'
  BY <1>1 DEF Inv, TypeOK, Ready, Die, TimePasses
<1>4. process = "dead" => process' = "dead"
  BY DEF Ready, Die, TimePasses
<1>5. Leaving'
  BY <1>1, <1>4 DEF Inv, Leaving
<1>6. QED
  BY <1>2, <1>3, <1>5 DEF Inv

\* Every step keeps the invariant.
LEMMA NextKeepsInv == Inv /\ [Next]_vars => Inv'
<1> SUFFICES ASSUME Inv, [Next]_vars PROVE Inv'
  OBVIOUS
<1>1. ASSUME NEW c \in Caller, CallerStep(c) \/ Ask(c) PROVE Inv'
  BY <1>1, AskKeepsInv, TakeLockKeepsInv, PollKeepsInv, ConnectKeepsInv, ReturnKeepsInv,
     MonitorEndsKeepsInv DEF CallerStep
<1>2. ASSUME NEW c \in Client, Interrupt(c) PROVE Inv'
  BY <1>2, InterruptKeepsInv DEF Caller
<1>3. QED
  BY <1>1, <1>2, MainKeepsInv, CasdKeepsInv DEF Next, Caller

-----------------------------------------------------------------------------
\* CASDProcessManager.get_local_cas() and get_bytestream() never return None, however many
\* threads ask, wait, fail or connect at the same time, unless a thread was terminated while it
\* set the stubs.
THEOREM StubsOrErrors == Spec => []StubOrError
<1>1. Inv => StubOrError
  BY DEF Inv
<1>2. QED
  BY InitInv, NextKeepsInv, <1>1, PTL DEF Spec

\* When Context.__exit__() is through, buildbox-casd is dead and nobody waits for it.
THEOREM NothingIsLeftBehind == Spec => []NothingLeftBehind
<1>1. Inv => NothingLeftBehind
  <2> SUFFICES ASSUME Inv, main = "gone" PROVE NothingLeftBehind
    BY DEF NothingLeftBehind
  <2>1. process = "dead" /\ set = 0 /\ pc[Monitor] = "ended"
    BY DEF Inv, Leaving
  <2>2. \A c \in Caller : pc[c] \in {"idle", "ended"}
    BY DEF Inv, Leaving, Caller
  <2>3. lock = NoThread
    BY <2>2 DEF Inv, TypeOK, LockIsHeld
  <2>4. QED
    BY <2>1, <2>3 DEF NothingLeftBehind
<1>2. QED
  BY InitInv, NextKeepsInv, <1>1, PTL DEF Spec

=============================================================================

-------------------------------- MODULE Casd --------------------------------
(***************************************************************************)
(* The process buildbox-casd and the connection to it                      *)
(* (_cas/casdprocessmanager.py, the usage monitor of _cas/cascache.py): it *)
(* is started when the session begins, connected to by whichever thread    *)
(* first asks for a stub, and released when the session is over.           *)
(*                                                                         *)
(* The callers are job threads, the main thread while it looks elements    *)
(* up, and the usage monitor.  casd itself is external: it may take for    *)
(* ever to start, die at any time, leave its socket behind or ignore       *)
(* SIGTERM.                                                                *)
(***************************************************************************)
EXTENDS Naturals, Sequences

CONSTANTS
  Client,   \* the threads that ask for stubs, besides the usage monitor
  Asked,    \* the stub each of them asks for
  Monitor,  \* the usage monitor, a thread that runs with the session
  NoThread

\* In the order in which _establish_connection() sets them; the services of remote execution
\* and of the asset cache behave like "cas".
Order == <<"channel", "bytestream", "cas", "local_cas">>

ASSUME ClientAssumption ==
  /\ Monitor \notin Client /\ NoThread \notin Client \cup {Monitor}
  /\ Asked \in [Client -> {"bytestream", "cas", "local_cas"}]

VARIABLES
  process,     \* "starting", "ready" or "dead"
  socket,      \* whether the socket exists
  late,        \* _CASD_TIMEOUT has passed since the start
  set,         \* how many of Order are set
  lock,        \* who holds _lock
  shutdown,    \* _shutdown_requested
  pc,          \* where each caller is
  got,         \* what each caller got last: a "stub", None or an "error"
  should_stop, \* _should_stop of the monitor
  main,        \* where the main thread is, once it leaves the session
  interrupted  \* a thread was terminated between two of the assignments

casdVars == <<process, socket, late>>
callVars == <<pc, got, lock, set, interrupted>>
mainVars == <<main, should_stop, shutdown>>
vars == <<casdVars, callVars, mainVars>>

Caller == Client \cup {Monitor}
Wants(c) == IF c = Monitor THEN "local_cas" ELSE Asked[c]
IsSet(what) == \E i \in 1..set : Order[i] = what

TypeOK ==
  /\ process \in {"starting", "ready", "dead"} /\ socket \in BOOLEAN /\ late \in BOOLEAN
  /\ set \in 0..Len(Order) /\ lock \in Caller \cup {NoThread}
  /\ pc \in [Caller -> {"idle", "locking", "polling", "connecting", "returning", "ended"}]
  /\ got \in [Caller -> {"nothing yet", "stub", "None", "error"}]
  /\ main \in {"running", "joining", "stopping", "releasing", "polling", "waiting", "killing", "gone"}
  /\ should_stop \in BOOLEAN /\ shutdown \in BOOLEAN /\ interrupted \in BOOLEAN

Init ==
  /\ process = "starting" /\ socket = FALSE /\ late = FALSE
  /\ set = 0 /\ lock = NoThread /\ shutdown = FALSE
  /\ pc = [c \in Caller |-> "idle"] /\ got = [c \in Caller |-> "nothing yet"]
  /\ should_stop = FALSE /\ main = "running" /\ interrupted = FALSE

-----------------------------------------------------------------------------
(* A caller asks for a stub. *)

\* The monitor asks once; its thread ends if it does not get a stub.
After(c, what) == IF c # Monitor THEN "idle" ELSE IF what = "stub" THEN "returning" ELSE "ended"

Goes(c, from, to) == pc[c] = from /\ pc' = [pc EXCEPT ![c] = to]
Ends(c, what) ==
  /\ got' = [got EXCEPT ![c] = what]
  /\ pc' = [pc EXCEPT ![c] = After(c, what)]

\* Mutant: every stub is taken to be there when the channel is.
TestsChannel(what) == "channel"
\* What a getter looks at before it connects.
Tests(what) == IF what = "cas" THEN "channel" ELSE what

Ask(c) ==
  /\ main = "running" \/ c = Monitor
  /\ Goes(c, "idle", IF IsSet(Tests(Wants(c))) THEN "returning" ELSE "locking")
  /\ UNCHANGED <<casdVars, mainVars, got, lock, set, interrupted>>

\* Whoever gets the lock connects, unless another one has.
TakeLock(c) ==
  /\ lock = NoThread
  /\ IF IsSet("channel") THEN Goes(c, "locking", "returning") /\ UNCHANGED lock
     ELSE Goes(c, "locking", "polling") /\ lock' = c
  /\ UNCHANGED <<casdVars, mainVars, got, set, interrupted>>

GivesUp == late \/ process = "dead"

\* A round of the loop that waits for the socket.  Who is told of the shutdown before the time
\* is over returns without a connection.
Poll(c) ==
  /\ pc[c] = "polling"
  /\ \/ /\ socket
        /\ Goes(c, "polling", "connecting")
        /\ UNCHANGED <<got, lock>>
     \/ /\ ~socket /\ (GivesUp \/ shutdown)
        /\ IF shutdown /\ ~late THEN Goes(c, "polling", "returning") /\ UNCHANGED got
           ELSE Ends(c, "error")
        /\ lock' = NoThread
  /\ UNCHANGED <<casdVars, mainVars, set, interrupted>>

\* One assignment of _establish_connection().
Connect(c) ==
  /\ pc[c] = "connecting"
  /\ set' = set + 1
  /\ IF set' = Len(Order) THEN Goes(c, "connecting", "returning") /\ lock' = NoThread
     ELSE UNCHANGED <<pc, lock>>
  /\ UNCHANGED <<casdVars, mainVars, got, interrupted>>

\* The stub is read when the lock is not held any more.
Return(c) ==
  /\ pc[c] = "returning" /\ ~(c = Monitor /\ got[c] = "stub")
  /\ Ends(c, IF IsSet(Wants(c)) THEN "stub" ELSE "None")
  /\ UNCHANGED <<casdVars, mainVars, lock, set, interrupted>>

\* A job is terminated while its thread waits for casd or connects to it.
Interrupt(c) ==
  /\ c # Monitor /\ pc[c] \in {"polling", "connecting"}
  /\ Ends(c, "error") /\ lock' = NoThread
  /\ interrupted' = (interrupted \/ set > 0)
  /\ UNCHANGED <<casdVars, mainVars, set>>

\* The monitor asks casd for its usage until it is stopped or gets an error.
MonitorEnds ==
  /\ got[Monitor] = "stub" /\ (should_stop \/ process = "dead")
  /\ Goes(Monitor, "returning", "ended")
  /\ UNCHANGED <<casdVars, mainVars, got, lock, set, interrupted>>

CallerStep(c) ==
  \/ (c = Monitor \/ pc[c] # "idle") /\ Ask(c)
  \/ TakeLock(c) \/ Poll(c) \/ Connect(c) \/ Return(c) \/ (c = Monitor /\ MonitorEnds)

-----------------------------------------------------------------------------
(* The main thread leaves the session (Context.__exit__()). *)

Main(from, to) == main = from /\ main' = to

\* The pool of job threads is joined when Scheduler.run() is over.
LeaveSession ==
  /\ Main("running", "joining")
  /\ UNCHANGED <<casdVars, callVars, should_stop, shutdown>>

StopMonitor ==
  /\ Main("joining", "stopping") /\ \A c \in Client : pc[c] = "idle"
  /\ should_stop' = TRUE
  /\ UNCHANGED <<casdVars, callVars, shutdown>>

JoinMonitor ==
  /\ Main("stopping", "releasing") /\ pc[Monitor] = "ended"
  /\ UNCHANGED <<casdVars, callVars, should_stop, shutdown>>

\* release_resources() drops the connection.
Release ==
  /\ Main("releasing", "polling") /\ lock = NoThread
  /\ shutdown' = TRUE /\ set' = 0
  /\ UNCHANGED <<casdVars, pc, got, lock, interrupted, should_stop>>

\* _terminate(): SIGTERM, unless the process is dead already.
Terminate ==
  /\ Main("polling", IF process = "dead" THEN "gone" ELSE "waiting")
  /\ UNCHANGED <<casdVars, callVars, should_stop, shutdown>>

\* Mutant: a process that does not end in time is left alone.
WaitForExitOnly ==
  /\ Main("waiting", "gone")
  /\ UNCHANGED <<casdVars, callVars, should_stop, shutdown>>

\* It is waited for twice for a while.
WaitForExit ==
  /\ Main("waiting", IF process = "dead" THEN "gone" ELSE "killing")
  /\ UNCHANGED <<casdVars, callVars, should_stop, shutdown>>

Kill ==
  /\ Main("killing", "gone")
  /\ process' = "dead"
  /\ UNCHANGED <<socket, late, callVars, should_stop, shutdown>>

MainStep == StopMonitor \/ JoinMonitor \/ Release \/ Terminate \/ WaitForExit \/ Kill

-----------------------------------------------------------------------------
(* casd, and time. *)

Ready ==
  /\ process = "starting" /\ process' = "ready" /\ socket' = TRUE
  /\ UNCHANGED <<late, callVars, mainVars>>

\* casd may crash, and then leaves its socket behind, or end in an orderly way.
Die ==
  /\ process # "dead" /\ process' = "dead"
  /\ socket' \in {socket, FALSE}
  /\ UNCHANGED <<late, callVars, mainVars>>

TimePasses == ~late /\ late' = TRUE /\ UNCHANGED <<process, socket, callVars, mainVars>>

Next ==
  \/ \E c \in Client : pc[c] = "idle" /\ Ask(c)
  \/ \E c \in Client : Interrupt(c)
  \/ \E c \in Caller : CallerStep(c)
  \/ LeaveSession \/ MainStep \/ Ready \/ Die \/ TimePasses

Spec == Init /\ [][Next]_vars

\* Every thread is run by the interpreter and time passes.  casd need not do anything.
FairSpec ==
  Spec /\ WF_vars(MainStep) /\ WF_vars(TimePasses) /\ \A c \in Caller : WF_vars(CallerStep(c))

-----------------------------------------------------------------------------
(* Properties. *)

\* Whoever asks for a stub gets it or an error, but never None, while others connect, wait or
\* fail to: this holds of the getters that look at their own stub, and as long as no thread was
\* terminated while it set the stubs.
StubOrError ==
  \A c \in Caller : got[c] = "None" => Wants(c) = "cas" \/ interrupted

\* The same for every getter: "Return ContentAddressableStorage stub for buildbox-casd channel"
\* (get_cas()).
EveryStubOrError == \A c \in Caller : got[c] = "None" => interrupted

\* An interrupted thread does not spoil the connection for the others.
InterruptIsHarmless == ~(lock = NoThread /\ set \in 1..(Len(Order) - 1))


\* When the main thread is through, casd is dead, and no thread waits for it or holds the lock.
NothingLeftBehind ==
  main = "gone" =>
    process = "dead" /\ lock = NoThread /\ set = 0 /\ pc[Monitor] = "ended"
=============================================================================

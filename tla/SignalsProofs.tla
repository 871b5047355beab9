---------------------------- MODULE SignalsProofs ----------------------------
(***************************************************************************)
(* What TLAPS proves of Signals, for any threads and any bounds: what the  *)
(* handler of SIGTSTP can raise, and that the main thread leaves nothing   *)
(* stopped, locked or told to wait.                                        *)
(***************************************************************************)
EXTENDS Signals, SequenceTheorems, TLAPS

-----------------------------------------------------------------------------
(* The inductive invariant. *)

Kinds == {"handler", "event", "prompt"}
Places == {"lock", "suspend", "suspended", "resume"}
Suspenders == [thread : Thread, kind : {"time", "process"}]
Frames == {f \in [kind : Kinds, at : Places, left : Seq(Suspenders), mutated : BOOLEAN] :
             f.at = "lock" => f.kind = "handler"}

SignalsTyped ==
  /\ frames \in Seq(Frames)
  /\ stack \in Seq(Suspenders)
  /\ lock \in BOOLEAN /\ event \in BOOLEAN
  /\ timed \subseteq Thread
  /\ process \in [Thread -> {"none", "running", "stopped", "exited"}]
  /\ pc \in [Thread -> {"new", "timing", "timed", "entering", "launching",
                        "running", "exited", "ending", "done"}]

\* The frame of a handler that is past its lock.
Holds(f) == f.kind = "handler" /\ f.at # "lock"

\* At most one frame holds the lock, and the lock is held if one does.
OneHolder ==
  /\ lock <=> \E i \in DOMAIN frames : Holds(frames[i])
  /\ \A i, j \in DOMAIN frames : Holds(frames[i]) /\ Holds(frames[j]) => i = j

\* The clock of each of the suspenders was stopped, or is still to be.
ClocksStopped(suspenders, clocks, left) ==
  \A s \in suspenders : s.kind = "time" => s.thread \in clocks \/ s \in left

\* A holder finds the stack as it was, and resumes no clock that it did not stop.
HolderIsRight(f, suspenders, clocks) ==
  /\ ~f.mutated
  /\ f.at = "suspend" => ClocksStopped(suspenders, clocks, ToSet(f.left))
  /\ f.at = "suspended" => ClocksStopped(suspenders, clocks, {})
  /\ f.at = "resume" => ClocksStopped(ToSet(f.left), clocks, {})
HoldersAreRight ==
  \A i \in DOMAIN frames : Holds(frames[i]) => HolderIsRight(frames[i], ToSet(stack), timed)

HandlerInv == SignalsTyped /\ OneHolder /\ HoldersAreRight /\ HandlerNeverRaces

\* A process that can be stopped is one that runs, and its suspender is on the stack.
Started == {"launching", "running", "exited"}
Stopped == {t \in Thread : process[t] = "stopped"}
StoppedAreListed ==
  /\ \A t \in Thread : process[t] \in {"running", "stopped"} => pc[t] = "running"
  /\ \A t \in Thread : pc[t] \in Started => Suspender(t, "process") \in ToSet(stack)

\* A frame that resumes has before it all that is stopped, unless the stack has changed.
StoppedAreLeft ==
  frames # <<>> /\ Top.at = "resume" /\ ~Top.mutated =>
    \A t \in Stopped : Suspender(t, "process") \in ToSet(Top.left)

NothingIsLeft == frames = <<>> /\ error = NoError => event /\ Stopped = {}

LeftInv == HandlerInv /\ StoppedAreListed /\ StoppedAreLeft /\ NothingIsLeft

-----------------------------------------------------------------------------
(* Sequences of suspenders. *)

\* The members of a sequence are what it has at its positions.
LEMMA MembersAre ==
  ASSUME NEW S, NEW s \in Seq(S)
  PROVE  \A x : x \in ToSet(s) <=> \E i \in 1..Len(s) : x = s[i]
<1>1. DOMAIN s = 1..Len(s)
  BY LenProperties
<1> QED
  BY <1>1 DEF ToSet

\* Reversing a sequence keeps its members.
LEMMA ReverseKeeps ==
  ASSUME NEW S, NEW s \in Seq(S)
  PROVE  Reverse(s) \in Seq(S) /\ ToSet(Reverse(s)) = ToSet(s)
<1> DEFINE r == Reverse(s)
<1>1. r \in Seq(S) /\ Len(r) = Len(s) /\ \A i \in 1..Len(s) : r[i] = s[Len(s) - i + 1]
  BY DEF Reverse
<1>2. Len(s) \in Nat
  OBVIOUS
<1> HIDE DEF r
<1>3. \A i \in 1..Len(s) : Len(s) - i + 1 \in 1..Len(s) /\ s[i] = r[Len(s) - i + 1]
  <2> TAKE i \in 1..Len(s)
  <2>1. Len(s) - i + 1 \in 1..Len(s) /\ Len(s) - (Len(s) - i + 1) + 1 = i
    BY <1>2
  <2>2. r[Len(s) - i + 1] = s[Len(s) - (Len(s) - i + 1) + 1]
    BY <1>1, <2>1
  <2> QED
    BY <2>1, <2>2
<1>4. \A x : x \in ToSet(r) <=> \E i \in 1..Len(s) : x = r[i]
  BY <1>1, MembersAre
<1>5. \A x : x \in ToSet(s) <=> \E i \in 1..Len(s) : x = s[i]
  BY MembersAre
<1>6. ToSet(r) = ToSet(s)
  BY <1>1, <1>3, <1>4, <1>5
<1> QED
  BY <1>1, <1>6 DEF r

\* The members of a sequence are its head and those of its tail.
LEMMA TailKeeps ==
  ASSUME NEW S, NEW s \in Seq(S), s # <<>>
  PROVE  Head(s) \in S /\ Tail(s) \in Seq(S) /\ ToSet(s) = {Head(s)} \cup ToSet(Tail(s))
<1> DEFINE h == Head(s)
           t == Tail(s)
<1>1. /\ Len(s) \in Nat \ {0} /\ h = s[1] /\ h \in S
      /\ t \in Seq(S) /\ Len(t) = Len(s) - 1
      /\ \A i \in 1..(Len(s) - 1) : t[i] = s[i + 1]
  BY EmptySeq
<1> HIDE DEF h, t
<1>2. \A x : x \in ToSet(s) <=> \E i \in 1..Len(s) : x = s[i]
  BY MembersAre
<1>3. \A x : x \in ToSet(t) <=> \E i \in 1..(Len(s) - 1) : x = t[i]
  <2>1. \A x : x \in ToSet(t) <=> \E i \in 1..Len(t) : x = t[i]
    BY <1>1, MembersAre
  <2> QED
    BY <1>1, <2>1
<1>4. \A i \in 1..Len(s) : i = 1 \/ (i - 1 \in 1..(Len(s) - 1) /\ s[i] = t[i - 1])
  BY <1>1
<1>5. 1 \in 1..Len(s) /\ \A i \in 1..(Len(s) - 1) : i + 1 \in 1..Len(s)
  BY <1>1
<1>6. ASSUME NEW x \in ToSet(s)
      PROVE  x = h \/ x \in ToSet(t)
  BY <1>1, <1>2, <1>3, <1>4, <1>6
<1>7. ASSUME NEW x \in ToSet(t)
      PROVE  x \in ToSet(s)
  <2>1. PICK i \in 1..(Len(s) - 1) : x = t[i]
    BY <1>3
  <2>2. x = s[i + 1] /\ i + 1 \in 1..Len(s)
    BY <1>1, <1>5, <2>1
  <2> QED
    BY <1>2, <2>2
<1>8. h \in ToSet(s)
  BY <1>1, <1>2, <1>5
<1> QED
  BY <1>1, <1>6, <1>7, <1>8 DEF h, t

\* Appending adds a member.
LEMMA AppendAdds ==
  ASSUME NEW S, NEW s \in Seq(S), NEW x \in S
  PROVE  Append(s, x) \in Seq(S) /\ ToSet(Append(s, x)) = ToSet(s) \cup {x}
<1> DEFINE a == Append(s, x)
<1>1. /\ a \in Seq(S) /\ Len(a) = Len(s) + 1 /\ Len(s) \in Nat
      /\ a[Len(s) + 1] = x /\ \A i \in 1..Len(s) : a[i] = s[i]
  OBVIOUS
<1> HIDE DEF a
<1>2. \A y : y \in ToSet(s) <=> \E i \in 1..Len(s) : y = s[i]
  BY MembersAre
<1>3. \A y : y \in ToSet(a) <=> \E i \in 1..(Len(s) + 1) : y = a[i]
  BY <1>1, MembersAre
<1>4. \A i \in 1..(Len(s) + 1) : i = Len(s) + 1 \/ i \in 1..Len(s)
  BY <1>1
<1>5. (Len(s) + 1) \in 1..(Len(s) + 1) /\ \A i \in 1..Len(s) : i \in 1..(Len(s) + 1)
  BY <1>1
<1>6. ASSUME NEW y
      PROVE  y \in ToSet(a) <=> (y \in ToSet(s) \/ y = x)
  BY <1>1, <1>2, <1>3, <1>4, <1>5
<1> QED
  BY <1>1, <1>6 DEF a

\* Removing an occurrence loses no other member.
LEMMA RemoveAtKeeps ==
  ASSUME NEW S, NEW s \in Seq(S), NEW i \in DOMAIN s
  PROVE  RemoveAt(s, i) \in Seq(S) /\ ToSet(s) \subseteq ToSet(RemoveAt(s, i)) \cup {s[i]}
<1> DEFINE a == SubSeq(s, 1, i - 1)
           b == SubSeq(s, i + 1, Len(s))
<1>1. i \in 1..Len(s) /\ Len(s) \in Nat
  OBVIOUS
<1>2. a \in Seq(S) /\ Len(a) = i - 1 /\ \A j \in 1..(i - 1) : a[j] = s[j]
  BY <1>1
<1>3. b \in Seq(S) /\ Len(b) = Len(s) - i /\ \A j \in 1..(Len(s) - i) : b[j] = s[i + j]
  BY <1>1
<1>4. RemoveAt(s, i) = a \o b
  BY DEF RemoveAt
<1> HIDE DEF a, b
<1>5. /\ a \o b \in Seq(S) /\ Len(a \o b) = Len(s) - 1
      /\ \A j \in 1..(Len(s) - 1) : (a \o b)[j] = IF j < i THEN s[j] ELSE s[j + 1]
  BY <1>1, <1>2, <1>3
<1>6. \A j \in 1..Len(s) : j # i => \E k \in 1..(Len(s) - 1) : (a \o b)[k] = s[j]
  <2> TAKE j \in 1..Len(s)
  <2> HAVE j # i
  <2>1. i \in Int /\ j \in Int
    BY <1>1
  <2>2. CASE j < i
    <3>1. j \in 1..(Len(s) - 1)
      BY <2>1, <2>2, <1>1
    <3> QED
      BY <3>1, <2>2, <1>5
  <2>3. CASE j > i
    <3>1. j - 1 \in 1..(Len(s) - 1) /\ ~(j - 1 < i) /\ (j - 1) + 1 = j
      BY <2>1, <2>3, <1>1
    <3>2. (a \o b)[j - 1] = s[j]
      BY <3>1, <1>5
    <3> QED
      BY <3>1, <3>2
  <2>4. j < i \/ j > i
    BY <2>1
  <2> QED
    BY <2>2, <2>3, <2>4
<1>7. \A x : x \in ToSet(s) <=> \E j \in 1..Len(s) : x = s[j]
  BY MembersAre
<1>8. \A x : x \in ToSet(a \o b) <=> \E j \in 1..(Len(s) - 1) : x = (a \o b)[j]
  <2> DEFINE c == a \o b
  <2>1. c \in Seq(S) /\ Len(c) = Len(s) - 1
    BY <1>5
  <2> HIDE DEF c
  <2>2. \A x : x \in ToSet(c) <=> \E j \in 1..Len(c) : x = c[j]
    BY <2>1, MembersAre
  <2> QED
    BY <2>1, <2>2 DEF c
<1>9. ASSUME NEW x \in ToSet(s), x # s[i]
      PROVE  x \in ToSet(a \o b)
  BY <1>6, <1>7, <1>8, <1>9
<1> QED
  BY <1>4, <1>5, <1>9

\* A sequence without its last member.
LEMMA FrontIs ==
  ASSUME NEW S, NEW s \in Seq(S), s # <<>>
  PROVE  /\ Front(s) \in Seq(S) /\ Len(Front(s)) = Len(s) - 1
         /\ \A i \in 1..(Len(s) - 1) : Front(s)[i] = s[i]
<1> DEFINE n == Len(s) - 1
<1>1. Len(s) \in Nat \ {0}
  BY EmptySeq
<1>2. n \in Nat /\ 1 \in Int /\ n \in Int /\ \A i \in 1..n : i \in 1..Len(s) /\ s[i] \in S
  BY <1>1
<1> HIDE DEF n
<1> DEFINE f == SubSeq(s, 1, n)
<1>3. /\ f \in Seq(S) /\ Len(f) = (IF 1 <= n THEN n - 1 + 1 ELSE 0)
      /\ \A i \in 1..(n - 1 + 1) : f[i] = s[1 + i - 1]
  BY <1>2, SubSeqProperties
<1> HIDE DEF f
<1>4. Len(f) = n /\ n - 1 + 1 = n /\ \A i \in 1..n : 1 + i - 1 = i
  BY <1>2, <1>3
<1>5. \A i \in 1..n : f[i] = s[i]
  BY <1>3, <1>4
<1>6. Front(s) = f
  BY DEF Front, f, n
<1> QED
  BY <1>3, <1>4, <1>5, <1>6 DEF n

-----------------------------------------------------------------------------
(* The frames of the main thread. *)

\* The frame on top is the last one.
LEMMA TopIs ==
  ASSUME SignalsTyped, frames # <<>>
  PROVE  Len(frames) \in DOMAIN frames /\ Top = frames[Len(frames)] /\ Top \in Frames
<1>1. frames \in Seq(Frames) /\ Len(frames) \in Nat \ {0}
  BY EmptySeq DEF SignalsTyped
<1> QED
  BY <1>1 DEF Top, Last

\* What the main thread's frames are once the one on top is f.
OnTop(f) ==
  /\ frames' \in Seq(Frames) /\ frames' # <<>> /\ Top' = f
  /\ DOMAIN frames' = DOMAIN frames
  /\ frames'[Len(frames)] = f
  /\ \A i \in DOMAIN frames : i # Len(frames) => frames'[i] = frames[i]

LEMMA SetTopIs ==
  ASSUME SignalsTyped, frames # <<>>, NEW f \in Frames, SetTop(f)
  PROVE  OnTop(f)
<1>1. frames \in Seq(Frames) /\ Len(frames) \in Nat \ {0}
  BY EmptySeq DEF SignalsTyped
<1>2. /\ Front(frames) \in Seq(Frames) /\ Len(Front(frames)) = Len(frames) - 1
      /\ \A i \in 1..(Len(frames) - 1) : Front(frames)[i] = frames[i]
  BY <1>1, FrontIs
<1>3. /\ frames' \in Seq(Frames) /\ Len(frames') = Len(frames)
      /\ frames'[Len(frames)] = f
      /\ \A i \in 1..(Len(frames) - 1) : frames'[i] = frames[i]
  BY <1>1, <1>2 DEF SetTop
<1>4. frames' # <<>> /\ Top' = f
  BY <1>1, <1>3 DEF Top, Last
<1> QED
  BY <1>1, <1>3, <1>4 DEF OnTop

\* A frame begins above the others.
LEMMA FrameBegins ==
  ASSUME SignalsTyped, NEW f \in Frames, frames' = Append(frames, f)
  PROVE  /\ frames' \in Seq(Frames) /\ frames' # <<>> /\ Top' = f
         /\ DOMAIN frames' = DOMAIN frames \cup {Len(frames) + 1}
         /\ frames'[Len(frames) + 1] = f
         /\ \A i \in DOMAIN frames : frames'[i] = frames[i] /\ i # Len(frames) + 1
<1>1. frames \in Seq(Frames) /\ Len(frames) \in Nat
  BY DEF SignalsTyped
<1>2. /\ frames' \in Seq(Frames) /\ Len(frames') = Len(frames) + 1
      /\ frames'[Len(frames) + 1] = f
      /\ \A i \in 1..Len(frames) : frames'[i] = frames[i]
  BY <1>1
<1>3. frames' # <<>> /\ Top' = f
  BY <1>1, <1>2 DEF Top, Last
<1> QED
  BY <1>1, <1>2, <1>3

\* The frame on top ends.
LEMMA FrameEnds ==
  ASSUME SignalsTyped, frames # <<>>, frames' = Front(frames)
  PROVE  /\ frames' \in Seq(Frames)
         /\ DOMAIN frames' = DOMAIN frames \ {Len(frames)}
         /\ \A i \in DOMAIN frames' : frames'[i] = frames[i]
<1>1. frames \in Seq(Frames) /\ Len(frames) \in Nat \ {0}
  BY EmptySeq DEF SignalsTyped
<1>2. /\ frames' \in Seq(Frames) /\ Len(frames') = Len(frames) - 1
      /\ \A i \in 1..(Len(frames) - 1) : frames'[i] = frames[i]
  BY <1>1, FrontIs
<1>3. DOMAIN frames = 1..Len(frames) /\ DOMAIN frames' = 1..(Len(frames) - 1)
  BY <1>1, <1>2
<1>4. 1..(Len(frames) - 1) = (1..Len(frames)) \ {Len(frames)}
  BY <1>1
<1> QED
  BY <1>2, <1>3, <1>4

-----------------------------------------------------------------------------
(* The handler of SIGTSTP. *)

\* Whoever is on top, the other frames are as right as they were.
LEMMA TopStep ==
  ASSUME HandlerInv, frames # <<>>, NEW f \in Frames, OnTop(f),
         Holds(f) <=> Holds(Top), lock' = lock, stack' = stack, timed \subseteq timed',
         Holds(f) => HolderIsRight(f, ToSet(stack), timed')
  PROVE  OneHolder' /\ HoldersAreRight'
<1>1. /\ Len(frames) \in DOMAIN frames /\ Top = frames[Len(frames)]
      /\ DOMAIN frames' = DOMAIN frames /\ frames'[Len(frames)] = f
      /\ \A i \in DOMAIN frames : i # Len(frames) => frames'[i] = frames[i]
  BY TopIs DEF HandlerInv, OnTop
<1>2. \A i \in DOMAIN frames : Holds(frames'[i]) <=> Holds(frames[i])
  BY <1>1
<1>3. OneHolder'
  BY <1>1, <1>2 DEF HandlerInv, OneHolder
<1>4. \A i \in DOMAIN frames : Holds(frames[i]) => HolderIsRight(frames[i], ToSet(stack), timed')
  BY DEF HandlerInv, HoldersAreRight, HolderIsRight, ClocksStopped
<1>5. \A i \in DOMAIN frames' : Holds(frames'[i]) => HolderIsRight(frames'[i], ToSet(stack), timed')
  BY <1>1, <1>2, <1>4
<1> QED
  BY <1>3, <1>5 DEF HoldersAreRight

\* An error unwinds every frame, and leaves the lock.
LEMMA RaiseKeeps ==
  ASSUME HandlerInv, NEW why, Raise(why), Top.kind = "handler" => why \in {"gone", "unbound"}
  PROVE  /\ frames' \in Seq(Frames) /\ lock' \in BOOLEAN
         /\ OneHolder' /\ HoldersAreRight' /\ HandlerNeverRaces'
<1>1. frames' = <<>> /\ lock' = FALSE /\ error' = [frame |-> Top.kind, why |-> why]
  BY DEF Raise
<1>2. DOMAIN frames' = {} /\ frames' \in Seq(Frames)
  BY <1>1
<1> QED
  BY <1>1, <1>2 DEF OneHolder, HoldersAreRight, HandlerNeverRaces

LEMMA HandlerBeginsKeeps ==
  ASSUME HandlerInv, HandlerBegins
  PROVE  HandlerInv'
<1> DEFINE f == Frame("handler", "lock")
<1>1. f \in Frames /\ ~Holds(f)
  BY EmptySeq DEF Frame, Frames, Kinds, Places, Holds
<1>2. frames' = Append(frames, f) /\ event' = FALSE
  BY DEF HandlerBegins
<1>3. lock' = lock /\ stack' = stack /\ timed' = timed /\ process' = process /\ pc' = pc /\ error' = error
  BY DEF HandlerBegins, threadVars
<1> HIDE DEF f
<1>4. /\ frames' \in Seq(Frames)
      /\ DOMAIN frames' = DOMAIN frames \cup {Len(frames) + 1}
      /\ frames'[Len(frames) + 1] = f
      /\ \A i \in DOMAIN frames : frames'[i] = frames[i] /\ i # Len(frames) + 1
  BY <1>1, <1>2, FrameBegins DEF HandlerInv
<1>5. SignalsTyped'
  BY <1>2, <1>3, <1>4 DEF HandlerInv, SignalsTyped
<1>6. \A i \in DOMAIN frames' : Holds(frames'[i]) => i \in DOMAIN frames /\ Holds(frames[i])
  BY <1>1, <1>4
<1>7. \A i \in DOMAIN frames : Holds(frames[i]) => i \in DOMAIN frames' /\ Holds(frames'[i])
  BY <1>4
<1>8. OneHolder'
  BY <1>3, <1>6, <1>7 DEF HandlerInv, OneHolder
<1>9. HoldersAreRight'
  BY <1>3, <1>4, <1>6 DEF HandlerInv, HoldersAreRight
<1> QED
  BY <1>3, <1>5, <1>8, <1>9 DEF HandlerInv, HandlerNeverRaces

LEMMA HandlerLocksKeeps ==
  ASSUME HandlerInv, HandlerLocks
  PROVE  HandlerInv'
<1> DEFINE f == Iterate("suspend", Reverse(stack))
<1>1. stack \in Seq(Suspenders) /\ frames # <<>> /\ Top.at = "lock" /\ ~lock /\ SetTop(f) /\ lock' = TRUE
  BY DEF HandlerLocks, HandlerInv, SignalsTyped
<1>2. stack' = stack /\ timed' = timed /\ process' = process /\ pc' = pc /\ error' = error /\ event' = event
  BY DEF HandlerLocks, threadVars
<1>3. Top \in Frames
  BY <1>1, TopIs DEF HandlerInv
<1>4. Reverse(stack) \in Seq(Suspenders) /\ ToSet(Reverse(stack)) = ToSet(stack)
  BY <1>1, ReverseKeeps
<1>5. /\ f \in Frames /\ f.kind = Top.kind /\ f.at = "suspend"
      /\ f.left = Reverse(stack) /\ f.mutated = FALSE
  BY <1>3, <1>4 DEF Iterate, Frames, Places
<1> HIDE DEF f
<1>6. OnTop(f)
  BY <1>1, <1>5, SetTopIs DEF HandlerInv
<1>7. SignalsTyped'
  BY <1>1, <1>2, <1>6 DEF HandlerInv, SignalsTyped, OnTop
<1>8. \A i \in DOMAIN frames : ~Holds(frames[i])
  BY <1>1 DEF HandlerInv, OneHolder
<1>9. Holds(f) /\ HolderIsRight(f, ToSet(stack), timed)
  BY <1>1, <1>3, <1>4, <1>5 DEF Holds, HolderIsRight, ClocksStopped, Frames
<1>10. \A i \in DOMAIN frames' : Holds(frames'[i]) => i = Len(frames)
  BY <1>6, <1>8 DEF OnTop
<1>11. OneHolder'
  <2>1. Len(frames) \in DOMAIN frames' /\ frames'[Len(frames)] = f
    BY <1>1, <1>6, TopIs DEF HandlerInv, OnTop
  <2> QED
    BY <1>1, <1>9, <1>10, <2>1 DEF OneHolder
<1>12. HoldersAreRight'
  BY <1>2, <1>6, <1>9, <1>10 DEF HoldersAreRight, OnTop
<1> QED
  BY <1>2, <1>7, <1>11, <1>12 DEF HandlerInv, HandlerNeverRaces

LEMMA EventBeginsKeeps ==
  ASSUME HandlerInv, EventBegins \/ PromptBegins
  PROVE  HandlerInv'
<1>1. frames = <<>> /\ stack \in Seq(Suspenders)
  BY DEF EventBegins, PromptBegins, HandlerInv, SignalsTyped
<1>2. PICK kind \in {"event", "prompt"} :
        frames' = <<[Frame(kind, "suspend") EXCEPT !.left = Reverse(stack)]>>
  BY DEF EventBegins, PromptBegins
<1>3. /\ lock' = lock /\ stack' = stack /\ timed' = timed /\ process' = process /\ pc' = pc
      /\ error' = error /\ event' = FALSE
  BY DEF EventBegins, PromptBegins, threadVars
<1> DEFINE f == [Frame(kind, "suspend") EXCEPT !.left = Reverse(stack)]
<1>4. Reverse(stack) \in Seq(Suspenders)
  BY <1>1, ReverseKeeps
<1>5. f \in Frames /\ ~Holds(f)
  BY <1>4 DEF Frame, Frames, Kinds, Places, Holds
<1>6. frames' = <<f>>
  BY <1>2
<1> HIDE DEF f
<1>7. frames' \in Seq(Frames) /\ DOMAIN frames' = {1} /\ frames'[1] = f
  BY <1>5, <1>6
<1>8. SignalsTyped'
  BY <1>3, <1>7 DEF HandlerInv, SignalsTyped
<1>9. ~lock
  BY <1>1 DEF HandlerInv, OneHolder
<1>10. OneHolder' /\ HoldersAreRight'
  BY <1>3, <1>5, <1>7, <1>9 DEF OneHolder, HoldersAreRight
<1> QED
  BY <1>3, <1>8, <1>10 DEF HandlerInv, HandlerNeverRaces

\* The suspender that is called next, and the frame without it.
LEMMA NextSuspender ==
  ASSUME HandlerInv, frames # <<>>, Top.left # <<>>
  PROVE  LET s == Head(Top.left)
             f == [Top EXCEPT !.left = Tail(@)]
         IN /\ s \in Suspenders /\ f \in Frames
            /\ f.kind = Top.kind /\ f.at = Top.at /\ f.mutated = Top.mutated /\ f.left = Tail(Top.left)
            /\ ToSet(Top.left) = {s} \cup ToSet(f.left)
<1>1. Top \in Frames /\ Top.left \in Seq(Suspenders)
  BY TopIs DEF HandlerInv, Frames
<1> DEFINE l == Top.left
           f == [Top EXCEPT !.left = Tail(@)]
<1>2. Head(l) \in Suspenders /\ Tail(l) \in Seq(Suspenders) /\ ToSet(l) = {Head(l)} \cup ToSet(Tail(l))
  BY <1>1, TailKeeps
<1>3. /\ f.kind = Top.kind /\ f.at = Top.at /\ f.mutated = Top.mutated /\ f.left = Tail(l)
      /\ f \in Frames
  BY <1>1, <1>2 DEF Frames
<1> QED
  BY <1>2, <1>3

\* A holder on top is right.
LEMMA TopIsRight ==
  ASSUME HandlerInv, frames # <<>>, Top.kind = "handler", Top.at # "lock"
  PROVE  Holds(Top) /\ HolderIsRight(Top, ToSet(stack), timed)
  BY TopIs DEF HandlerInv, HoldersAreRight, Holds

LEMMA CallSuspendKeeps ==
  ASSUME HandlerInv, CallSuspend
  PROVE  HandlerInv'
<1> DEFINE s == Head(Top.left)
           t == s.thread
           why == IF Top.mutated THEN "mutated"
                  ELSE IF s.kind = "process" THEN ProcessError(t) ELSE "none"
           f == [Top EXCEPT !.left = Tail(@)]
<1>1. frames # <<>> /\ Top.at = "suspend" /\ Top.left # <<>>
  BY DEF CallSuspend
<1>2. event' = event /\ stack' = stack /\ pc' = pc
  BY DEF CallSuspend
<1>3. \/ why # "none" /\ Raise(why) /\ process' = process /\ timed' = timed
      \/ /\ why = "none" /\ SetTop(f)
         /\ timed' = IF s.kind = "time" THEN timed \cup {t} ELSE timed
         /\ process' = IF s.kind = "process" /\ process[t] = "running"
                       THEN [process EXCEPT ![t] = "stopped"] ELSE process
         /\ error' = error /\ lock' = lock
  BY DEF CallSuspend
<1>4. /\ s \in Suspenders /\ f \in Frames
      /\ f.kind = Top.kind /\ f.at = Top.at /\ f.mutated = Top.mutated
      /\ ToSet(Top.left) = {s} \cup ToSet(f.left)
  BY <1>1, NextSuspender
<1>5. why \in {"none", "mutated", "gone", "unbound"} /\ (why = "mutated" => Top.mutated)
  BY DEF ProcessError
<1>6. Top.kind = "handler" => Holds(Top) /\ HolderIsRight(Top, ToSet(stack), timed)
  BY <1>1, TopIsRight
<1> HIDE DEF why, f
<1>7. CASE why # "none" /\ Raise(why) /\ process' = process /\ timed' = timed
  <2>1. Top.kind = "handler" => why \in {"gone", "unbound"}
    BY <1>5, <1>6, <1>7 DEF HolderIsRight
  <2>2. frames' \in Seq(Frames) /\ lock' \in BOOLEAN /\ OneHolder' /\ HoldersAreRight' /\ HandlerNeverRaces'
    BY <1>7, <2>1, RaiseKeeps
  <2> QED
    BY <1>2, <1>7, <2>2 DEF HandlerInv, SignalsTyped
<1>8. CASE /\ why = "none" /\ SetTop(f)
           /\ timed' = IF s.kind = "time" THEN timed \cup {t} ELSE timed
           /\ process' = IF s.kind = "process" /\ process[t] = "running"
                         THEN [process EXCEPT ![t] = "stopped"] ELSE process
           /\ error' = error /\ lock' = lock
  <2>1. OnTop(f)
    BY <1>1, <1>4, <1>8, SetTopIs DEF HandlerInv
  <2>2. timed \subseteq timed' /\ timed' \subseteq Thread
    BY <1>4, <1>8 DEF HandlerInv, SignalsTyped, Suspenders
  <2>3. Holds(f) => HolderIsRight(f, ToSet(stack), timed')
    BY <1>1, <1>4, <1>6, <1>8 DEF Holds, HolderIsRight, ClocksStopped
  <2>4. OneHolder' /\ HoldersAreRight'
    BY <1>1, <1>2, <1>4, <1>8, <2>1, <2>2, <2>3, TopStep DEF Holds
  <2>5. SignalsTyped'
    BY <1>2, <1>4, <1>8, <2>1, <2>2 DEF HandlerInv, SignalsTyped, Suspenders, OnTop
  <2> QED
    BY <1>8, <2>4, <2>5 DEF HandlerInv, HandlerNeverRaces
<1> QED
  BY <1>3, <1>7, <1>8

LEMMA SuspendedKeeps ==
  ASSUME HandlerInv, Suspended
  PROVE  HandlerInv'
<1> DEFINE f == [Top EXCEPT !.at = "suspended"]
<1>1. frames # <<>> /\ Top.at = "suspend" /\ Top.left = <<>> /\ SetTop(f)
  BY DEF Suspended
<1>2. /\ lock' = lock /\ event' = event /\ stack' = stack /\ pc' = pc /\ process' = process
      /\ timed' = timed /\ error' = error
  BY DEF Suspended, threadVars
<1>3. f \in Frames /\ f.kind = Top.kind /\ f.at = "suspended" /\ f.mutated = Top.mutated
  BY <1>1, TopIs DEF HandlerInv, Frames, Places
<1> HIDE DEF f
<1>4. OnTop(f)
  BY <1>1, <1>3, SetTopIs DEF HandlerInv
<1>5. ToSet(<<>>) = {}
  BY DEF ToSet
<1>6. Holds(f) => HolderIsRight(f, ToSet(stack), timed)
  BY <1>1, <1>3, <1>5, TopIsRight DEF Holds, HolderIsRight, ClocksStopped
<1>7. OneHolder' /\ HoldersAreRight'
  BY <1>1, <1>2, <1>3, <1>4, <1>6, TopStep DEF Holds
<1> QED
  BY <1>2, <1>4, <1>7 DEF HandlerInv, SignalsTyped, OnTop, HandlerNeverRaces

LEMMA ResumeBeginsKeeps ==
  ASSUME HandlerInv, ResumeBegins
  PROVE  HandlerInv'
<1> DEFINE f == Iterate("resume", stack)
<1>1. frames # <<>> /\ Top.at = "suspended" /\ SetTop(f) /\ stack \in Seq(Suspenders)
  BY DEF ResumeBegins, HandlerInv, SignalsTyped
<1>2. /\ lock' = lock /\ event' = event /\ stack' = stack /\ pc' = pc /\ process' = process
      /\ timed' = timed /\ error' = error
  BY DEF ResumeBegins, threadVars
<1>3. f \in Frames /\ f.kind = Top.kind /\ f.at = "resume" /\ f.mutated = FALSE /\ f.left = stack
  BY <1>1, TopIs DEF HandlerInv, Iterate, Frames, Places
<1> HIDE DEF f
<1>4. OnTop(f)
  BY <1>1, <1>3, SetTopIs DEF HandlerInv
<1>5. Holds(f) => HolderIsRight(f, ToSet(stack), timed)
  BY <1>1, <1>3, TopIsRight DEF Holds, HolderIsRight, ClocksStopped
<1>6. OneHolder' /\ HoldersAreRight'
  BY <1>1, <1>2, <1>3, <1>4, <1>5, TopStep DEF Holds
<1> QED
  BY <1>2, <1>4, <1>6 DEF HandlerInv, SignalsTyped, OnTop, HandlerNeverRaces

LEMMA CallResumeKeeps ==
  ASSUME HandlerInv, CallResume
  PROVE  HandlerInv'
<1> DEFINE s == Head(Top.left)
           t == s.thread
           why == IF Top.mutated THEN "mutated"
                  ELSE IF s.kind = "process" THEN ProcessError(t)
                  ELSE IF t \notin timed THEN "not suspended" ELSE "none"
           f == [Top EXCEPT !.left = Tail(@)]
<1>1. frames # <<>> /\ Top.at = "resume" /\ (Top.left # <<>> \/ Top.mutated)
  BY DEF CallResume
<1>2. event' = event /\ stack' = stack /\ pc' = pc /\ timed' = timed
  BY DEF CallResume
<1>3. \/ why # "none" /\ Raise(why) /\ process' = process
      \/ /\ why = "none" /\ SetTop(f)
         /\ process' = IF s.kind = "process" /\ process[t] = "stopped"
                       THEN [process EXCEPT ![t] = "running"] ELSE process
         /\ error' = error /\ lock' = lock
  BY DEF CallResume
<1>4. /\ why \in {"none", "mutated", "gone", "unbound", "not suspended"}
      /\ why = "none" => ~Top.mutated
      /\ why = "mutated" => Top.mutated
      /\ why = "not suspended" => ~Top.mutated /\ s.kind # "process" /\ t \notin timed
  BY DEF ProcessError
<1>5. Top.left # <<>> =>
        /\ s \in Suspenders /\ f \in Frames
        /\ f.kind = Top.kind /\ f.at = Top.at /\ f.mutated = Top.mutated
        /\ ToSet(Top.left) = {s} \cup ToSet(f.left)
  BY <1>1, NextSuspender
<1>6. Top.kind = "handler" =>
        Holds(Top) /\ ~Top.mutated /\ ClocksStopped(ToSet(Top.left), timed, {})
  BY <1>1, TopIsRight DEF HolderIsRight
<1> HIDE DEF why, f
<1>7. CASE why # "none" /\ Raise(why) /\ process' = process
  <2>1. Top.kind = "handler" => why # "mutated"
    BY <1>4, <1>6
  <2>2. Top.kind = "handler" => why # "not suspended"
    BY <1>1, <1>4, <1>5, <1>6 DEF ClocksStopped, Suspenders
  <2>3. Top.kind = "handler" => why \in {"gone", "unbound"}
    BY <1>4, <1>7, <2>1, <2>2
  <2>4. frames' \in Seq(Frames) /\ lock' \in BOOLEAN /\ OneHolder' /\ HoldersAreRight' /\ HandlerNeverRaces'
    BY <1>7, <2>3, RaiseKeeps
  <2> QED
    BY <1>2, <1>7, <2>4 DEF HandlerInv, SignalsTyped
<1>8. CASE /\ why = "none" /\ SetTop(f)
           /\ process' = IF s.kind = "process" /\ process[t] = "stopped"
                         THEN [process EXCEPT ![t] = "running"] ELSE process
           /\ error' = error /\ lock' = lock
  <2>1. /\ s \in Suspenders /\ f \in Frames /\ f.kind = Top.kind /\ f.at = "resume"
        /\ f.mutated = Top.mutated /\ ToSet(Top.left) = {s} \cup ToSet(f.left)
    BY <1>1, <1>4, <1>5, <1>8
  <2>2. OnTop(f)
    BY <1>1, <1>8, <2>1, SetTopIs DEF HandlerInv
  <2>3. Holds(f) => HolderIsRight(f, ToSet(stack), timed)
    BY <1>6, <2>1 DEF Holds, HolderIsRight, ClocksStopped
  <2>4. OneHolder' /\ HoldersAreRight'
    BY <1>1, <1>2, <1>8, <2>1, <2>2, <2>3, TopStep DEF Holds
  <2>5. SignalsTyped'
    BY <1>2, <1>8, <2>1, <2>2 DEF HandlerInv, SignalsTyped, Suspenders, OnTop
  <2> QED
    BY <1>8, <2>4, <2>5 DEF HandlerInv, HandlerNeverRaces
<1> QED
  BY <1>3, <1>7, <1>8

LEMMA ResumedKeeps ==
  ASSUME HandlerInv, Resumed
  PROVE  HandlerInv'
<1>1. frames # <<>> /\ Top.at = "resume" /\ frames' = Front(frames)
  BY DEF Resumed
<1>2. /\ event' = TRUE /\ lock' = (lock /\ Top.kind # "handler")
      /\ stack' = stack /\ pc' = pc /\ process' = process /\ timed' = timed /\ error' = error
  BY DEF Resumed, EventAfter, threadVars
<1>3. /\ frames' \in Seq(Frames) /\ DOMAIN frames' = DOMAIN frames \ {Len(frames)}
      /\ \A i \in DOMAIN frames' : frames'[i] = frames[i]
  BY <1>1, FrameEnds DEF HandlerInv
<1>4. Len(frames) \in DOMAIN frames /\ Top = frames[Len(frames)]
  BY <1>1, TopIs DEF HandlerInv
<1>5. lock \in BOOLEAN
  BY DEF HandlerInv, SignalsTyped
<1>6. SignalsTyped'
  BY <1>2, <1>3, <1>5 DEF HandlerInv, SignalsTyped
<1>7. OneHolder'
  <2>1. CASE Top.kind = "handler"
    <3>1. Holds(frames[Len(frames)])
      BY <1>1, <1>4, <2>1 DEF Holds
    <3>2. \A i \in DOMAIN frames' : ~Holds(frames'[i])
      BY <1>3, <1>4, <3>1 DEF HandlerInv, OneHolder
    <3>3. lock' = FALSE
      BY <1>2, <2>1
    <3> QED
      BY <3>2, <3>3 DEF OneHolder
  <2>2. CASE Top.kind # "handler"
    <3>1. ~Holds(frames[Len(frames)])
      BY <1>4, <2>2 DEF Holds
    <3>2. lock' = lock
      BY <1>2, <1>5, <2>2
    <3> QED
      BY <1>3, <3>1, <3>2 DEF HandlerInv, OneHolder
  <2> QED
    BY <2>1, <2>2
<1>8. HoldersAreRight'
  BY <1>2, <1>3 DEF HandlerInv, HoldersAreRight
<1> QED
  BY <1>2, <1>6, <1>7, <1>8 DEF HandlerInv, HandlerNeverRaces

\* A thread changes the stack only while nobody holds the lock.
LEMMA ChangeStackKeeps ==
  ASSUME HandlerInv, NEW new \in Seq(Suspenders), ChangeStack(new), lock' = lock
  PROVE  /\ frames' \in Seq(Frames) /\ stack' \in Seq(Suspenders)
         /\ DOMAIN frames' = DOMAIN frames
         /\ \A i \in DOMAIN frames : frames'[i].at = frames[i].at /\ frames'[i].mutated = TRUE
         /\ OneHolder' /\ HoldersAreRight'
<1>1. /\ ~lock /\ stack' = new
      /\ frames' = [i \in DOMAIN frames |-> [frames[i] EXCEPT !.mutated = TRUE]]
  BY DEF ChangeStack, LockIsFree
<1>2. frames \in Seq(Frames) /\ Len(frames) \in Nat /\ DOMAIN frames = 1..Len(frames)
  BY DEF HandlerInv, SignalsTyped
<1>3. \A i \in DOMAIN frames : frames[i] \in Frames
  BY <1>2
<1>4. \A i \in DOMAIN frames :
        /\ frames'[i] \in Frames
        /\ frames'[i].kind = frames[i].kind /\ frames'[i].at = frames[i].at /\ frames'[i].mutated = TRUE
  BY <1>1, <1>3 DEF Frames
<1>5. DOMAIN frames' = DOMAIN frames
  BY <1>1
<1>6. frames' \in Seq(Frames)
  <2> DEFINE g(i) == [frames[i] EXCEPT !.mutated = TRUE]
  <2>1. \A i \in 1..Len(frames) : g(i) \in Frames
    BY <1>1, <1>2, <1>4
  <2>2. frames' = [i \in 1..Len(frames) |-> g(i)]
    BY <1>1, <1>2
  <2> HIDE DEF g
  <2>3. [i \in 1..Len(frames) |-> g(i)] \in Seq(Frames)
    BY <1>2, <2>1
  <2> QED
    BY <2>2, <2>3
<1>7. \A i \in DOMAIN frames' : ~Holds(frames'[i])
  BY <1>1, <1>4, <1>5 DEF HandlerInv, OneHolder, Holds
<1>8. OneHolder' /\ HoldersAreRight'
  BY <1>1, <1>7 DEF OneHolder, HoldersAreRight
<1> QED
  BY <1>1, <1>4, <1>5, <1>6, <1>8

\* A thread changes the stack or only what is its own.
LEMMA ThreadStepIs ==
  ASSUME HandlerInv, NEW t \in Thread, ThreadStep(t)
  PROVE  /\ pc' \in [Thread -> {"new", "timing", "timed", "entering", "launching",
                                "running", "exited", "ending", "done"}]
         /\ process' \in [Thread -> {"none", "running", "stopped", "exited"}]
         /\ lock' = lock /\ event' = event /\ timed' = timed /\ error' = error
         /\ \/ stack' = stack /\ frames' = frames
            \/ \E new \in Seq(Suspenders) : ChangeStack(new)
<1>1. stack \in Seq(Suspenders)
  BY DEF HandlerInv, SignalsTyped
<1>2. Suspender(t, "time") \in Suspenders /\ Suspender(t, "process") \in Suspenders
  BY DEF Suspender, Suspenders
<1>3. CASE WaitToTime(t) \/ WaitToRun(t) \/ Launch(t) \/ Exit(t)
  BY <1>3 DEF WaitToTime, WaitToRun, Launch, Exit, Goes, mainVars, HandlerInv, SignalsTyped
<1>4. CASE StartTiming(t)
  <2>1. ChangeStack(Append(stack, Suspender(t, "time")))
    BY <1>4 DEF StartTiming
  <2>2. Append(stack, Suspender(t, "time")) \in Seq(Suspenders)
    BY <1>1, <1>2
  <2> QED
    BY <1>4, <2>1, <2>2 DEF StartTiming, Goes, notStack, HandlerInv, SignalsTyped
<1>5. CASE EnterProcess(t)
  <2>1. ChangeStack(Append(stack, Suspender(t, "process")))
    BY <1>5 DEF EnterProcess
  <2>2. Append(stack, Suspender(t, "process")) \in Seq(Suspenders)
    BY <1>1, <1>2
  <2> QED
    BY <1>5, <2>1, <2>2 DEF EnterProcess, Goes, notStack, HandlerInv, SignalsTyped
<1>6. CASE LeaveProcess(t) \/ EndTiming(t)
  <2>1. PICK i \in DOMAIN stack : ChangeStack(RemoveAt(stack, i))
    BY <1>6 DEF LeaveProcess, EndTiming
  <2>2. RemoveAt(stack, i) \in Seq(Suspenders)
    BY <1>1, RemoveAtKeeps
  <2> QED
    BY <1>6, <2>1, <2>2 DEF LeaveProcess, EndTiming, Goes, notStack, HandlerInv, SignalsTyped
<1> QED
  BY <1>3, <1>4, <1>5, <1>6 DEF ThreadStep

LEMMA ThreadStepKeeps ==
  ASSUME HandlerInv, NEW t \in Thread, ThreadStep(t)
  PROVE  HandlerInv'
<1>1. /\ pc' \in [Thread -> {"new", "timing", "timed", "entering", "launching",
                             "running", "exited", "ending", "done"}]
      /\ process' \in [Thread -> {"none", "running", "stopped", "exited"}]
      /\ lock' = lock /\ event' = event /\ timed' = timed /\ error' = error
  BY ThreadStepIs
<1>2. CASE stack' = stack /\ frames' = frames
  BY <1>1, <1>2 DEF HandlerInv, SignalsTyped, OneHolder, HoldersAreRight, HandlerNeverRaces
<1>3. CASE \E new \in Seq(Suspenders) : ChangeStack(new)
  BY <1>1, <1>3, ChangeStackKeeps DEF HandlerInv, SignalsTyped, HandlerNeverRaces
<1> QED
  BY <1>2, <1>3, ThreadStepIs

LEMMA HandlerInvInit == Init => HandlerInv
<1> SUFFICES ASSUME Init PROVE HandlerInv
  OBVIOUS
<1>1. frames = <<>> /\ stack = <<>> /\ ~lock /\ lock \in BOOLEAN /\ event \in BOOLEAN
  BY DEF Init
<1>2. DOMAIN frames = {} /\ frames \in Seq(Frames) /\ stack \in Seq(Suspenders)
  BY <1>1
<1>3. SignalsTyped
  BY <1>1, <1>2 DEF Init, SignalsTyped
<1>4. OneHolder /\ HoldersAreRight
  BY <1>1, <1>2 DEF OneHolder, HoldersAreRight
<1> QED
  BY <1>3, <1>4 DEF Init, HandlerInv, HandlerNeverRaces, NoError

LEMMA HandlerInvNext ==
  ASSUME HandlerInv, [Next]_vars
  PROVE  HandlerInv'
<1>1. CASE HandlerBegins
  BY <1>1, HandlerBeginsKeeps
<1>2. CASE HandlerLocks
  BY <1>2, HandlerLocksKeeps
<1>3. CASE EventBegins \/ PromptBegins
  BY <1>3, EventBeginsKeeps
<1>4. CASE CallSuspend
  BY <1>4, CallSuspendKeeps
<1>5. CASE Suspended
  BY <1>5, SuspendedKeeps
<1>6. CASE ResumeBegins
  BY <1>6, ResumeBeginsKeeps
<1>7. CASE CallResume
  BY <1>7, CallResumeKeeps
<1>8. CASE Resumed
  BY <1>8, ResumedKeeps
<1>9. CASE \E t \in Thread : ThreadStep(t)
  BY <1>9, ThreadStepKeeps
<1>10. CASE Sigtstp \/ Sigcont \/ UNCHANGED vars
  <2>1. /\ frames' = frames /\ stack' = stack /\ lock' = lock /\ event' = event
        /\ timed' = timed /\ process' = process /\ pc' = pc /\ error' = error
    BY <1>10 DEF Sigtstp, Sigcont, vars, mainVars, threadVars
  <2> QED
    BY <2>1 DEF HandlerInv, SignalsTyped, OneHolder, HoldersAreRight, HandlerNeverRaces
<1> QED
  BY <1>1, <1>2, <1>3, <1>4, <1>5, <1>6, <1>7, <1>8, <1>9, <1>10 DEF Next, MainStep

\* suspend_handler() (_signals.py:122) holds the lock from the first suspender that it calls to the
\* last: nothing that a thread does meanwhile changes the stack under it, and it resumes no clock
\* that it did not stop, however the signal interrupts the event loop or another handler.
THEOREM HandlersNeverRace == Spec => []HandlerNeverRaces
<1>1. HandlerInv => HandlerNeverRaces
  BY DEF HandlerInv
<1>2. HandlerInv /\ [Next]_vars => HandlerInv'
  BY HandlerInvNext
<1> QED
  BY <1>1, <1>2, HandlerInvInit, PTL DEF Spec

-----------------------------------------------------------------------------
(* What is left when the main thread is back in its loop. *)

\* A step of the main thread stops and continues processes, and nothing else of a thread.
MainTouches ==
  /\ pc' = pc /\ stack' = stack
  /\ \A t \in Thread : process'[t] # process[t] =>
       process[t] \in {"running", "stopped"} /\ process'[t] \in {"running", "stopped"}

LEMMA MainIsGentle ==
  ASSUME HandlerInv, MainStep \/ PromptBegins \/ Sigtstp \/ Sigcont \/ UNCHANGED vars
  PROVE  MainTouches
<1>1. process \in [Thread -> {"none", "running", "stopped", "exited"}]
  BY DEF HandlerInv, SignalsTyped
<1>2. CASE CallSuspend
  BY <1>1, <1>2 DEF CallSuspend, MainTouches
<1>3. CASE CallResume
  BY <1>1, <1>3 DEF CallResume, MainTouches
<1>4. CASE \/ HandlerBegins \/ HandlerLocks \/ EventBegins \/ PromptBegins \/ Suspended
           \/ ResumeBegins \/ Resumed \/ Sigtstp \/ Sigcont \/ UNCHANGED vars
  <2>1. UNCHANGED threadVars
    BY <1>4 DEF HandlerBegins, HandlerLocks, EventBegins, PromptBegins, Suspended, ResumeBegins,
       Resumed, Sigtstp, Sigcont, vars
  <2> QED
    BY <2>1 DEF threadVars, MainTouches
<1> QED
  BY <1>2, <1>3, <1>4 DEF MainStep

\* A thread stops nothing, and takes away its own suspender once its process has ended.
LEMMA ThreadIsListed ==
  ASSUME HandlerInv, StoppedAreListed, NEW t \in Thread, ThreadStep(t)
  PROVE  StoppedAreListed' /\ Stopped' \subseteq Stopped
<1>1. /\ stack \in Seq(Suspenders)
      /\ process \in [Thread -> {"none", "running", "stopped", "exited"}]
      /\ pc \in [Thread -> {"new", "timing", "timed", "entering", "launching",
                            "running", "exited", "ending", "done"}]
  BY DEF HandlerInv, SignalsTyped
<1>2. Suspender(t, "time") \in Suspenders /\ Suspender(t, "process") \in Suspenders
  BY DEF Suspender, Suspenders
<1>3. CASE WaitToTime(t) \/ WaitToRun(t) \/ Launch(t) \/ Exit(t)
  BY <1>1, <1>3 DEF WaitToTime, WaitToRun, Launch, Exit, Goes, mainVars, StoppedAreListed, Started, Stopped
<1>4. CASE StartTiming(t)
  <2>1. stack' = Append(stack, Suspender(t, "time")) /\ process' = process
    BY <1>4 DEF StartTiming, ChangeStack, notStack
  <2>2. ToSet(stack) \subseteq ToSet(stack')
    BY <1>1, <1>2, <2>1, AppendAdds
  <2> QED
    BY <1>1, <1>4, <2>1, <2>2 DEF StartTiming, Goes, StoppedAreListed, Started, Stopped
<1>5. CASE EnterProcess(t)
  <2>1. stack' = Append(stack, Suspender(t, "process")) /\ process' = process
    BY <1>5 DEF EnterProcess, ChangeStack, notStack
  <2>2. ToSet(stack') = ToSet(stack) \cup {Suspender(t, "process")}
    BY <1>1, <1>2, <2>1, AppendAdds
  <2> QED
    BY <1>1, <1>5, <2>1, <2>2 DEF EnterProcess, Goes, StoppedAreListed, Started, Stopped
<1>6. CASE LeaveProcess(t) \/ EndTiming(t)
  <2>1. PICK i \in DOMAIN stack :
          /\ stack[i] \in {Suspender(t, "process"), Suspender(t, "time")}
          /\ stack' = RemoveAt(stack, i)
    BY <1>6 DEF LeaveProcess, EndTiming, ChangeStack
  <2>2. ToSet(stack) \subseteq ToSet(stack') \cup {stack[i]}
    BY <1>1, <2>1, RemoveAtKeeps
  <2>3. \A u \in Thread : u # t /\ Suspender(u, "process") \in ToSet(stack)
                            => Suspender(u, "process") \in ToSet(stack')
    BY <2>1, <2>2 DEF Suspender
  <2>4. process' = process /\ pc'[t] \notin Started /\ pc[t] # "running" /\ pc'[t] # "running"
        /\ \A u \in Thread : u # t => pc'[u] = pc[u]
    BY <1>1, <1>6 DEF LeaveProcess, EndTiming, Goes, notStack, Started
  <2>5. \A u \in Thread : process[u] \in {"running", "stopped"} => u # t
    BY <2>4 DEF StoppedAreListed
  <2> QED
    BY <2>3, <2>4, <2>5 DEF StoppedAreListed, Stopped
<1> QED
  BY <1>3, <1>4, <1>5, <1>6 DEF ThreadStep

\* The frame on top after the main thread's step, if it is one that resumes.
LEMMA MainLeaves ==
  ASSUME LeftInv, MainStep \/ PromptBegins
  PROVE  StoppedAreLeft' /\ NothingIsLeft'
<1>1. SignalsTyped
  BY DEF LeftInv, HandlerInv
<1>2. CASE HandlerBegins
  <2> DEFINE f == Frame("handler", "lock")
  <2>1. f \in Frames /\ f.at = "lock" /\ frames' = Append(frames, f)
    BY <1>2 DEF HandlerBegins, Frame, Frames, Kinds, Places
  <2> HIDE DEF f
  <2>2. frames' # <<>> /\ Top' = f
    BY <1>1, <2>1, FrameBegins
  <2> QED
    BY <2>1, <2>2 DEF StoppedAreLeft, NothingIsLeft
<1>3. CASE EventBegins \/ PromptBegins
  <2>1. PICK kind \in Kinds : frames' = <<[Frame(kind, "suspend") EXCEPT !.left = Reverse(stack)]>>
    BY <1>3 DEF EventBegins, PromptBegins, Kinds
  <2> DEFINE f == [Frame(kind, "suspend") EXCEPT !.left = Reverse(stack)]
  <2>2. frames' = <<f>> /\ f.at = "suspend"
    BY <2>1 DEF Frame
  <2> HIDE DEF f
  <2>3. frames' # <<>> /\ Top' = f
    BY <2>2 DEF Top, Last
  <2> QED
    BY <2>2, <2>3 DEF StoppedAreLeft, NothingIsLeft
<1>4. CASE HandlerLocks
  <2> DEFINE f == Iterate("suspend", Reverse(stack))
  <2>1. frames # <<>> /\ SetTop(f) /\ stack \in Seq(Suspenders)
    BY <1>1, <1>4 DEF HandlerLocks, SignalsTyped
  <2>2. Reverse(stack) \in Seq(Suspenders)
    BY <2>1, ReverseKeeps
  <2>3. f \in Frames /\ f.at = "suspend"
    BY <1>1, <2>1, <2>2, TopIs DEF Iterate, Frames, Places
  <2> HIDE DEF f
  <2>4. frames' # <<>> /\ Top' = f
    BY <1>1, <2>1, <2>3, SetTopIs DEF OnTop
  <2> QED
    BY <2>3, <2>4 DEF StoppedAreLeft, NothingIsLeft
<1>5. CASE CallSuspend
  <2> DEFINE s == Head(Top.left)
             why == IF Top.mutated THEN "mutated"
                    ELSE IF s.kind = "process" THEN ProcessError(s.thread) ELSE "none"
             f == [Top EXCEPT !.left = Tail(@)]
  <2>1. frames # <<>> /\ Top.at = "suspend" /\ Top.left # <<>>
    BY <1>5 DEF CallSuspend
  <2>2. (why # "none" /\ Raise(why)) \/ SetTop(f)
    BY <1>5 DEF CallSuspend
  <2>3. f \in Frames /\ f.at = "suspend"
    BY <2>1, NextSuspender DEF LeftInv
  <2> HIDE DEF f, why
  <2>4. CASE why # "none" /\ Raise(why)
    BY <2>4 DEF Raise, NoError, StoppedAreLeft, NothingIsLeft
  <2>5. CASE SetTop(f)
    <3>1. frames' # <<>> /\ Top' = f
      BY <1>1, <2>1, <2>3, <2>5, SetTopIs DEF OnTop
    <3> QED
      BY <2>3, <3>1 DEF StoppedAreLeft, NothingIsLeft
  <2> QED
    BY <2>2, <2>4, <2>5
<1>6. CASE Suspended
  <2> DEFINE f == [Top EXCEPT !.at = "suspended"]
  <2>1. frames # <<>> /\ Top.at = "suspend" /\ SetTop(f)
    BY <1>6 DEF Suspended
  <2>2. f \in Frames /\ f.at = "suspended"
    BY <1>1, <2>1, TopIs DEF Frames, Places
  <2> HIDE DEF f
  <2>3. frames' # <<>> /\ Top' = f
    BY <1>1, <2>1, <2>2, SetTopIs DEF OnTop
  <2> QED
    BY <2>2, <2>3 DEF StoppedAreLeft, NothingIsLeft
<1>7. CASE ResumeBegins
  <2> DEFINE f == Iterate("resume", stack)
  <2>1. frames # <<>> /\ Top.at = "suspended" /\ SetTop(f) /\ process' = process
    BY <1>7 DEF ResumeBegins, threadVars
  <2>2. f \in Frames /\ f.left = stack
    BY <1>1, <2>1, TopIs DEF SignalsTyped, Iterate, Frames, Places
  <2> HIDE DEF f
  <2>3. frames' # <<>> /\ Top' = f
    BY <1>1, <2>1, <2>2, SetTopIs DEF OnTop
  <2>4. \A t \in Stopped : Suspender(t, "process") \in ToSet(stack)
    BY DEF LeftInv, StoppedAreListed, Stopped, Started
  <2>5. Stopped' = Stopped
    BY <2>1 DEF Stopped
  <2> QED
    BY <2>2, <2>3, <2>4, <2>5 DEF StoppedAreLeft, NothingIsLeft
<1>8. CASE CallResume
  <2> DEFINE s == Head(Top.left)
             t == s.thread
             why == IF Top.mutated THEN "mutated"
                    ELSE IF s.kind = "process" THEN ProcessError(t)
                    ELSE IF t \notin timed THEN "not suspended" ELSE "none"
             f == [Top EXCEPT !.left = Tail(@)]
  <2>1. frames # <<>> /\ Top.at = "resume" /\ (Top.left # <<>> \/ Top.mutated)
    BY <1>8 DEF CallResume
  <2>2. \/ why # "none" /\ Raise(why)
        \/ /\ why = "none" /\ SetTop(f)
           /\ process' = IF s.kind = "process" /\ process[t] = "stopped"
                         THEN [process EXCEPT ![t] = "running"] ELSE process
    BY <1>8 DEF CallResume
  <2>3. why = "none" => ~Top.mutated
    OBVIOUS
  <2> HIDE DEF why
  <2>4. CASE why # "none" /\ Raise(why)
    BY <2>4 DEF Raise, NoError, StoppedAreLeft, NothingIsLeft
  <2>5. CASE /\ why = "none" /\ SetTop(f)
             /\ process' = IF s.kind = "process" /\ process[t] = "stopped"
                           THEN [process EXCEPT ![t] = "running"] ELSE process
    <3>1. /\ s \in Suspenders /\ f \in Frames
          /\ ToSet(Top.left) = {s} \cup ToSet(f.left)
      BY <2>1, <2>3, <2>5, NextSuspender DEF LeftInv
    <3> HIDE DEF f
    <3>2. frames' # <<>> /\ Top' = f
      BY <1>1, <2>1, <2>5, <3>1, SetTopIs DEF OnTop
    <3>3. \A u \in Stopped : Suspender(u, "process") = s \/ Suspender(u, "process") \in ToSet(f.left)
      BY <2>1, <2>3, <2>5, <3>1 DEF LeftInv, StoppedAreLeft
    <3>4. \A u \in Stopped' : u \in Stopped /\ Suspender(u, "process") # s
      BY <1>1, <2>5, <3>1 DEF SignalsTyped, Suspenders, Suspender, Stopped
    <3> QED
      BY <3>2, <3>3, <3>4 DEF StoppedAreLeft, NothingIsLeft
  <2> QED
    BY <2>2, <2>4, <2>5
<1>9. CASE Resumed
  <2>1. /\ frames # <<>> /\ Top.at = "resume" /\ Top.left = <<>> /\ ~Top.mutated
        /\ event' = TRUE /\ process' = process
    BY <1>9 DEF Resumed, EventAfter, threadVars
  <2>2. ToSet(<<>>) = {}
    BY DEF ToSet
  <2>3. Stopped = {}
    BY <2>1, <2>2 DEF LeftInv, StoppedAreLeft
  <2>4. Stopped' = {}
    BY <2>1, <2>3 DEF Stopped
  <2> QED
    BY <2>1, <2>4 DEF StoppedAreLeft, NothingIsLeft
<1> QED
  BY <1>2, <1>3, <1>4, <1>5, <1>6, <1>7, <1>8, <1>9 DEF MainStep

LEMMA ThreadLeaves ==
  ASSUME LeftInv, NEW t \in Thread, ThreadStep(t)
  PROVE  StoppedAreLeft' /\ NothingIsLeft'
<1>1. HandlerInv /\ StoppedAreListed /\ StoppedAreLeft /\ NothingIsLeft
  BY DEF LeftInv
<1>2. lock' = lock /\ event' = event /\ error' = error /\ Stopped' \subseteq Stopped
  BY <1>1, ThreadStepIs, ThreadIsListed
<1>3. CASE stack' = stack /\ frames' = frames
  BY <1>1, <1>2, <1>3 DEF StoppedAreLeft, NothingIsLeft, Top
<1>4. CASE \E new \in Seq(Suspenders) : ChangeStack(new)
  <2>1. /\ frames' \in Seq(Frames) /\ frames \in Seq(Frames) /\ DOMAIN frames' = DOMAIN frames
        /\ \A i \in DOMAIN frames : frames'[i].mutated = TRUE
    BY <1>1, <1>2, <1>4, ChangeStackKeeps DEF HandlerInv, SignalsTyped
  <2>2. /\ Len(frames') \in Nat /\ DOMAIN frames' = 1..Len(frames')
        /\ Len(frames) \in Nat /\ DOMAIN frames = 1..Len(frames)
    BY <2>1
  <2>3. frames' # <<>> => Len(frames') \in Nat \ {0} /\ Top'.mutated = TRUE
    <3> SUFFICES ASSUME frames' # <<>> PROVE Len(frames') \in Nat \ {0} /\ Top'.mutated = TRUE
      OBVIOUS
    <3>1. Len(frames') \in Nat \ {0}
      BY <2>1, EmptySeq
    <3>2. Len(frames') \in DOMAIN frames'
      BY <2>2, <3>1
    <3> QED
      BY <2>1, <3>1, <3>2 DEF Top, Last
  <2>4. frames' = <<>> => frames = <<>>
    <3> SUFFICES ASSUME frames' = <<>> PROVE frames = <<>>
      OBVIOUS
    <3>1. Len(frames') = 0
      BY EmptySeq
    <3>2. 1..Len(frames) = 1..0
      BY <2>1, <2>2, <3>1
    <3>3. Len(frames) = 0
      BY <2>2, <3>2
    <3> QED
      BY <2>1, <3>3, EmptySeq
  <2> QED
    BY <1>1, <1>2, <2>3, <2>4 DEF StoppedAreLeft, NothingIsLeft
<1> QED
  BY <1>1, <1>3, <1>4, ThreadStepIs

LEMMA LeftInvInit == Init => LeftInv
<1> SUFFICES ASSUME Init PROVE LeftInv
  OBVIOUS
<1>1. StoppedAreListed /\ Stopped = {}
  BY DEF Init, StoppedAreListed, Started, Stopped
<1>2. StoppedAreLeft /\ NothingIsLeft
  BY <1>1 DEF Init, StoppedAreLeft, NothingIsLeft
<1> QED
  BY <1>1, <1>2, HandlerInvInit DEF LeftInv

LEMMA LeftInvNext ==
  ASSUME LeftInv, [Next]_vars
  PROVE  LeftInv'
<1>1. HandlerInv /\ StoppedAreListed
  BY DEF LeftInv
<1>2. HandlerInv'
  BY <1>1, HandlerInvNext
<1>3. CASE \E t \in Thread : ThreadStep(t)
  BY <1>1, <1>2, <1>3, ThreadIsListed, ThreadLeaves DEF LeftInv
<1>4. CASE MainStep \/ PromptBegins \/ Sigtstp \/ Sigcont \/ UNCHANGED vars
  <2>1. MainTouches
    BY <1>1, <1>4, MainIsGentle
  <2>2. StoppedAreListed'
    BY <1>1, <2>1 DEF MainTouches, StoppedAreListed
  <2>3. CASE MainStep \/ PromptBegins
    BY <1>2, <2>2, <2>3, MainLeaves DEF LeftInv
  <2>4. CASE Sigtstp \/ Sigcont \/ UNCHANGED vars
    <3>1. UNCHANGED <<frames, event, error, process>>
      BY <2>4 DEF Sigtstp, Sigcont, vars, mainVars, threadVars
    <3>2. Stopped' = Stopped /\ Top' = Top
      BY <3>1 DEF Stopped, Top
    <3> QED
      BY <1>2, <2>2, <3>1, <3>2 DEF LeftInv, StoppedAreLeft, NothingIsLeft
  <2> QED
    BY <1>4, <2>3, <2>4
<1> QED
  BY <1>3, <1>4 DEF Next

\* However SIGTSTP is served twice, by suspend_handler() and by Scheduler._suspend_event(), while
\* threads start and end and the user is asked, each process that was stopped is resumed, the lock
\* is released and the event is set before the main thread is back in its loop; unless a callback
\* raised an error.
THEOREM NothingStaysSuspended == Spec => []LeftAsFound
<1>1. LeftInv => LeftAsFound
  <2> SUFFICES ASSUME LeftInv, frames = <<>>, ~pending, error = NoError
               PROVE  event /\ ~lock /\ \A t \in Thread : process[t] # "stopped"
    BY DEF LeftAsFound
  <2>1. event /\ Stopped = {}
    BY DEF LeftInv, NothingIsLeft
  <2>2. ~lock
    BY DEF LeftInv, HandlerInv, OneHolder
  <2> QED
    BY <2>1, <2>2 DEF Stopped
<1>2. LeftInv /\ [Next]_vars => LeftInv'
  BY LeftInvNext
<1> QED
  BY <1>1, <1>2, LeftInvInit, PTL DEF Spec
=============================================================================

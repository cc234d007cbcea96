-------------------------- MODULE VideoEventProofs --------------------------
(***************************************************************************)
(* Proofs about VideoEvent for any number of applications, daemons and     *)
(* requests: a success was answered, and carries its own result; the       *)
(* state keeps its bounds; the count of subscribers follows them.          *)
(***************************************************************************)
EXTENDS VideoEvent, FiniteSetTheorems, TLAPS

\* An event as the drivers queue it, without the bound on their number.
AnyEvent == (Nat \ {0}) \X Kinds

\* What the proofs need of TypeOK; the counts of handles and of subscribers
\* play no part in them.
Typed ==
    /\ pending \in [Daemons -> SUBSET AnyEvent]
    /\ hand \in [Daemons -> AnyEvent \cup {NULL}]
    /\ dpc \in [Daemons -> {"idle", "read", "answer", "complete"}]
    /\ seen \in [Daemons -> Nat]
    /\ event_lock \in Posters \cup {NULL} /\ complete \in BOOLEAN
    /\ args \in [Slots -> Nat] /\ event_result \in Nat
    /\ pc \in [Posters -> {"idle", "args", "caps", "caps_wait", "lock", "queue",
                           "poll", "look", "unlock", "result"}]
    /\ kind \in [Posters -> Kinds] /\ req \in [Posters -> Nat]
    /\ tries \in [Posters -> Nat]
    /\ rc \in [Posters -> {"ok", "EINVAL", "ETIMEDOUT"}]
    /\ issued \in Nat /\ answered \in SUBSET Posters

\* event_lock is held from the reset of event_shm to the end of the wait.
LockHeld == \A p \in Posters : pc[p] \in {"queue", "poll", "look", "unlock"} => event_lock = p

\* What the place of an ioctl in its course says of its kind.
Course(p) ==
    /\ pc[p] \in {"poll", "look"} => Sync(kind[p])
    /\ pc[p] = "args" => HasArgs(kind[p])
    /\ pc[p] \in {"caps", "caps_wait"} => kind[p] = "getcaps"
    /\ pc[p] = "result" => rc[p] = "ok" /\ HasArgs(kind[p])

\* Each ioctl in progress has a number of its own.
Numbered ==
    \A p \in Posters :
        /\ pc[p] = "idle" => req[p] = 0
        /\ pc[p] # "idle" => req[p] \in 1 .. issued
        /\ \A q \in Posters : p # q /\ req[p] = req[q] => req[p] = 0

\* The flag in event_shm is about the request that waits on it.
FlagIsOurs ==
    \A p \in Posters :
        pc[p] \in {"queue", "poll", "look"} /\ Sync(kind[p]) /\ complete => p \in answered

\* An event is that of a numbered ioctl which has queued it.
Posted == {"poll", "look", "unlock", "result"}
Named(e) ==
    /\ e[1] <= issued
    /\ \A p \in Posters : req[p] = e[1] => kind[p] = e[2] /\ pc[p] \in Posted

\* The course of a daemon's thread.
Work(d) ==
    /\ dpc[d] # "idle" => hand[d] \in AnyEvent
    /\ dpc[d] = "read" => HasArgs(hand[d][2])
    /\ dpc[d] = "answer" => hand[d][2] = "capsmode"

EventsNamed ==
    /\ \A d \in Daemons : /\ \A e \in pending[d] : Named(e)
                          /\ hand[d] # NULL => Named(hand[d])
                          /\ Work(d)
    /\ \A p \in answered : pc[p] \in Posted

\* Two requests in progress use different argument buffers ...
SlotsApart ==
    \A p, q \in Posters :
        p # q /\ pc[p] # "idle" /\ pc[q] # "idle" /\ HasArgs(kind[p]) /\ HasArgs(kind[q])
            => Slot(kind[p]) # Slot(kind[q])

\* ... which hold the arguments until the ioctl returns.
ArgsHeld ==
    \A p \in Posters :
        pc[p] \in {"lock", "queue"} \cup Posted /\ HasArgs(kind[p])
            => args[Slot(kind[p])] = req[p]

\* A daemon has read the arguments of the event it answers ...
SeenIsOurs ==
    \A d \in Daemons : \A p \in Posters :
        dpc[d] = "answer" /\ req[p] = hand[d][1] => seen[d] = req[p]

\* ... and when it completes it, event_result holds the verdict on them; it
\* does so until the ioctl has read it.
Succeeding(p) == pc[p] \in {"unlock", "result"} => rc[p] = "ok"
VerdictIsOurs ==
    /\ \A d \in Daemons : \A p \in Posters :
         /\ dpc[d] = "complete" /\ hand[d][2] = "capsmode" /\ req[p] = hand[d][1]
         /\ pc[p] \in {"poll", "look"}
         => event_result = req[p]
    /\ \A p \in answered : kind[p] = "capsmode" /\ Succeeding(p) => event_result = req[p]

Inv ==
    /\ Typed /\ LockHeld /\ (\A p \in Posters : Course(p))
    /\ Numbered /\ EventsNamed
    /\ Shut({"late_answer"}) => FlagIsOurs /\ Answered
    /\ Shut({"late_answer", "shared_args"}) =>
         SlotsApart /\ ArgsHeld /\ SeenIsOurs /\ VerdictIsOurs
-----------------------------------------------------------------------------
USE DEF Kinds, Sync, HasArgs, Slots, Slot, Goto, Leave

(***************************************************************************)
(* The steps of the other agents, as far as the requests are concerned.    *)
(***************************************************************************)

\* A handle that is opened or closed, a daemon that subscribes or not: events
\* get lost, with them a daemon's work, and nothing else of a request moves.
Lost ==
    /\ \A d \in Daemons :
         /\ pending'[d] \subseteq pending[d]
         /\ \/ hand'[d] = NULL /\ dpc'[d] = "idle"
            \/ hand'[d] = hand[d] /\ dpc'[d] = dpc[d] /\ seen'[d] = seen[d]
    /\ UNCHANGED <<shm, poster, ghost>>

LEMMA AsideLoses ==
    ASSUME Typed,
           \/ \E h \in Handles : Open(h) \/ Close(h) \/ Closing(h)
           \/ \E d \in Daemons : Subscribing(d)
    PROVE  Typed' /\ Lost
<1>1. ASSUME NEW h \in Handles, Open(h) \/ Closing(h) PROVE Typed' /\ Lost
  BY <1>1 DEF Typed, Lost, Open, Closing, Dec, Check, Reinit, Zero, daemon, shm, poster, ghost
<1>2. ASSUME NEW h \in Handles, Close(h) PROVE Typed' /\ Lost
  BY <1>2 DEF Typed, Lost, Close, shm, poster, ghost
<1>3. ASSUME NEW d \in Daemons, Subscribing(d) PROVE Typed' /\ Lost
  <2>1. CASE Drop(d)
    BY <2>1 DEF Typed, Lost, Drop, daemon, shm, poster, ghost
  <2> QED
    BY <1>3, <2>1 DEF Typed, Lost, Subscribing, Subscribe, Count, Announce, Unsubscribe,
                      daemon, shm, poster, ghost
<1> QED
  BY <1>1, <1>2, <1>3

\* A daemon's thread.
LEMMA ServingTypes == ASSUME Typed, NEW d \in Daemons, Serving(d) PROVE Typed'
<1>1. CASE Dqevent(d)
  BY <1>1 DEF Typed, Dqevent, Oldest, AnyEvent, shm, poster, ghost
<1>2. CASE ReadArgs(d)
  BY <1>2 DEF Typed, ReadArgs, AnyEvent, shm, poster, ghost
<1>3. CASE EventResult(d)
  BY <1>3 DEF Typed, EventResult, poster, ghost
<1>4. CASE EventComplete(d)
  BY <1>4 DEF Typed, EventComplete, Answerable, Waiting, poster
<1> QED
  BY <1>1, <1>2, <1>3, <1>4 DEF Serving

\* An ioctl.
LEMMA PostingTypes ==
    ASSUME Typed, NEW p \in Posters, Posting(p) \/ Lock(p) \/ \E k \in Kinds : Begin(p, k),
           Numbered
    PROVE  Typed'
<1> USE VideoEventAssumption
<1>1. CASE \E k \in Kinds : Begin(p, k)
  BY <1>1 DEF Typed, Begin, daemon, shm
<1>2. CASE WriteArgs(p)
  BY <1>2 DEF Typed, WriteArgs, daemon, ghost
<1>3. CASE Caps(p) \/ CapsWoken(p) \/ CapsTimeout(p)
  BY <1>3 DEF Typed, Caps, CapsWoken, CapsTimeout, daemon, shm, ghost
<1>4. CASE Lock(p)
  BY <1>4 DEF Typed, Lock, daemon, ghost
<1>5. CASE Queue(p)
  <2>1. <<req[p], kind[p]>> \in AnyEvent
    BY <1>5 DEF Queue, Numbered, Typed, AnyEvent
  <2>2. \A d \in Daemons :
           WithEvent(pending[d], <<req[p], kind[p]>>) \subseteq pending[d] \cup {<<req[p], kind[p]>>}
    BY DEF WithEvent
  <2>3. pending' \in [Daemons -> SUBSET AnyEvent]
    BY <1>5, <2>1, <2>2 DEF Queue, Typed
  <2> QED
    BY <1>5, <2>3 DEF Typed, Queue, daemon, shm, ghost
<1>6. CASE Poll(p)
  BY <1>6 DEF Typed, Poll, daemon, shm, ghost
<1>7. CASE Look(p)
  BY <1>7 DEF Typed, Look, daemon, shm, ghost
<1>8. CASE Unlock(p)
  BY <1>8 DEF Typed, Unlock, daemon
<1>9. CASE Return(p)
  BY <1>9 DEF Typed, Return, daemon, shm
<1> QED
  BY <1>1, <1>2, <1>3, <1>4, <1>5, <1>6, <1>7, <1>8, <1>9 DEF Posting
-----------------------------------------------------------------------------
(***************************************************************************)
(* The invariant, step by step.  Core holds in every environment, the rest *)
(* when the windows it names are closed.                                   *)
(***************************************************************************)
Core == LockHeld /\ (\A p \in Posters : Course(p)) /\ Numbered /\ EventsNamed
Flags == FlagIsOurs /\ Answered
Verdicts == SlotsApart /\ ArgsHeld /\ SeenIsOurs /\ VerdictIsOurs

LEMMA InvParts ==
    Inv <=> /\ Typed /\ Core
            /\ Shut({"late_answer"}) => Flags
            /\ Shut({"late_answer", "shared_args"}) => Verdicts
BY DEF Inv, Core, Flags, Verdicts

LEMMA NullIsNoEvent == NULL \notin AnyEvent
BY VideoEventAssumption DEF AnyEvent

\* Lost events and subscriptions hurt nobody's result.
LEMMA LostKeeps ==
    ASSUME Typed, Lost, Typed', closed' = closed
    PROVE  /\ Core => Core'
           /\ Core /\ Flags => Flags'
           /\ Core /\ Verdicts => Verdicts'
<1> USE DEF Lost, shm, poster, ghost
<1>1. LockHeld => LockHeld'
  BY DEF LockHeld
<1>2. ASSUME \A p \in Posters : Course(p) PROVE \A p \in Posters : Course(p)'
  BY <1>2 DEF Course
<1>3. Numbered => Numbered'
  BY DEF Numbered
<1>4. EventsNamed => EventsNamed'
  BY DEF EventsNamed, Named, Work
<1>5. Flags => Flags'
  BY DEF Flags, FlagIsOurs, Answered, Shut
<1>6. SlotsApart /\ ArgsHeld => SlotsApart' /\ ArgsHeld'
  BY DEF SlotsApart, ArgsHeld
<1>7. SeenIsOurs => SeenIsOurs'
  BY DEF SeenIsOurs
<1>8. VerdictIsOurs => VerdictIsOurs'
  BY DEF VerdictIsOurs, Succeeding
<1> QED
  BY <1>1, <1>2, <1>3, <1>4, <1>5, <1>6, <1>7, <1>8 DEF Core, Verdicts

(***************************************************************************)
(* A daemon's thread.  What it answers is the request of its event: only   *)
(* the holder of event_lock waits, so that whoever is waited for is that   *)
(* request's poster.                                                       *)
(***************************************************************************)
LEMMA DqeventKeeps ==
    ASSUME Typed, NEW d \in Daemons, Dqevent(d), Typed', closed' = closed
    PROVE  /\ Core => Core'
           /\ Flags => Flags'
           /\ Verdicts => Verdicts'
<1> USE DEF Dqevent, Oldest, shm, poster, ghost, Typed
<1>1. LockHeld => LockHeld'
  BY DEF LockHeld
<1>2. ASSUME \A p \in Posters : Course(p) PROVE \A p \in Posters : Course(p)'
  BY <1>2 DEF Course
<1>3. Numbered => Numbered'
  BY DEF Numbered
<1>4. ASSUME EventsNamed PROVE EventsNamed'
  <2>1. \A c \in Daemons : Work(c)'
    BY <1>4 DEF EventsNamed, Work
  <2>2. \A f : Named(f)' <=> Named(f)
    BY DEF Named
  <2> QED
    BY <1>4, <2>1, <2>2 DEF EventsNamed
<1>5. Flags => Flags'
  BY DEF Flags, FlagIsOurs, Answered, Shut
<1>6. SlotsApart /\ ArgsHeld => SlotsApart' /\ ArgsHeld'
  BY DEF SlotsApart, ArgsHeld
<1>7. SeenIsOurs => SeenIsOurs'
  BY DEF SeenIsOurs
<1>8. VerdictIsOurs => VerdictIsOurs'
  BY DEF VerdictIsOurs, Succeeding
<1> QED
  BY <1>1, <1>2, <1>3, <1>4, <1>5, <1>6, <1>7, <1>8 DEF Core, Verdicts

LEMMA ReadArgsKeeps ==
    ASSUME Typed, NEW d \in Daemons, ReadArgs(d), Typed', closed' = closed, Core
    PROVE  /\ Core'
           /\ Flags => Flags'
           /\ Verdicts => Verdicts'
<1> USE DEF ReadArgs, shm, poster, ghost, Typed
<1>1. LockHeld'
  BY DEF Core, LockHeld
<1>2. \A p \in Posters : Course(p)'
  BY DEF Core, Course
<1>3. Numbered'
  BY DEF Core, Numbered
<1>4. EventsNamed'
  BY DEF Core, EventsNamed, Named, Work
<1>5. Flags => Flags'
  BY DEF Flags, FlagIsOurs, Answered, Shut
<1>6. SlotsApart /\ ArgsHeld => SlotsApart' /\ ArgsHeld'
  BY DEF SlotsApart, ArgsHeld
<1>7. ASSUME ArgsHeld, SeenIsOurs PROVE SeenIsOurs'
  <2>1. SUFFICES ASSUME NEW p \in Posters, dpc'[d] = "answer", req[p] = hand[d][1]
                 PROVE  seen'[d] = req[p]
    BY <1>7 DEF SeenIsOurs
  <2>2. hand[d] \in AnyEvent /\ hand[d][2] = "capsmode"
    BY <2>1 DEF Core, EventsNamed, Work
  <2>3. kind[p] = "capsmode" /\ pc[p] \in Posted
    BY <2>1, <2>2, NullIsNoEvent DEF Core, EventsNamed, Named
  <2>4. args["caps_mode"] = req[p]
    BY <1>7, <2>3 DEF ArgsHeld
  <2> QED
    BY <2>2, <2>4
<1>8. VerdictIsOurs => VerdictIsOurs'
  BY DEF VerdictIsOurs, Succeeding
<1> QED
  BY <1>1, <1>2, <1>3, <1>4, <1>5, <1>6, <1>7, <1>8 DEF Core, Verdicts

LEMMA EventResultKeeps ==
    ASSUME Typed, NEW d \in Daemons, EventResult(d), Typed', closed' = closed, Core
    PROVE  /\ Core'
           /\ Flags => Flags'
           /\ Shut({"late_answer"}) /\ Flags /\ Verdicts => Verdicts'
<1> USE DEF EventResult, poster, ghost, Typed
<1>1. LockHeld'
  BY DEF Core, LockHeld
<1>2. \A p \in Posters : Course(p)'
  BY DEF Core, Course
<1>3. Numbered'
  BY DEF Core, Numbered
<1>4. EventsNamed'
  BY DEF Core, EventsNamed, Named, Work
<1>5. Flags => Flags'
  BY DEF Flags, FlagIsOurs, Answered, Shut
<1>6. SlotsApart /\ ArgsHeld => SlotsApart' /\ ArgsHeld'
  BY DEF SlotsApart, ArgsHeld
<1>7. SeenIsOurs => SeenIsOurs'
  BY DEF SeenIsOurs
<1>8. ASSUME Shut({"late_answer"}), Verdicts PROVE VerdictIsOurs'
  <2>0. CASE event_result' = event_result /\ ~Waiting(hand[d][1])
    BY <1>8, <2>0 DEF Verdicts, VerdictIsOurs, Succeeding, Waiting
  <2>1. CASE Waiting(hand[d][1])
    <3>1. PICK q \in Posters : pc[q] \in {"queue", "poll", "look"} /\ req[q] = hand[d][1]
      BY <2>1 DEF Waiting
    <3>2. kind[q] = "capsmode" /\ hand[d] # NULL
      BY <3>1, NullIsNoEvent DEF Core, EventsNamed, Named, Work
    <3>3. event_result' = req[q]
      BY <1>8, <2>1, <3>1 DEF Verdicts, SeenIsOurs, Answerable
    <3>4. ASSUME NEW p \in Posters, pc[p] \in {"poll", "look", "unlock"} PROVE p = q
      BY <3>1, <3>4 DEF Core, LockHeld
    <3>5. ASSUME NEW p \in Posters, pc[p] # "idle", kind[p] = "capsmode" PROVE p = q
      BY <1>8, <3>1, <3>2, <3>5 DEF Verdicts, SlotsApart
    <3>6. \A p \in answered : pc[p] # "idle"
      BY DEF Core, EventsNamed, Posted
    <3> QED
      BY <3>3, <3>4, <3>5, <3>6 DEF VerdictIsOurs
  <2> QED
    BY <1>8, <2>0, <2>1 DEF Shut, Answerable
<1> QED
  BY <1>1, <1>2, <1>3, <1>4, <1>5, <1>6, <1>7, <1>8 DEF Core, Verdicts

LEMMA EventCompleteKeeps ==
    ASSUME Typed, NEW d \in Daemons, EventComplete(d), Typed', closed' = closed, Core
    PROVE  /\ Core'
           /\ Shut({"late_answer"}) /\ Flags => Flags'
           /\ Shut({"late_answer"}) /\ Flags /\ Verdicts => Verdicts'
<1> USE DEF EventComplete, poster, Typed
<1>1. LockHeld'
  BY DEF Core, LockHeld
<1>2. \A p \in Posters : Course(p)'
  BY DEF Core, Course
<1>3. Numbered'
  BY DEF Core, Numbered
<1>4. hand[d] \in AnyEvent /\ Named(hand[d])
  BY NullIsNoEvent DEF Core, EventsNamed, Work
<1>5. EventsNamed'
  BY <1>4 DEF Core, EventsNamed, Named, Work
<1>6. ASSUME Shut({"late_answer"}), Flags PROVE Flags'
  <2>1. ASSUME Waiting(hand[d][1]), NEW p \in Posters, pc[p] \in {"queue", "poll", "look"}
        PROVE  p \in answered'
    BY <2>1 DEF Waiting, Core, LockHeld
  <2>2. FlagIsOurs'
    BY <1>6, <2>1 DEF Flags, FlagIsOurs, Shut, Answerable
  <2> QED
    BY <1>6, <2>2 DEF Flags, Answered, Shut
<1>7. SlotsApart /\ ArgsHeld => SlotsApart' /\ ArgsHeld'
  BY DEF SlotsApart, ArgsHeld
<1>8. SeenIsOurs => SeenIsOurs'
  BY DEF SeenIsOurs
<1>9. ASSUME Shut({"late_answer"}), Flags, VerdictIsOurs PROVE VerdictIsOurs'
  <2>1. SUFFICES ASSUME NEW p \in Posters, req[p] = hand[d][1], kind[p] = "capsmode",
                        Succeeding(p), p \notin answered
                 PROVE  event_result = req[p]
    BY <1>9 DEF VerdictIsOurs, Succeeding
  <2>2. pc[p] \in Posted /\ hand[d][2] = "capsmode"
    BY <1>4, <2>1 DEF Named
  <2>3. pc[p] \in {"poll", "look"}
    BY <1>9, <2>1, <2>2 DEF Posted, Succeeding, Flags, Answered
  <2> QED
    BY <1>9, <2>1, <2>2, <2>3 DEF VerdictIsOurs
<1> QED
  BY <1>1, <1>2, <1>3, <1>5, <1>6, <1>7, <1>8, <1>9 DEF Core, Verdicts
(***************************************************************************)
(* An ioctl.                                                               *)
(***************************************************************************)
LEMMA BeginKeeps ==
    ASSUME Typed, NEW p \in Posters, NEW k \in Kinds, Begin(p, k), Typed', closed' = closed, Core
    PROVE  /\ Core'
           /\ Flags => Flags'
           /\ Shut({"shared_args"}) /\ Verdicts => Verdicts'
<1> USE DEF Begin, daemon, shm, Typed
<1>1. LockHeld'
  BY DEF Core, LockHeld
<1>2. \A q \in Posters : Course(q)'
  BY DEF Core, Course
<1>3. Numbered'
  BY DEF Core, Numbered
<1>4. EventsNamed'
  <2>1. ASSUME NEW e \in AnyEvent, Named(e) PROVE Named(e)'
    BY <2>1 DEF Named, AnyEvent, Posted
  <2>2. \A d \in Daemons : Work(d)' <=> Work(d)
    BY DEF Work
  <2>3. \A q \in answered : pc'[q] \in Posted
    BY DEF Core, EventsNamed, Posted
  <2> QED
    BY <2>1, <2>2, <2>3 DEF Core, EventsNamed
<1>5. Flags => Flags'
  BY DEF Flags, FlagIsOurs, Answered, Shut
<1>6. Shut({"shared_args"}) /\ SlotsApart => SlotsApart'
  BY DEF SlotsApart, Shut, Idle
<1>7. ArgsHeld => ArgsHeld'
  BY DEF ArgsHeld, Posted
<1>8. SeenIsOurs => SeenIsOurs'
  BY NullIsNoEvent DEF SeenIsOurs, Core, EventsNamed, Work, Named, AnyEvent
<1>9. VerdictIsOurs => VerdictIsOurs'
  BY DEF VerdictIsOurs, Succeeding, Core, EventsNamed, Posted
<1> QED
  BY <1>1, <1>2, <1>3, <1>4, <1>5, <1>6, <1>7, <1>8, <1>9 DEF Core, Verdicts
\* Before event_lock.
LEMMA PrepareKeeps ==
    ASSUME Typed, NEW p \in Posters, WriteArgs(p) \/ Caps(p) \/ CapsWoken(p), Typed', closed' = closed, Core
    PROVE  /\ Core'
           /\ Flags => Flags'
           /\ Verdicts => Verdicts'
<1> USE DEF WriteArgs, Caps, CapsWoken, daemon, shm, ghost, Typed
<1>1. LockHeld'
  BY DEF Core, LockHeld
<1>2. \A q \in Posters : Course(q)'
  BY DEF Core, Course
<1>3. Numbered'
  BY DEF Core, Numbered
<1>4. EventsNamed'
  <2>1. ASSUME NEW e \in AnyEvent, Named(e) PROVE Named(e)'
    BY <2>1 DEF Named, AnyEvent, Posted
  <2>2. \A d \in Daemons : Work(d)' <=> Work(d)
    BY DEF Work
  <2>3. \A q \in answered' : pc'[q] \in Posted
    BY DEF Core, EventsNamed, Posted
  <2> QED
    BY <2>1, <2>2, <2>3 DEF Core, EventsNamed
<1>5. Flags => Flags'
  BY DEF Core, EventsNamed, Posted, Flags, FlagIsOurs, Answered, Shut
<1>6. SlotsApart => SlotsApart'
  BY DEF SlotsApart
<1>7. SlotsApart /\ ArgsHeld => ArgsHeld'
  BY DEF ArgsHeld, Posted, SlotsApart, Core, Course
<1>8. SeenIsOurs => SeenIsOurs'
  BY DEF SeenIsOurs
<1>9. VerdictIsOurs => VerdictIsOurs'
  BY DEF VerdictIsOurs, Succeeding, Core, EventsNamed, Posted
<1> QED
  BY <1>1, <1>2, <1>3, <1>4, <1>5, <1>6, <1>7, <1>8, <1>9 DEF Core, Verdicts

\* event_lock is free: nobody else is where it is held.
LEMMA LockKeeps ==
    ASSUME Typed, NEW p \in Posters, Lock(p), Typed', closed' = closed, Core
    PROVE  /\ Core'
           /\ Flags => Flags'
           /\ Verdicts => Verdicts'
<1> USE DEF Lock, daemon, ghost, Typed
<1>1. LockHeld'
  BY VideoEventAssumption DEF Core, LockHeld
<1>2. \A q \in Posters : Course(q)'
  BY DEF Core, Course
<1>3. Numbered'
  BY DEF Core, Numbered
<1>4. EventsNamed'
  <2>1. ASSUME NEW e \in AnyEvent, Named(e) PROVE Named(e)'
    BY <2>1 DEF Named, AnyEvent, Posted
  <2>2. \A d \in Daemons : Work(d)' <=> Work(d)
    BY DEF Work
  <2>3. \A q \in answered' : pc'[q] \in Posted
    BY DEF Core, EventsNamed, Posted
  <2> QED
    BY <2>1, <2>2, <2>3 DEF Core, EventsNamed
<1>5. ASSUME Flags PROVE Flags'
  <2>1. ASSUME NEW q \in Posters, pc'[q] \in {"queue", "poll", "look"} PROVE q = p
    BY <2>1, VideoEventAssumption DEF Core, LockHeld
  <2>2. Sync(kind[p]) => ~complete'
    OBVIOUS
  <2>3. FlagIsOurs'
    BY <2>1, <2>2 DEF FlagIsOurs
  <2> QED
    BY <1>5, <2>3 DEF Flags, Answered, Shut
<1>6. SlotsApart => SlotsApart'
  BY DEF SlotsApart
<1>7. ArgsHeld => ArgsHeld'
  BY DEF ArgsHeld, Posted
<1>8. SeenIsOurs => SeenIsOurs'
  BY DEF SeenIsOurs
<1>9. VerdictIsOurs => VerdictIsOurs'
  BY DEF VerdictIsOurs, Succeeding, Core, EventsNamed, Posted
<1> QED
  BY <1>1, <1>2, <1>3, <1>4, <1>5, <1>6, <1>7, <1>8, <1>9 DEF Core, Verdicts

\* A wait: it ends with the flag or with an error.
LEMMA WaitKeeps ==
    ASSUME Typed, NEW p \in Posters, Poll(p) \/ Look(p), Typed', closed' = closed, Core
    PROVE  /\ Core'
           /\ Flags => Flags'
           /\ Verdicts => Verdicts'
<1> USE DEF Poll, Look, daemon, shm, ghost, Typed
<1>1. LockHeld'
  BY DEF Core, LockHeld
<1>2. \A q \in Posters : Course(q)'
  BY DEF Core, Course
<1>3. Numbered'
  BY DEF Core, Numbered
<1>4. EventsNamed'
  <2>1. ASSUME NEW e \in AnyEvent, Named(e) PROVE Named(e)'
    BY <2>1 DEF Named, AnyEvent, Posted
  <2>2. \A d \in Daemons : Work(d)' <=> Work(d)
    BY DEF Work
  <2>3. \A q \in answered' : pc'[q] \in Posted
    BY DEF Core, EventsNamed, Posted
  <2> QED
    BY <2>1, <2>2, <2>3 DEF Core, EventsNamed
<1>5. Flags => Flags'
  BY DEF Core, EventsNamed, Posted, Flags, FlagIsOurs, Answered, Shut
<1>6. SlotsApart => SlotsApart'
  BY DEF SlotsApart
<1>7. ArgsHeld => ArgsHeld'
  BY DEF ArgsHeld, Posted
<1>8. SeenIsOurs => SeenIsOurs'
  BY DEF SeenIsOurs
<1>9. VerdictIsOurs => VerdictIsOurs'
  BY DEF VerdictIsOurs, Succeeding, Core, EventsNamed, Posted
<1> QED
  BY <1>1, <1>2, <1>3, <1>4, <1>5, <1>6, <1>7, <1>8, <1>9 DEF Core, Verdicts

\* event_lock is released, the result still to be read.
LEMMA UnlockKeeps ==
    ASSUME Typed, NEW p \in Posters, pc[p] = "unlock", Unlock(p), rc[p] = "ok" /\ HasArgs(kind[p]), Typed', closed' = closed, Core
    PROVE  /\ Core'
           /\ Flags => Flags'
           /\ Verdicts => Verdicts'
<1> USE DEF Unlock, daemon, Typed
<1>1. LockHeld'
  BY DEF Core, LockHeld
<1>2. \A q \in Posters : Course(q)'
  BY DEF Core, Course
<1>3. Numbered'
  BY DEF Core, Numbered
<1>4. EventsNamed'
  <2>1. ASSUME NEW e \in AnyEvent, Named(e) PROVE Named(e)'
    BY <2>1 DEF Named, AnyEvent, Posted
  <2>2. \A d \in Daemons : Work(d)' <=> Work(d)
    BY DEF Work
  <2>3. \A q \in answered' : pc'[q] \in Posted
    BY DEF Core, EventsNamed, Posted
  <2> QED
    BY <2>1, <2>2, <2>3 DEF Core, EventsNamed
<1>5. Flags => Flags'
  BY DEF Core, EventsNamed, Posted, Flags, FlagIsOurs, Answered, Shut
<1>6. SlotsApart => SlotsApart'
  BY DEF SlotsApart
<1>7. ArgsHeld => ArgsHeld'
  BY DEF ArgsHeld, Posted
<1>8. SeenIsOurs => SeenIsOurs'
  BY DEF SeenIsOurs
<1>9. VerdictIsOurs => VerdictIsOurs'
  BY DEF VerdictIsOurs, Succeeding, Core, EventsNamed, Posted
<1> QED
  BY <1>1, <1>2, <1>3, <1>4, <1>5, <1>6, <1>7, <1>8, <1>9 DEF Core, Verdicts

\* The end of an ioctl.
LEMMA LeaveKeeps ==
    ASSUME Typed, NEW p \in Posters, Leave(p), UNCHANGED <<pending, daemon, complete, args, event_result, issued>>,
           \/ UNCHANGED event_lock
           \/ pc[p] = "unlock" /\ event_lock' = NULL, Typed', closed' = closed, Core
    PROVE  /\ Core'
           /\ Flags => Flags'
           /\ Verdicts => Verdicts'
<1> USE DEF daemon, Typed
<1>1. LockHeld'
  BY DEF Core, LockHeld
<1>2. \A q \in Posters : Course(q)'
  BY DEF Core, Course
<1>3. Numbered'
  BY DEF Core, Numbered
<1>4. EventsNamed'
  <2>1. ASSUME NEW e \in AnyEvent, Named(e) PROVE Named(e)'
    BY <2>1 DEF Named, AnyEvent, Posted
  <2>2. \A d \in Daemons : Work(d)' <=> Work(d)
    BY DEF Work
  <2>3. \A q \in answered' : pc'[q] \in Posted
    BY DEF Core, EventsNamed, Posted
  <2> QED
    BY <2>1, <2>2, <2>3 DEF Core, EventsNamed
<1>5. Flags => Flags'
  BY DEF Core, EventsNamed, Posted, Flags, FlagIsOurs, Answered, Shut
<1>6. SlotsApart => SlotsApart'
  BY DEF SlotsApart
<1>7. ArgsHeld => ArgsHeld'
  BY DEF ArgsHeld, Posted
<1>8. SeenIsOurs => SeenIsOurs'
  BY NullIsNoEvent DEF SeenIsOurs, Core, EventsNamed, Work, AnyEvent
<1>9. VerdictIsOurs => VerdictIsOurs'
  BY DEF VerdictIsOurs, Succeeding, Core, EventsNamed, Posted
<1> QED
  BY <1>1, <1>2, <1>3, <1>4, <1>5, <1>6, <1>7, <1>8, <1>9 DEF Core, Verdicts
\* Queueing gives the event its number, which no earlier event has.
LEMMA QueueKeeps ==
    ASSUME Typed, NEW p \in Posters, Queue(p), Typed', closed' = closed, Core
    PROVE  /\ Core'
           /\ Flags => Flags'
           /\ Verdicts => Verdicts'
<1> DEFINE ours == <<req[p], kind[p]>>
<1> USE DEF Queue, daemon, shm, ghost, Typed
<1>1. LockHeld'
  BY DEF Core, LockHeld
<1>2. \A q \in Posters : Course(q)'
  BY DEF Core, Course
<1>3. Numbered'
  BY DEF Core, Numbered
<1>4. EventsNamed'
  <2>1. ASSUME NEW e \in AnyEvent, Named(e) PROVE Named(e)'
    BY <2>1 DEF Named, AnyEvent, Posted
  <2>2. Named(ours)'
    BY DEF Core, Numbered, Named, Posted
  <2>3. \A d \in Daemons : pending'[d] \subseteq pending[d] \cup {ours}
    BY DEF WithEvent
  <2>4. \A d \in Daemons : \A e \in pending'[d] : Named(e)'
    BY <2>1, <2>2, <2>3 DEF Core, EventsNamed
  <2>5. \A d \in Daemons : Work(d)' /\ (hand'[d] # NULL => Named(hand[d])')
    BY <2>1 DEF Core, EventsNamed, Work
  <2>6. \A q \in answered : pc'[q] \in Posted
    BY DEF Core, EventsNamed, Posted
  <2> QED
    BY <2>4, <2>5, <2>6 DEF EventsNamed
<1>5. Flags => Flags'
  BY DEF Flags, FlagIsOurs, Answered, Shut
<1>6. SlotsApart => SlotsApart'
  BY DEF SlotsApart
<1>7. ArgsHeld => ArgsHeld'
  BY DEF ArgsHeld, Posted
<1>8. SeenIsOurs => SeenIsOurs'
  BY DEF SeenIsOurs
<1>9. VerdictIsOurs => VerdictIsOurs'
  <2>1. ASSUME NEW d \in Daemons, dpc[d] = "complete" PROVE req[p] # hand[d][1]
    BY <2>1, NullIsNoEvent DEF Core, EventsNamed, Work, Named, Posted
  <2> QED
    BY <2>1 DEF VerdictIsOurs, Succeeding, Core, EventsNamed, Posted
<1> QED
  BY <1>1, <1>2, <1>3, <1>4, <1>5, <1>6, <1>7, <1>8, <1>9 DEF Core, Verdicts
-----------------------------------------------------------------------------
(***************************************************************************)
(* The theorems.                                                           *)
(***************************************************************************)
LEMMA InitInv == Init => Inv
<1> SUFFICES ASSUME Init PROVE Inv
  OBVIOUS
<1> USE DEF Init
<1>1. Typed
  BY DEF Typed, AnyEvent
<1>2. Core
  BY DEF Core, LockHeld, Course, Numbered, EventsNamed, Work
<1>3. Flags
  BY DEF Flags, FlagIsOurs, Answered, Shut
<1>4. Verdicts
  BY DEF Verdicts, SlotsApart, ArgsHeld, SeenIsOurs, VerdictIsOurs, Posted
<1> QED
  BY <1>1, <1>2, <1>3, <1>4, InvParts

LEMMA StepInv == Inv /\ [Next]_vars => Inv'
<1> SUFFICES ASSUME Inv, [Next]_vars PROVE Inv'
  OBVIOUS
<1> DEFINE Kept == /\ Core'
                   /\ Shut({"late_answer"}) /\ Flags => Flags'
                   /\ Shut({"late_answer", "shared_args"}) /\ Flags /\ Verdicts => Verdicts'
<1>1. Typed /\ Core
  BY InvParts
<1>2. CASE UNCHANGED vars
  <2>1. Typed' /\ Lost /\ closed' = closed
    BY <1>1, <1>2 DEF Typed, Lost, vars, daemon, shm, poster, ghost
  <2> QED
    BY <1>1, <2>1, LostKeeps, InvParts DEF Shut, Inv, Core, Flags, Verdicts
<1>3. ASSUME Step, closed' = closed PROVE Typed' /\ Kept
  <2>1. CASE \/ \E h \in Handles : Open(h) \/ Close(h) \/ Closing(h)
             \/ \E d \in Daemons : Subscribing(d)
    BY <1>1, <1>3, <2>1, AsideLoses, LostKeeps DEF Shut
  <2>2. ASSUME NEW d \in Daemons, Serving(d) PROVE Typed' /\ Kept
    <3>1. Typed'
      BY <1>1, <2>2, ServingTypes
    <3> QED
      BY <1>1, <1>3, <2>2, <3>1, DqeventKeeps, ReadArgsKeeps, EventResultKeeps, EventCompleteKeeps
      DEF Serving, Shut
  <2>3. ASSUME NEW p \in Posters, NEW k \in Kinds, Begin(p, k) PROVE Typed' /\ Kept
    <3>1. Typed'
      BY <1>1, <2>3, PostingTypes DEF Core
    <3> QED
      BY <1>1, <1>3, <2>3, <3>1, BeginKeeps DEF Shut
  <2>4. ASSUME NEW p \in Posters, Posting(p) \/ Lock(p) PROVE Typed' /\ Kept
    <3>1. Typed'
      BY <1>1, <2>4, PostingTypes DEF Core
    <3>2. CASE WriteArgs(p) \/ Caps(p) \/ CapsWoken(p)
      BY <1>1, <1>3, <3>1, <3>2, PrepareKeeps
    <3>3. CASE Lock(p)
      BY <1>1, <1>3, <3>1, <3>3, LockKeeps
    <3>4. CASE Queue(p)
      BY <1>1, <1>3, <3>1, <3>4, QueueKeeps
    <3>5. CASE Poll(p) \/ Look(p)
      BY <1>1, <1>3, <3>1, <3>5, WaitKeeps
    <3>6. CASE Unlock(p)
      <4>1. CASE rc[p] = "ok" /\ HasArgs(kind[p])
        BY <1>1, <1>3, <3>1, <3>6, <4>1, UnlockKeeps DEF Unlock
      <4>2. CASE ~(rc[p] = "ok" /\ HasArgs(kind[p]))
        BY <1>1, <1>3, <3>1, <3>6, <4>2, LeaveKeeps DEF Unlock
      <4> QED
        BY <4>1, <4>2
    <3>7. CASE CapsTimeout(p) \/ Return(p)
      BY <1>1, <1>3, <3>1, <3>7, LeaveKeeps DEF CapsTimeout, Return, shm
    <3> QED
      BY <2>4, <3>2, <3>3, <3>4, <3>5, <3>6, <3>7 DEF Posting
  <2> QED
    BY <1>3, <2>1, <2>2, <2>3, <2>4 DEF Step
<1>4. ASSUME Step, closed' = closed PROVE Inv'
  BY <1>3, <1>4, InvParts DEF Shut, Inv, Core, Flags, Verdicts
<1> QED
  BY <1>2, <1>4 DEF Next

LEMMA Invariance == Spec => []Inv
BY InitInv, StepInv, PTL DEF Spec

\* Whatever the number of applications, of daemons and of requests, and
\* whichever subscription is lost: an ioctl that waited and reports success
\* was completed by a daemon that had its event.
THEOREM SuccessIsAnswered == Spec => []Answered
<1>1. Inv => Answered
  BY DEF Inv, Answered
<1> QED
  BY <1>1, Invariance, PTL

\* What a successful VIDIOC_S_SELECTION or S_CAPS_MODE hands back is the
\* daemon's verdict on its own arguments.
THEOREM ResultIsOwn == Spec => []OwnResult
<1>1. ASSUME Inv, Shut({"late_answer", "shared_args"}), NEW p \in Posters, pc[p] = "result"
      PROVE  Result(p) = req[p]
  <2>1. rc[p] = "ok" /\ HasArgs(kind[p])
    BY <1>1 DEF Inv, Course
  <2>2. kind[p] # "capsmode" => args["buf_va"] = req[p]
    BY <1>1, <2>1 DEF Inv, ArgsHeld, Posted
  <2>3. kind[p] = "capsmode" => event_result = req[p]
    <3>1. p \in answered
      BY <1>1, <2>1 DEF Inv, Answered, Shut
    <3> QED
      BY <1>1, <2>1, <3>1 DEF Inv, VerdictIsOurs, Succeeding
  <2> QED
    BY <2>2, <2>3 DEF Result
<1>2. Inv => OwnResult
  BY <1>1 DEF OwnResult
<1> QED
  BY <1>2, Invariance, PTL
-----------------------------------------------------------------------------
(***************************************************************************)
(* Handles, subscriptions and their count: the part of the state that the  *)
(* requests do not touch.                                                  *)
(***************************************************************************)
CountTyped ==
    /\ closed \in Envs
    /\ hpc \in [Handles -> {"closed", "open", "dec", "check", "reinit", "zero"}]
    /\ refcnt \in Nat
    /\ sub \in [Daemons -> BOOLEAN]
    /\ spc \in [Daemons -> {"idle", "count", "announce", "drop"}]
    /\ cnt \in Nat /\ done \in BOOLEAN

\* The reference count is that of the handles video_close has not yet counted
\* out.
InUse == {h \in Handles : hpc[h] \in {"open", "dec"}}
Referenced == refcnt = Cardinality(InUse)

\* A count that has drifted stays within its bound: a daemon that is about to
\* count itself leaves room for that.
NotCounting == {d \in Daemons : spc[d] # "count"}
Drift == cnt <= Cardinality(Daemons) + Cardinality(NotCounting)

\* With paired subscriptions, from daemons that do not die: a subscribed
\* daemon's handle is open, and a step of its subscriber is about a
\* subscription it has.
Present ==
    \A d \in Daemons : /\ sub[d] => hpc[d] = "open"
                       /\ spc[d] # "idle" => sub[d]

\* The last close resets the count of nobody.
Resetting == \A h \in Handles : hpc[h] \in {"reinit", "zero"} => \A d \in Daemons : ~sub[d]

\* The count is that of the subscriptions counted and not yet uncounted.
Counted == {d \in Daemons : sub[d] /\ spc[d] \notin {"count", "drop"}}
CountExact == cnt = Cardinality(Counted)

\* A first subscriber is announced, or is about to be.
Woken ==
    /\ done => cnt > 0
    /\ cnt > 0 => done \/ \E d \in Daemons : spc[d] = "announce"

Orderly == Present /\ Resetting /\ CountExact /\ Woken

CountInv ==
    /\ CountTyped /\ Referenced /\ Drift
    /\ Shut({"unpaired", "daemon_dies", "close_race"}) => Orderly

\* What a set of handles weighs, and how one more or one less weighs.
LEMMA Weight ==
    ASSUME NEW S \in SUBSET Handles
    PROVE  /\ IsFiniteSet(S)
           /\ Cardinality(S) \in Nat /\ Cardinality(S) <= Cardinality(Handles)
           /\ Cardinality(Handles) \in Nat
           /\ Cardinality(S) = 0 <=> S = {}
           /\ \A h \in Handles \ S : Cardinality(S \cup {h}) = Cardinality(S) + 1
           /\ \A h \in S : Cardinality(S \ {h}) = Cardinality(S) - 1
<1>1. IsFiniteSet(Handles)
  BY VideoEventAssumption, FS_Union DEF Handles
<1>2. IsFiniteSet(S) /\ Cardinality(S) <= Cardinality(Handles)
  BY <1>1, FS_Subset
<1>3. Cardinality(S) \in Nat /\ Cardinality(Handles) \in Nat /\ (Cardinality(S) = 0 <=> S = {})
  BY <1>1, <1>2, FS_CardinalityType, FS_EmptySet
<1>4. ASSUME NEW h \in Handles \ S PROVE Cardinality(S \cup {h}) = Cardinality(S) + 1
  BY <1>2, FS_AddElement
<1>5. ASSUME NEW h \in S PROVE Cardinality(S \ {h}) = Cardinality(S) - 1
  BY <1>2, FS_RemoveElement
<1> QED
  BY <1>2, <1>3, <1>4, <1>5

LEMMA CountInvInit == Init => CountInv
<1> SUFFICES ASSUME Init PROVE CountInv
  OBVIOUS
<1>1. CountTyped
  BY DEF Init, CountTyped
<1>2. InUse = {} /\ Counted = {}
  BY DEF Init, InUse, Counted
<1>3. /\ Cardinality(InUse) = 0 /\ Cardinality(Counted) = 0
      /\ Cardinality(Daemons) \in Nat /\ Cardinality(NotCounting) \in Nat
  BY <1>2, Weight DEF Handles, NotCounting
<1>4. Referenced /\ Drift
  BY <1>3 DEF Init, Referenced, Drift
<1>5. Present /\ Resetting /\ Woken
  BY DEF Init, Present, Resetting, Woken, Handles
<1>6. CountExact
  BY <1>3 DEF Init, CountExact
<1> QED
  BY <1>1, <1>4, <1>5, <1>6 DEF CountInv, Orderly

\* video_open and video_close.
LEMMA HandlesCount ==
    ASSUME CountInv, NEW h \in Handles, Open(h) \/ Close(h) \/ Closing(h), closed' = closed
    PROVE  CountInv'
<1> USE DEF CountTyped
<1>1. CountTyped /\ Referenced /\ Drift
  BY DEF CountInv
<1>2. InUse \in SUBSET Handles /\ Cardinality(InUse) \in Nat /\ refcnt = Cardinality(InUse)
  BY <1>1, Weight DEF InUse, Referenced
<1>3. CountTyped' /\ Referenced'
  <2>1. CASE Open(h)
    <3>1. InUse' = InUse \cup {h} /\ h \in Handles \ InUse
      BY <1>1, <2>1 DEF InUse, Open
    <3> QED
      BY <1>1, <1>2, <2>1, <3>1, Weight DEF Open, Referenced, subs
  <2>2. CASE Dec(h)
    <3>1. InUse' = InUse \ {h} /\ h \in InUse
      BY <1>1, <2>2 DEF InUse, Dec, CloseStep
    <3>2. Cardinality(InUse') = Cardinality(InUse) - 1 /\ Cardinality(InUse') \in Nat
      BY <1>2, <3>1, Weight
    <3> QED
      BY <1>1, <1>2, <2>2, <3>2 DEF Dec, CloseStep, Referenced, subs
  <2>3. CASE Close(h) \/ Check(h) \/ Reinit(h) \/ Zero(h)
    <3>1. InUse' = InUse
      BY <1>1, <2>3 DEF InUse, Close, Check, Reinit, Zero, CloseStep
    <3>2. CountTyped'
      <4>1. CASE Close(h)
        BY <1>1, <4>1 DEF Close
      <4>2. CASE Check(h)
        BY <1>1, <4>2 DEF Check, CloseStep, subs
      <4>3. CASE Reinit(h)
        BY <1>1, <4>3 DEF Reinit, CloseStep
      <4>4. CASE Zero(h)
        BY <1>1, <4>4 DEF Zero, CloseStep
      <4> QED
        BY <2>3, <4>1, <4>2, <4>3, <4>4
    <3> QED
      BY <1>1, <2>3, <3>1, <3>2 DEF Close, Check, Reinit, Zero, Referenced
  <2> QED
    BY <2>1, <2>2, <2>3 DEF Closing
<1>4. /\ spc' = spc /\ cnt' \in {cnt, 0}
      /\ Cardinality(NotCounting) \in Nat /\ Cardinality(Daemons) \in Nat
  BY Weight DEF Open, Close, Closing, Dec, Check, Reinit, Zero, subs, NotCounting, Handles
<1>5. Drift'
  BY <1>1, <1>4 DEF Drift, NotCounting
<1>6. ASSUME Shut({"unpaired", "daemon_dies", "close_race"}), Orderly PROVE Orderly'
  <2>1. /\ sub' = sub
        /\ \A d \in Daemons : sub[d] => hpc'[d] = "open"
    BY <1>1, <1>6 DEF Orderly, Present, Shut, Open, Close, Closing, Dec, Check, Reinit, Zero,
                      CloseStep, subs, Handles
  <2>2. Present'
    BY <1>4, <1>6, <2>1 DEF Orderly, Present
  <2>3. Counted' = Counted
    BY <1>4, <2>1 DEF Counted
  <2>4. Resetting'
    <3>1. CASE Check(h) /\ refcnt = 0
      <4>1. InUse = {}
        BY <1>2, <3>1, Weight
      <4> QED
        BY <1>6, <2>1, <4>1 DEF Orderly, Present, Resetting, InUse, Handles
    <3>2. CASE ~(Check(h) /\ refcnt = 0)
      <4>1. \A g \in Handles : hpc'[g] \in {"reinit", "zero"} => hpc[g] \in {"reinit", "zero"}
        BY <1>1, <3>2 DEF Open, Close, Closing, Dec, Check, Reinit, Zero, CloseStep
      <4> QED
        BY <1>6, <2>1, <4>1 DEF Orderly, Resetting
    <3> QED
      BY <3>1, <3>2
  <2>5. CASE Reinit(h) \/ Zero(h)
    <3>1. Counted = {}
      BY <1>6, <2>5 DEF Orderly, Resetting, Counted, Reinit, Zero, CloseStep
    <3>2. cnt = 0 /\ Cardinality(Counted) = 0
      BY <1>6, <3>1, Weight DEF Orderly, CountExact
    <3>3. CountExact' /\ Woken'
      BY <1>6, <2>3, <2>5, <3>2 DEF Orderly, CountExact, Woken, Reinit, Zero
    <3> QED
      BY <2>2, <2>4, <3>3 DEF Orderly
  <2>6. CASE ~(Reinit(h) \/ Zero(h))
    <3>1. cnt' = cnt /\ done' = done
      BY <2>6 DEF Open, Close, Closing, Dec, Check, subs
    <3>2. CountExact' /\ Woken'
      BY <1>4, <1>6, <2>3, <3>1 DEF Orderly, CountExact, Woken
    <3> QED
      BY <2>2, <2>4, <3>2 DEF Orderly
  <2> QED
    BY <2>5, <2>6
<1> QED
  BY <1>3, <1>5, <1>6 DEF CountInv, Shut

\* viv_subscribe_event and viv_unsubscribe_event.
LEMMA SubscribingCounts ==
    ASSUME CountInv, NEW d \in Daemons, Subscribing(d), closed' = closed
    PROVE  CountInv'
<1> USE DEF CountTyped
<1> DEFINE Orders == Shut({"unpaired", "daemon_dies", "close_race"})
<1>1. CountTyped /\ Referenced /\ Drift
  BY DEF CountInv
<1>2. CountTyped' /\ hpc' = hpc /\ refcnt' = refcnt
  <2>1. CASE Subscribe(d)
    BY <1>1, <2>1 DEF Subscribe, SubStep, handles
  <2>2. CASE Count(d)
    BY <1>1, <2>2 DEF Count, SubStep, handles
  <2>3. CASE Announce(d)
    BY <1>1, <2>3 DEF Announce, SubStep, handles
  <2>4. CASE Unsubscribe(d)
    BY <1>1, <2>4 DEF Unsubscribe, SubStep, handles
  <2>5. CASE Drop(d)
    BY <1>1, <2>5 DEF Drop, SubStep, handles
  <2> QED
    BY <2>1, <2>2, <2>3, <2>4, <2>5 DEF Subscribing
<1>3. Referenced'
  BY <1>1, <1>2 DEF Referenced, InUse
<1>4. /\ NotCounting \in SUBSET Handles /\ NotCounting' \in SUBSET Handles
      /\ Counted \in SUBSET Handles /\ Counted' \in SUBSET Handles
      /\ Daemons \in SUBSET Handles
  BY DEF NotCounting, Counted, Handles
<1>5. /\ Cardinality(Daemons) \in Nat
      /\ Cardinality(NotCounting) \in Nat /\ Cardinality(NotCounting') \in Nat
      /\ Cardinality(Counted) \in Nat /\ Cardinality(Counted') \in Nat
  BY <1>4, Weight
<1>6. CASE Subscribe(d)
  <2>1. Drift'
    BY <1>1, <1>5, <1>6 DEF Drift, Subscribe
  <2>2. ASSUME Orders, Orderly PROVE Orderly'
    <3>1. ~sub[d] /\ spc[d] = "idle" /\ hpc[d] = "open"
      BY <1>6, <2>2 DEF Subscribe, SubStep, Shut
    <3>2. Present'
      BY <1>1, <1>2, <1>6, <2>2, <3>1 DEF Orderly, Present, Subscribe, SubStep
    <3>3. Resetting'
      BY <1>2, <1>6, <2>2 DEF Subscribe, Shut, Resetting
    <3>4. Counted' = Counted
      BY <1>1, <1>6, <3>1 DEF Counted, Subscribe, SubStep
    <3>5. CountExact' /\ Woken'
      BY <1>1, <1>6, <2>2, <3>1, <3>4 DEF Orderly, CountExact, Woken, Subscribe, SubStep
    <3> QED
      BY <3>2, <3>3, <3>5 DEF Orderly
  <2> QED
    BY <1>2, <1>3, <2>1, <2>2 DEF CountInv, Shut
<1>7. CASE Count(d)
  <2>1. NotCounting' = NotCounting \cup {d} /\ d \in Handles \ NotCounting
    BY <1>1, <1>7 DEF NotCounting, Count, SubStep, Handles
  <2>2. Drift'
    BY <1>1, <1>4, <1>5, <1>7, <2>1, Weight DEF Drift, Count
  <2>3. ASSUME Orderly PROVE Orderly'
    <3>1. sub[d] /\ spc[d] = "count" /\ hpc[d] = "open"
      BY <1>7, <2>3 DEF Count, SubStep, Orderly, Present
    <3>2. Present' /\ Resetting'
      BY <1>1, <1>2, <1>7, <2>3, <3>1 DEF Orderly, Present, Resetting, Count, SubStep
    <3>3. Counted' = Counted \cup {d} /\ d \in Handles \ Counted
      BY <1>1, <1>7, <3>1 DEF Counted, Count, SubStep, Handles
    <3>4. CountExact'
      BY <1>4, <1>7, <2>3, <3>3, Weight DEF Orderly, CountExact, Count
    <3>5. spc'[d] = "announce"
      BY <1>1, <1>7 DEF Count, SubStep
    <3>6. Woken'
      BY <1>1, <1>7, <2>3, <3>5 DEF Orderly, Woken, Count
    <3> QED
      BY <3>2, <3>4, <3>6 DEF Orderly
  <2> QED
    BY <1>2, <1>3, <2>2, <2>3 DEF CountInv, Shut
<1>8. CASE Announce(d)
  <2>1. NotCounting' = NotCounting /\ Counted' = Counted
    BY <1>1, <1>8 DEF NotCounting, Counted, Announce, SubStep
  <2>2. Drift'
    BY <1>1, <1>8, <2>1 DEF Drift, Announce
  <2>3. ASSUME Orderly PROVE Orderly'
    <3>1. sub[d] /\ spc[d] = "announce"
      BY <1>8, <2>3 DEF Announce, SubStep, Orderly, Present
    <3>2. Present' /\ Resetting'
      BY <1>1, <1>2, <1>8, <2>3, <3>1 DEF Orderly, Present, Resetting, Announce, SubStep
    <3>3. Counted # {}
      BY <3>1 DEF Counted
    <3>4. cnt > 0 /\ cnt = Cardinality(Counted)
      BY <1>1, <1>4, <2>3, <3>3, Weight DEF Orderly, CountExact
    <3>5. CountExact' /\ Woken'
      BY <1>8, <2>1, <3>4 DEF CountExact, Woken, Announce
    <3> QED
      BY <3>2, <3>5 DEF Orderly
  <2> QED
    BY <1>2, <1>3, <2>2, <2>3 DEF CountInv, Shut
<1>9. CASE Unsubscribe(d)
  <2>1. NotCounting' = NotCounting
    BY <1>1, <1>9 DEF NotCounting, Unsubscribe, SubStep
  <2>2. Drift'
    BY <1>1, <1>5, <1>9, <2>1 DEF Drift, Unsubscribe
  <2>3. ASSUME Orders, Orderly PROVE Orderly'
    <3>1. sub[d] /\ spc[d] = "idle"
      BY <1>9, <2>3 DEF Unsubscribe, SubStep, Shut
    <3>2. Present' /\ Resetting'
      BY <1>1, <1>2, <1>9, <2>3, <3>1 DEF Orderly, Present, Resetting, Unsubscribe, SubStep
    <3>3. Counted' = Counted \ {d} /\ d \in Counted
      BY <1>1, <1>9, <3>1 DEF Counted, Unsubscribe, SubStep
    <3>4. cnt = Cardinality(Counted) /\ Cardinality(Counted') = Cardinality(Counted) - 1
      BY <1>4, <2>3, <3>3, Weight DEF Orderly, CountExact
    <3>5. cnt' = cnt - 1 /\ CountExact'
      BY <1>1, <1>5, <1>9, <3>4 DEF CountExact, Unsubscribe
    <3>6. \A c \in Daemons : spc[c] = "announce" => spc'[c] = "announce"
      BY <1>1, <1>9, <3>1 DEF Unsubscribe, SubStep
    <3>7. done' = (done /\ cnt > 1)
      BY <1>9 DEF Unsubscribe
    <3>8. cnt > 1 => done \/ \E c \in Daemons : spc'[c] = "announce"
      BY <1>1, <2>3, <3>6 DEF Orderly, Woken
    <3>9. cnt > 1 <=> cnt' > 0
      BY <1>1, <3>5
    <3>10. Woken'
      BY <3>7, <3>8, <3>9 DEF Woken
    <3> QED
      BY <3>2, <3>5, <3>10 DEF Orderly
  <2> QED
    BY <1>2, <1>3, <2>2, <2>3 DEF CountInv, Shut
<1>10. CASE Drop(d)
  <2>1. NotCounting' = NotCounting /\ Counted' = Counted /\ cnt' = cnt /\ done' = done
    BY <1>1, <1>10 DEF NotCounting, Counted, Drop, SubStep
  <2>2. Drift'
    BY <1>1, <2>1 DEF Drift
  <2>3. ASSUME Orderly PROVE Orderly'
    <3>1. \A c \in Daemons : (sub'[c] => sub[c]) /\ (c # d => sub'[c] = sub[c])
      BY <1>1, <1>10 DEF Drop
    <3>2. /\ spc[d] = "drop" /\ spc'[d] = "idle"
          /\ \A c \in Daemons : c # d => spc'[c] = spc[c]
      BY <1>1, <1>10 DEF Drop, SubStep
    <3>3. Present' /\ Resetting'
      BY <1>2, <2>3, <3>1, <3>2 DEF Orderly, Present, Resetting
    <3>4. CountExact' /\ Woken'
      BY <2>1, <2>3, <3>2 DEF Orderly, CountExact, Woken
    <3> QED
      BY <3>3, <3>4 DEF Orderly
  <2> QED
    BY <1>2, <1>3, <2>2, <2>3 DEF CountInv, Shut
<1> QED
  BY <1>6, <1>7, <1>8, <1>9, <1>10 DEF Subscribing

LEMMA CountInvStep == CountInv /\ [Next]_vars => CountInv'
<1> SUFFICES ASSUME CountInv, [Next]_vars PROVE CountInv'
  OBVIOUS
<1>1. ASSUME UNCHANGED <<closed, handles, subs>> PROVE CountInv'
  BY <1>1 DEF CountInv, CountTyped, Referenced, InUse, Drift, NotCounting, Orderly, Present,
              Resetting, Counted, CountExact, Woken, Shut, handles, subs
<1>2. CASE UNCHANGED vars
  BY <1>1, <1>2 DEF vars
<1>3. ASSUME NEW d \in Daemons, Serving(d) PROVE UNCHANGED <<handles, subs>>
  BY <1>3 DEF Serving, Dqevent, ReadArgs, EventResult, EventComplete
<1>4. ASSUME NEW p \in Posters, Posting(p) \/ Lock(p) \/ \E k \in Kinds : Begin(p, k)
      PROVE  UNCHANGED <<handles, subs>>
  BY <1>4 DEF Posting, WriteArgs, Caps, CapsWoken, CapsTimeout, Lock, Queue, Poll, Look, Unlock,
              Return, Begin
<1> QED
  BY <1>1, <1>2, <1>3, <1>4, HandlesCount, SubscribingCounts DEF Next, Step

LEMMA CountInvariance == Spec => []CountInv
BY CountInvInit, CountInvStep, PTL DEF Spec

\* Whatever the number of daemons: with nobody about to subscribe, unsubscribe
\* or close, subscribed_cnt counts the subscribed daemons, and a waiting
\* GET_CAPS_SUPPORTS is woken exactly if there is one.
THEOREM CountFollows == Spec => []CountIsSubscribers
<1>1. ASSUME CountInv, Shut({"unpaired", "daemon_dies", "close_race"}), Settled
      PROVE  cnt = Cardinality({d \in Daemons : sub[d]}) /\ (done <=> cnt > 0)
  <2>1. Counted = {d \in Daemons : sub[d]}
    BY <1>1 DEF Settled, Counted
  <2>2. Orderly /\ done \in BOOLEAN
    BY <1>1 DEF CountInv, CountTyped
  <2> QED
    BY <1>1, <2>1, <2>2 DEF Orderly, CountExact, Woken, Settled
<1>2. CountInv => CountIsSubscribers
  BY <1>1 DEF CountIsSubscribers
<1> QED
  BY <1>2, CountInvariance, PTL
-----------------------------------------------------------------------------
(***************************************************************************)
(* The bounds of what the requests carry.                                  *)
(***************************************************************************)
\* Nobody holds arguments or a verdict of an ioctl that was not posted, and a
\* poster polls no more often than it may.
Polls(p) ==
    /\ tries[p] <= MaxTries
    /\ pc[p] \in {"poll", "look"} => tries[p] < MaxTries
    /\ pc[p] \notin {"poll", "look", "unlock", "result"} => tries[p] = 0

Bounded ==
    /\ issued <= MaxEvents /\ event_result <= issued
    /\ \A s \in Slots : args[s] <= issued
    /\ \A d \in Daemons : seen[d] <= issued
    /\ \A p \in Posters : Polls(p)

LEMMA BoundedStep == Inv /\ Bounded /\ [Next]_vars => Bounded'
<1> SUFFICES ASSUME Inv, Bounded, [Next]_vars PROVE Bounded'
  OBVIOUS
<1> USE VideoEventAssumption DEF Typed
<1>1. Typed /\ Typed' /\ Numbered
  BY StepInv DEF Inv
<1>2. ASSUME UNCHANGED <<shm, poster, ghost>>, \A d \in Daemons : seen'[d] \in {seen[d], 0}
      PROVE  Bounded'
  BY <1>1, <1>2 DEF Bounded, Polls, shm, poster, ghost
<1>3. CASE UNCHANGED vars
  BY <1>2, <1>3 DEF vars, daemon
<1>4. ASSUME NEW h \in Handles, Open(h) \/ Close(h) \/ Closing(h) PROVE Bounded'
  <2>1. UNCHANGED <<shm, poster, ghost>>
    BY <1>4 DEF Open, Close, Closing, Dec, Check, Reinit, Zero
  <2>2. \A d \in Daemons : seen'[d] \in {seen[d], 0}
    BY <1>4 DEF Open, Close, Closing, Dec, Check, Reinit, Zero, daemon
  <2> QED
    BY <1>2, <2>1, <2>2
<1>5. ASSUME NEW d \in Daemons, Subscribing(d) PROVE Bounded'
  BY <1>2, <1>5 DEF Subscribing, Subscribe, Count, Announce, Unsubscribe, Drop, daemon
<1>6. ASSUME NEW d \in Daemons, Serving(d) PROVE Bounded'
  <2>1. UNCHANGED poster /\ issued' = issued
    BY <1>6 DEF Serving, Dqevent, ReadArgs, EventResult, EventComplete, ghost
  <2>2. /\ args' = args
        /\ event_result' = event_result \/ event_result' = seen[d]
    BY <1>6 DEF Serving, Dqevent, ReadArgs, EventResult, EventComplete, shm
  <2>3. \A c \in Daemons : seen'[c] <= issued
    BY <1>1, <1>6 DEF Bounded, Serving, Dqevent, ReadArgs, EventResult, EventComplete
  <2>4. \A p \in Posters : Polls(p)'
    BY <2>1 DEF Bounded, Polls, poster
  <2> QED
    BY <1>1, <2>1, <2>2, <2>3, <2>4 DEF Bounded
<1>7. ASSUME NEW p \in Posters, Posting(p) \/ Lock(p) \/ \E k \in Kinds : Begin(p, k)
      PROVE  Bounded'
  <2>1. seen' = seen /\ event_result' = event_result
    BY <1>7 DEF Posting, WriteArgs, Caps, CapsWoken, CapsTimeout, Lock, Queue, Poll, Look, Unlock,
                Return, Begin, daemon, shm
  <2>2. issued <= issued' /\ issued' <= MaxEvents
    BY <1>1, <1>7 DEF Bounded, Posting, WriteArgs, Caps, CapsWoken, CapsTimeout, Lock, Queue, Poll,
                Look, Unlock, Return, Begin, ghost
  <2>3. \A s \in Slots : args'[s] <= issued'
    <3>1. CASE WriteArgs(p)
      <4>1. req[p] <= issued /\ issued' = issued
        BY <1>1, <3>1 DEF Numbered, WriteArgs, ghost
      <4> QED
        BY <1>1, <3>1, <4>1 DEF Bounded, WriteArgs
    <3>2. CASE ~WriteArgs(p)
      <4>1. args' = args
        BY <1>7, <3>2 DEF Posting, Caps, CapsWoken, CapsTimeout, Lock, Queue, Poll, Look, Unlock,
                          Return, Begin, shm
      <4> QED
        BY <1>1, <2>2, <4>1 DEF Bounded
    <3> QED
      BY <3>1, <3>2
  <2>4. \A q \in Posters : q # p => pc'[q] = pc[q] /\ tries'[q] = tries[q]
    BY <1>1, <1>7 DEF Posting, WriteArgs, Caps, CapsWoken, CapsTimeout, Lock, Queue, Poll, Look,
                Unlock, Return, Begin
  <2>5. Polls(p)'
    <3>0. Polls(p)
      BY DEF Bounded
    <3>1. CASE Look(p)
      BY <1>1, <3>0, <3>1 DEF Polls, Look
    <3>2. CASE Poll(p) \/ Queue(p)
      BY <1>1, <3>0, <3>2 DEF Polls, Poll, Queue
    <3>3. CASE CapsTimeout(p) \/ Unlock(p) \/ Return(p)
      BY <1>1, <3>0, <3>3 DEF Polls, CapsTimeout, Unlock, Return
    <3>4. CASE WriteArgs(p) \/ Caps(p) \/ CapsWoken(p) \/ Lock(p) \/ \E k \in Kinds : Begin(p, k)
      BY <1>1, <3>0, <3>4 DEF Polls, WriteArgs, Caps, CapsWoken, Lock, Begin
    <3> QED
      BY <1>7, <3>1, <3>2, <3>3, <3>4 DEF Posting
  <2>6. \A q \in Posters : Polls(q)'
    BY <2>4, <2>5 DEF Bounded, Polls
  <2> QED
    BY <1>1, <2>1, <2>2, <2>3, <2>6 DEF Bounded
<1> QED
  BY <1>3, <1>4, <1>5, <1>6, <1>7 DEF Next, Step

LEMMA BoundedInvariance == Spec => [](Inv /\ Bounded)
<1>1. Init => Bounded
  BY VideoEventAssumption DEF Init, Bounded, Polls
<1> QED
  BY <1>1, InitInv, StepInv, BoundedStep, PTL DEF Spec

\* The type invariant, with the bounds on every counter: refcnt counts
\* handles, a drifted subscribed_cnt stays below twice the daemons, an ioctl
\* polls at most MaxTries times, and whatever is queued, in hand, read or
\* answered belongs to an ioctl that was posted.
THEOREM TypeCorrect == Spec => []TypeOK
<1>1. ASSUME Inv, Bounded, CountInv PROVE TypeOK
  <2>1. Typed /\ Numbered /\ EventsNamed /\ CountTyped /\ issued \in Nat /\ issued <= MaxEvents
    BY <1>1 DEF Inv, CountInv, Bounded, Typed
  <2>2. \A e \in AnyEvent : Named(e) => e \in Events
    BY <2>1, VideoEventAssumption DEF Named, AnyEvent, Events
  <2>3. pending \in [Daemons -> SUBSET Events] /\ hand \in [Daemons -> Events \cup {NULL}]
    BY <2>1, <2>2 DEF Typed, EventsNamed
  <2>4. /\ seen \in [Daemons -> Requests] /\ args \in [Slots -> Requests]
        /\ event_result \in Requests /\ issued \in Requests
    BY <1>1, <2>1, VideoEventAssumption DEF Typed, Bounded, Requests
  <2>5. req \in [Posters -> Requests]
    <3>1. \A p \in Posters : req[p] \in Requests
      BY <2>1, VideoEventAssumption DEF Typed, Numbered, Requests
    <3> QED
      BY <2>1, <3>1 DEF Typed
  <2>6. tries \in [Posters -> 0 .. MaxTries]
    BY <1>1, <2>1, VideoEventAssumption DEF Typed, Bounded, Polls
  <2>7. refcnt \in 0 .. Cardinality(Handles)
    <3>1. InUse \in SUBSET Handles
      BY DEF InUse
    <3> QED
      BY <1>1, <3>1, Weight DEF CountInv, Referenced
  <2>8. cnt \in 0 .. 2 * Cardinality(Daemons)
    <3>1. IsFiniteSet(Daemons) /\ NotCounting \in SUBSET Daemons
      BY VideoEventAssumption DEF NotCounting
    <3>2. /\ Cardinality(Daemons) \in Nat /\ Cardinality(NotCounting) \in Nat
          /\ Cardinality(NotCounting) <= Cardinality(Daemons)
      BY <3>1, FS_Subset, FS_CardinalityType
    <3> QED
      BY <1>1, <2>1, <3>2 DEF CountInv, CountTyped, Drift
  <2> QED
    BY <2>1, <2>3, <2>4, <2>5, <2>6, <2>7, <2>8 DEF TypeOK, Typed, CountTyped
<1> QED
  BY <1>1, BoundedInvariance, CountInvariance, PTL
=============================================================================

----------------------------- MODULE VideoEvent -----------------------------
(***************************************************************************)
(* The handshake between the V4L2 ioctls and the camera daemon in          *)
(* v4l2/video/video.c: an ioctl posts an event to every subscribed handle, *)
(* waits for the daemon's VIV_VIDIOC_EVENT_COMPLETE and returns; daemons   *)
(* come and go by subscription.                                            *)
(*                                                                         *)
(* The agents: one thread per poster (a handle of an application), per     *)
(* daemon one thread that subscribes and one that takes events.  The       *)
(* device's ioctls run with no common lock.  event_lock is held from the   *)
(* reset of event_shm to the end of the wait, and only there; the request's*)
(* arguments and its result travel outside it.                             *)
(*                                                                         *)
(* The daemon is not part of this repository.  It is modelled from the     *)
(* fields of an event: one with v_event->sync set is completed, a          *)
(* SET_CAPSMODE one is answered with EVENT_RESULT before.                  *)
(***************************************************************************)
EXTENDS Integers, FiniteSets

CONSTANTS Posters,   \* handles of applications
          Daemons,   \* handles of daemons: those with streamid < 0
          MaxEvents, \* bound on the ioctls posted
          MaxTries,  \* polls of viv_event_wait_complete, 1000 in the code
          Elems,     \* events of one id a subscription keeps, 10 in the code
          Envs,      \* the environments: the windows each keeps closed
          NULL       \* no event

(***************************************************************************)
(* What the driver leaves to luck; an environment keeps some of it away.   *)
(*   late_answer     a daemon answers an event nobody waits for any more   *)
(*   shared_args     two requests that use one argument buffer overlap     *)
(*   unpaired        a daemon subscribes twice, or unsubscribes without    *)
(*                   subscription                                          *)
(*   daemon_dies     a daemon's handle is closed while it is subscribed    *)
(*   app_closes      an application closes its handle                      *)
(*   close_race      a daemon subscribes while the last handle is closed   *)
(***************************************************************************)
Windows == {"late_answer", "shared_args", "unpaired", "daemon_dies", "app_closes",
             "close_race"}

(* The requests: VIDIOC_S_SELECTION, VIV_VIDIOC_S_CAPS_MODE,               *)
(* VIV_VIDIOC_GET_CAPS_SUPPORTS, and STOP_STREAM of stop_streaming.        *)
Kinds == {"select", "capsmode", "getcaps", "stop"}
Sync(k) == k # "stop"

ASSUME VideoEventAssumption ==
    /\ IsFiniteSet(Posters) /\ IsFiniteSet(Daemons)
    /\ Posters \cap Daemons = {}
    /\ MaxEvents \in Nat /\ MaxTries \in Nat \ {0} /\ Elems \in Nat \ {0}
    /\ Envs \subseteq SUBSET Windows
    /\ NULL \notin Nat \X Kinds /\ NULL \notin Posters

Handles == Posters \cup Daemons

\* Where a request leaves its arguments: dev->caps_mode, ctrls.buf_va.
Slots == {"caps_mode", "buf_va"}
HasArgs(k) == k \in {"select", "capsmode"}
Slot(k) == IF k = "capsmode" THEN "caps_mode" ELSE "buf_va"

\* A request is known by its number, which also stands for its arguments.
Requests == 0 .. MaxEvents
Events == (1 .. MaxEvents) \X Kinds

VARIABLES
    closed,      \* the windows this behaviour keeps closed
    hpc,         \* per handle: open, closed, or a step of video_close
    refcnt,      \* vdev->refcnt
    sub, spc,    \* per daemon: subscribed?  where its subscriber stands
    cnt, done,   \* subscribed_cnt, subscribed_wait.done
    pending,     \* per daemon: the events queued to its handle
    hand, dpc,   \* per daemon: the event in work, where it stands
    seen,        \* per daemon: the arguments it read
    event_lock,  \* the poster that holds it, or NULL
    complete,    \* event_shm.complete
    args,        \* per slot: the request whose arguments it holds
    event_result, \* the request whose verdict it holds
    pc, kind, req, tries, rc, \* per poster: its ioctl
    issued,      \* the number of ioctls posted
    answered     \* ghost: the posters whose request some daemon completed

handles == <<hpc, refcnt>>
subs == <<sub, spc, cnt, done>>
daemon == <<hand, dpc, seen>>
shm == <<event_lock, complete, args, event_result>>
poster == <<pc, kind, req, tries, rc>>
ghost == <<issued, answered>>
vars == <<closed, handles, subs, pending, daemon, shm, poster, ghost>>

Shut(W) == W \subseteq closed
Idle(p) == pc[p] = "idle"

TypeOK ==
    /\ closed \in Envs
    /\ hpc \in [Handles -> {"closed", "open", "dec", "check", "reinit", "zero"}]
    /\ refcnt \in 0 .. Cardinality(Handles)
    /\ sub \in [Daemons -> BOOLEAN]
    /\ spc \in [Daemons -> {"idle", "count", "announce", "drop"}]
    /\ cnt \in 0 .. 2 * Cardinality(Daemons) /\ done \in BOOLEAN
    /\ pending \in [Daemons -> SUBSET Events]
    /\ hand \in [Daemons -> Events \cup {NULL}]
    /\ dpc \in [Daemons -> {"idle", "read", "answer", "complete"}]
    /\ seen \in [Daemons -> Requests]
    /\ event_lock \in Posters \cup {NULL} /\ complete \in BOOLEAN
    /\ args \in [Slots -> Requests] /\ event_result \in Requests
    /\ pc \in [Posters -> {"idle", "args", "caps", "caps_wait", "lock", "queue",
                           "poll", "look", "unlock", "result"}]
    /\ kind \in [Posters -> Kinds] /\ req \in [Posters -> Requests]
    /\ tries \in [Posters -> 0 .. MaxTries]
    /\ rc \in [Posters -> {"ok", "EINVAL", "ETIMEDOUT"}]
    /\ issued \in Requests /\ answered \in SUBSET Posters

\* viv_video_probe: nothing open, nobody subscribed.
Init ==
    /\ closed \in Envs
    /\ hpc = [h \in Handles |-> "closed"] /\ refcnt = 0
    /\ sub = [d \in Daemons |-> FALSE] /\ spc = [d \in Daemons |-> "idle"]
    /\ cnt = 0 /\ done = FALSE
    /\ pending = [d \in Daemons |-> {}]
    /\ hand = [d \in Daemons |-> NULL] /\ dpc = [d \in Daemons |-> "idle"]
    /\ seen = [d \in Daemons |-> 0]
    /\ event_lock = NULL /\ complete = FALSE
    /\ args = [s \in Slots |-> 0] /\ event_result = 0
    /\ pc = [p \in Posters |-> "idle"] /\ kind = [p \in Posters |-> "stop"]
    /\ req = [p \in Posters |-> 0] /\ tries = [p \in Posters |-> 0]
    /\ rc = [p \in Posters |-> "ok"]
    /\ issued = 0 /\ answered = {}
-----------------------------------------------------------------------------
(* Handles.                                                                *)

(* Mutant: the handle is not counted.                                      *)
OpenUncounted(h) ==
    /\ hpc[h] = "closed"
    /\ hpc' = [hpc EXCEPT ![h] = "open"]
    /\ UNCHANGED <<refcnt, subs, pending, daemon, shm, poster, ghost>>

Open(h) ==
    /\ hpc[h] = "closed"
    /\ hpc' = [hpc EXCEPT ![h] = "open"]
    /\ refcnt' = refcnt + 1
    /\ UNCHANGED <<subs, pending, daemon, shm, poster, ghost>>

(* video_close up to v4l2_fh_exit, which drops the handle's subscriptions  *)
(* and events; subscribed_cnt is not told.                                 *)
Close(h) ==
    /\ hpc[h] = "open"
    /\ h \in Posters => Idle(h) /\ "app_closes" \notin closed
    /\ h \in Daemons => /\ spc[h] = "idle"
                        /\ sub[h] => "daemon_dies" \notin closed
    /\ hpc' = [hpc EXCEPT ![h] = "dec"]
    /\ sub' = [d \in Daemons |-> d # h /\ sub[d]]
    /\ pending' = [d \in Daemons |-> IF d = h THEN {} ELSE pending[d]]
    /\ hand' = [d \in Daemons |-> IF d = h THEN NULL ELSE hand[d]]
    /\ dpc' = [d \in Daemons |-> IF d = h THEN "idle" ELSE dpc[d]]
    /\ seen' = [d \in Daemons |-> IF d = h THEN 0 ELSE seen[d]]
    /\ UNCHANGED <<refcnt, spc, cnt, done, shm, poster, ghost>>

CloseStep(h, from, to) == hpc[h] = from /\ hpc' = [hpc EXCEPT ![h] = to]

Dec(h) ==
    /\ CloseStep(h, "dec", "check")
    /\ refcnt' = refcnt - 1
    /\ UNCHANGED <<subs, pending, daemon, shm, poster, ghost>>

\* The last one out resets the subscription count, in three steps.
Check(h) ==
    /\ CloseStep(h, "check", IF refcnt = 0 THEN "reinit" ELSE "closed")
    /\ UNCHANGED <<refcnt, subs, pending, daemon, shm, poster, ghost>>

Reinit(h) ==
    /\ CloseStep(h, "reinit", "zero")
    /\ done' = FALSE
    /\ UNCHANGED <<refcnt, sub, spc, cnt, pending, daemon, shm, poster, ghost>>

Zero(h) ==
    /\ CloseStep(h, "zero", "closed")
    /\ cnt' = 0
    /\ UNCHANGED <<refcnt, sub, spc, done, pending, daemon, shm, poster, ghost>>
-----------------------------------------------------------------------------
(* Subscription.  The daemon subscribes to all ids; the count follows the  *)
(* one of GET_CAPS_SUPPORTS.  Bound: a count that has drifted is cut off at one   *)
(* more than the daemons.                                                  *)
SubStep(d, from, to) ==
    hpc[d] = "open" /\ spc[d] = from /\ spc' = [spc EXCEPT ![d] = to]

Subscribe(d) ==
    /\ SubStep(d, "idle", "count")
    /\ sub[d] => "unpaired" \notin closed
    /\ cnt <= Cardinality(Daemons)
    /\ \/ "close_race" \notin closed
       \/ \A h \in Handles : hpc[h] \notin {"reinit", "zero"}
    /\ sub' = [sub EXCEPT ![d] = TRUE]
    /\ UNCHANGED <<handles, cnt, done, pending, daemon, shm, poster, ghost>>

Count(d) ==
    /\ SubStep(d, "count", "announce")
    /\ cnt' = cnt + 1
    /\ UNCHANGED <<handles, sub, done, pending, daemon, shm, poster, ghost>>

\* complete_all
Announce(d) ==
    /\ SubStep(d, "announce", "idle")
    /\ done' = TRUE
    /\ UNCHANGED <<handles, sub, cnt, pending, daemon, shm, poster, ghost>>

(* Mutant: the completion is not taken back with the last subscriber.      *)
UnsubscribeStaysDone(d) ==
    /\ SubStep(d, "idle", "drop")
    /\ ~sub[d] => "unpaired" \notin closed
    /\ cnt' = IF cnt <= 1 THEN 0 ELSE cnt - 1
    /\ UNCHANGED <<handles, sub, done, pending, daemon, shm, poster, ghost>>

(* unsubscribe_event: the count goes down, and is reset when it reaches    *)
(* zero, under file_list_lock; the subscription itself goes afterwards.    *)
Unsubscribe(d) ==
    /\ SubStep(d, "idle", "drop")
    /\ ~sub[d] => "unpaired" \notin closed
    /\ cnt' = IF cnt <= 1 THEN 0 ELSE cnt - 1
    /\ done' = (done /\ cnt > 1)
    /\ UNCHANGED <<handles, sub, pending, daemon, shm, poster, ghost>>

\* v4l2_event_unsubscribe drops what is queued.
Drop(d) ==
    /\ SubStep(d, "drop", "idle")
    /\ sub' = [sub EXCEPT ![d] = FALSE]
    /\ pending' = [pending EXCEPT ![d] = {}]
    /\ UNCHANGED <<handles, cnt, done, daemon, shm, poster, ghost>>
-----------------------------------------------------------------------------
(* The daemon.                                                             *)
Oldest(E) == {e \in E : \A f \in E : e[1] <= f[1]}

Dqevent(d) ==
    /\ dpc[d] = "idle"
    /\ \E e \in Oldest(pending[d]) :
         /\ pending' = [pending EXCEPT ![d] = @ \ {e}]
         /\ IF Sync(e[2])
              THEN /\ hand' = [hand EXCEPT ![d] = e]
                   /\ dpc' = [dpc EXCEPT ![d] = IF HasArgs(e[2]) THEN "read" ELSE "complete"]
              ELSE UNCHANGED <<hand, dpc>>
    /\ UNCHANGED <<handles, subs, seen, shm, poster, ghost>>

\* VIV_VIDIOC_G_CAPS_MODE, or a read of the mapped buffer.
ReadArgs(d) ==
    /\ dpc[d] = "read"
    /\ seen' = [seen EXCEPT ![d] = args[Slot(hand[d][2])]]
    /\ dpc' = [dpc EXCEPT ![d] = IF hand[d][2] = "capsmode" THEN "answer" ELSE "complete"]
    /\ UNCHANGED <<handles, subs, pending, hand, shm, poster, ghost>>

Waiting(n) == \E p \in Posters : pc[p] \in {"queue", "poll", "look"} /\ req[p] = n

\* Neither answer names its event; late ones are a matter of luck.
Answerable(n) == Waiting(n) \/ "late_answer" \notin closed

\* VIV_VIDIOC_EVENT_RESULT
EventResult(d) ==
    /\ dpc[d] = "answer"
    /\ event_result' = IF Answerable(hand[d][1]) THEN seen[d] ELSE event_result
    /\ dpc' = [dpc EXCEPT ![d] = "complete"]
    /\ UNCHANGED <<handles, subs, pending, hand, seen, event_lock, complete, args, poster, ghost>>

\* VIV_VIDIOC_EVENT_COMPLETE
EventComplete(d) ==
    /\ dpc[d] = "complete"
    /\ complete' = (complete \/ Answerable(hand[d][1]))
    /\ answered' = answered \cup {p \in Posters : req[p] = hand[d][1]}
    /\ hand' = [hand EXCEPT ![d] = NULL] /\ seen' = [seen EXCEPT ![d] = 0]
    /\ dpc' = [dpc EXCEPT ![d] = "idle"]
    /\ UNCHANGED <<handles, subs, pending, event_lock, args, event_result, poster, issued>>
-----------------------------------------------------------------------------
(* The ioctls.                                                             *)
Goto(p, from, to) == pc[p] = from /\ pc' = [pc EXCEPT ![p] = to]

\* Back in user space nothing of the request is left.
Leave(p) ==
    /\ pc' = [pc EXCEPT ![p] = "idle"] /\ kind' = [kind EXCEPT ![p] = "stop"]
    /\ req' = [req EXCEPT ![p] = 0] /\ tries' = [tries EXCEPT ![p] = 0]
    /\ rc' = [rc EXCEPT ![p] = "ok"]
    /\ answered' = answered \ {p}

Begin(p, k) ==
    /\ hpc[p] = "open" /\ issued < MaxEvents
    /\ Goto(p, "idle", IF HasArgs(k) THEN "args" ELSE IF k = "getcaps" THEN "caps" ELSE "lock")
    /\ HasArgs(k) /\ "shared_args" \in closed =>
         \A q \in Posters \ {p} : ~Idle(q) => Slot(kind[q]) # Slot(k) \/ ~HasArgs(kind[q])
    /\ kind' = [kind EXCEPT ![p] = k]
    /\ issued' = issued + 1
    /\ req' = [req EXCEPT ![p] = issued + 1]
    /\ UNCHANGED <<handles, subs, pending, daemon, shm, tries, rc, answered>>

\* The memcpy into caps_mode, or the rectangle into buf_va.
WriteArgs(p) ==
    /\ Goto(p, "args", "lock")
    /\ args' = [args EXCEPT ![Slot(kind[p])] = req[p]]
    /\ UNCHANGED <<handles, subs, pending, daemon, event_lock, complete, event_result,
                   kind, req, tries, rc, ghost>>

(* get_caps_suppots_event waits for a first subscriber, five seconds at    *)
(* most.                                                                   *)
Caps(p) ==
    /\ Goto(p, "caps", IF cnt = 0 THEN "caps_wait" ELSE "lock")
    /\ UNCHANGED <<handles, subs, pending, daemon, shm, kind, req, tries, rc, ghost>>

CapsWoken(p) ==
    /\ Goto(p, "caps_wait", "lock")
    /\ done
    /\ UNCHANGED <<handles, subs, pending, daemon, shm, kind, req, tries, rc, ghost>>

CapsTimeout(p) ==
    /\ pc[p] = "caps_wait" /\ ~done
    /\ Leave(p)
    /\ UNCHANGED <<handles, subs, pending, daemon, shm, issued>>

(* Mutant: event_shm keeps the last completion.                            *)
LockNoReset(p) ==
    /\ event_lock = NULL
    /\ Goto(p, "lock", "queue")
    /\ event_lock' = p
    /\ UNCHANGED <<handles, subs, pending, daemon, complete, args, event_result,
                   kind, req, tries, rc, ghost>>

(* viv_v4l2_post_event has looked for a subscriber ten times, and goes on  *)
(* with one or without: that look decides nothing.  It takes event_lock    *)
(* and resets event_shm.                                                   *)
Lock(p) ==
    /\ event_lock = NULL
    /\ Goto(p, "lock", "queue")
    /\ event_lock' = p
    /\ complete' = (complete /\ ~Sync(kind[p]))
    /\ UNCHANGED <<handles, subs, pending, daemon, args, event_result,
                   kind, req, tries, rc, ghost>>

\* v4l2_event_queue: a full subscription loses its oldest event.
WithEvent(E, e) ==
    LET same == {f \in E : f[2] = e[2]} IN
    (IF Cardinality(same) < Elems THEN E ELSE E \ Oldest(same)) \cup {e}

Queue(p) ==
    /\ Goto(p, "queue", IF Sync(kind[p]) THEN "poll" ELSE "unlock")
    /\ pending' = [d \in Daemons |-> IF sub[d] THEN WithEvent(pending[d], <<req[p], kind[p]>>)
                                     ELSE pending[d]]
    /\ UNCHANGED <<handles, subs, daemon, shm, kind, req, tries, rc, ghost>>

\* viv_event_wait_complete: a look at the flag, then one for a subscriber.
Poll(p) ==
    /\ Goto(p, "poll", IF complete THEN "unlock" ELSE "look")
    /\ UNCHANGED <<handles, subs, pending, daemon, shm, kind, req, tries, rc, ghost>>

Subscribed == \E d \in Daemons : sub[d]

(* Mutant: the polls are not counted.                                      *)
LookForever(p) ==
    /\ Goto(p, "look", IF Subscribed THEN "poll" ELSE "unlock")
    /\ rc' = [rc EXCEPT ![p] = IF Subscribed THEN "ok" ELSE "EINVAL"]
    /\ UNCHANGED <<handles, subs, pending, daemon, shm, kind, req, tries, ghost>>

(* Mutant: the time-out is reported as success.                            *)
LookOk(p) ==
    LET last == tries[p] + 1 = MaxTries IN
    /\ Goto(p, "look", IF Subscribed /\ ~last THEN "poll" ELSE "unlock")
    /\ tries' = [tries EXCEPT ![p] = @ + 1]
    /\ UNCHANGED <<handles, subs, pending, daemon, shm, kind, req, rc, ghost>>

Look(p) ==
    LET last == tries[p] + 1 = MaxTries IN
    /\ Goto(p, "look", IF Subscribed /\ ~last THEN "poll" ELSE "unlock")
    /\ tries' = [tries EXCEPT ![p] = @ + 1]
    /\ rc' = [rc EXCEPT ![p] = IF ~Subscribed THEN "EINVAL"
                               ELSE IF last THEN "ETIMEDOUT" ELSE "ok"]
    /\ UNCHANGED <<handles, subs, pending, daemon, shm, kind, req, ghost>>

Unlock(p) ==
    /\ pc[p] = "unlock"
    /\ event_lock' = NULL
    /\ IF rc[p] = "ok" /\ HasArgs(kind[p])
         THEN Goto(p, "unlock", "result") /\ UNCHANGED <<kind, req, tries, rc, answered>>
         ELSE Leave(p)
    /\ UNCHANGED <<handles, subs, pending, daemon, complete, args, event_result, issued>>

\* What the ioctl hands back: event_result, or the rectangle left in buf_va.
Result(p) == IF kind[p] = "capsmode" THEN event_result ELSE args["buf_va"]

Return(p) ==
    /\ pc[p] = "result"
    /\ Leave(p)
    /\ UNCHANGED <<handles, subs, pending, daemon, shm, issued>>
-----------------------------------------------------------------------------
Posting(p) ==
    \/ WriteArgs(p) \/ Caps(p) \/ CapsWoken(p) \/ CapsTimeout(p)
    \/ Queue(p) \/ Poll(p) \/ Look(p) \/ Unlock(p) \/ Return(p)

Subscribing(d) == Subscribe(d) \/ Count(d) \/ Announce(d) \/ Unsubscribe(d) \/ Drop(d)

Serving(d) == Dqevent(d) \/ ReadArgs(d) \/ EventResult(d) \/ EventComplete(d)

Closing(h) == Dec(h) \/ Check(h) \/ Reinit(h) \/ Zero(h)

Step ==
    \/ \E h \in Handles : Open(h) \/ Close(h) \/ Closing(h)
    \/ \E d \in Daemons : Subscribing(d) \/ Serving(d)
    \/ \E p \in Posters : Posting(p) \/ Lock(p) \/ \E k \in Kinds : Begin(p, k)

Next == Step /\ UNCHANGED closed

Spec == Init /\ [][Next]_vars

(* The kernel runs an ioctl on; event_lock, a mutex, is not withheld from  *)
(* a waiter for ever.  Nothing is assumed of a daemon or an application.   *)
FairSpec ==
    /\ Spec
    /\ \A p \in Posters : WF_vars(Posting(p) /\ UNCHANGED closed) /\ SF_vars(Lock(p) /\ UNCHANGED closed)
-----------------------------------------------------------------------------
(* An ioctl that waited and reports success was completed: some daemon had *)
(* its event in hand and called EVENT_COMPLETE for it.  event_shm carries  *)
(* no name, so that it takes daemons that do not answer late.              *)
Answered ==
    Shut({"late_answer"}) =>
      \A p \in Posters :
        pc[p] \in {"unlock", "result"} /\ rc[p] = "ok" /\ Sync(kind[p]) => p \in answered

(* A successful ioctl hands back the daemon's verdict on its own           *)
(* arguments, although both travel outside event_lock: S_CAPS_MODE reads   *)
(* event_result, S_SELECTION the rectangle in buf_va, after the unlock.    *)
OwnResult ==
    Shut({"late_answer", "shared_args"}) =>
      \A p \in Posters : pc[p] = "result" => Result(p) = req[p]

Settled == /\ \A d \in Daemons : spc[d] = "idle"
           /\ \A h \in Handles : hpc[h] \in {"open", "closed"}

(* While nobody is about to subscribe, unsubscribe or close,               *)
(* subscribed_cnt is the number of subscribed daemons, and a GET_CAPS_     *)
(* SUPPORTS that waits is woken exactly if there is one.                   *)
CountIsSubscribers ==
    Shut({"unpaired", "daemon_dies", "close_race"}) /\ Settled =>
      /\ cnt = Cardinality({d \in Daemons : sub[d]})
      /\ done <=> cnt > 0

(* A request is refused for want of a subscriber (EINVAL) or for want of   *)
(* an answer (ETIMEDOUT), but it returns, whatever the daemons do, and so  *)
(* does every request behind it on event_lock.                             *)
Returns == \A p \in Posters : pc[p] # "idle" ~> pc[p] = "idle"
=============================================================================

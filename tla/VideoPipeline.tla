--------------------------- MODULE VideoPipeline ---------------------------
(***************************************************************************)
(* The pipeline of a video device, v4l2/video/video.c: S_FMT, REQBUFS,     *)
(* STREAMON, STREAMOFF and close of several handles that share             *)
(* vdev->pipeline_status, vdev->fmt and vdev->active, and the orders they  *)
(* post to the camera daemon for the one stream of the device.             *)
(*                                                                         *)
(* Each handle is used by one thread; the threads share no lock.  An ioctl *)
(* that posts a synchronous event waits up to a second, so that each post  *)
(* is a step of its own.  A post is one step here; VideoEvent models what  *)
(* happens in it.  An ioctl that is refused changes nothing and is no      *)
(* step.                                                                   *)
(***************************************************************************)
EXTENDS Integers, FiniteSets

CONSTANTS Handles,  \* handles of applications, streamid 0
          Formats,  \* the formats they ask for
          Envs,     \* the environments: the windows each keeps closed
          NONE      \* no handle, no format

(***************************************************************************)
(* What the driver leaves to luck; an environment keeps some of it away.   *)
(*   unanswered  a posted event gets no answer in time, or no subscriber   *)
(*   overtaken   an ioctl begins while another handle's is waiting         *)
(*   guest       a handle requests buffers for a stream another one created*)
(*   freed       buffers that were requested go unused: REQBUFS of zero, or*)
(*               a close that leaves the stream to others                  *)
(*   refit       S_FMT after STREAMOFF, with buffers still allocated       *)
(*   remode      the daemon sets another mode while there is a stream or   *)
(*               buffers, or an ioctl runs                                 *)
(*   alloc_fails REQBUFS gets no memory, or comes before the first mode    *)
(***************************************************************************)
Windows == {"unanswered", "overtaken", "guest", "freed", "refit", "remode",
             "alloc_fails"}

ASSUME VideoPipelineAssumption ==
    /\ IsFiniteSet(Handles)
    /\ NONE \notin Handles \cup Formats
    /\ Envs \subseteq SUBSET Windows

Statuses == {"INIT", "CREATED", "FMTSETTED", "REQBUFED", "STREAMON", "STREAMOFF"}

VARIABLES
    closed,          \* the windows this behaviour keeps closed
    pipeline_status, \* vdev->pipeline_status
    fmt,             \* vdev->fmt
    active,          \* vdev->active: frames reach user space
    state,           \* per handle: -1 closed, 0 open, 1 has the stream, 2 streams
    reqd,            \* per handle: handle->req
    bufs,            \* per handle: the format its buffers were allocated for
    pc, op, want,    \* per handle: its step; S_FMT or REQBUFS last; the format wanted
    order, owner,    \* the last order to the daemon; who started the stream
    told             \* the format the daemon was last told

device == <<pipeline_status, fmt, active>>
handle == <<state, reqd, bufs, pc, op, want>>
orders == <<order, owner, told>>
vars == <<closed, device, handle, orders>>

Shut(W) == W \subseteq closed
Idle(h) == pc[h] = "idle"
Others(h) == Handles \ {h}

TypeOK ==
    /\ closed \in Envs
    /\ pipeline_status \in Statuses
    /\ fmt \in Formats \cup {NONE} /\ active \in BOOLEAN
    /\ state \in [Handles -> -1 .. 2] /\ reqd \in [Handles -> BOOLEAN]
    /\ bufs \in [Handles -> Formats \cup {NONE}]
    /\ pc \in [Handles -> {"idle", "fmt", "event", "new", "set", "claim", "alloc", "start",
                           "stop", "close_stop", "close_look", "close_del", "close_end"}]
    /\ op \in [Handles -> {"s_fmt", "reqbufs"}]
    /\ want \in [Handles -> Formats \cup {NONE}]
    /\ order \in {"NEW", "SET_FMT", "START", "STOP", "DEL"}
    /\ owner \in Handles \cup {NONE} /\ told \in Formats \cup {NONE}
    \* handle->state and the ioctl in progress agree
    /\ \A h \in Handles : state[h] = -1 => Idle(h) /\ ~reqd[h] /\ bufs[h] = NONE

\* viv_video_probe
Init ==
    /\ closed \in Envs
    /\ pipeline_status = "INIT" /\ fmt = NONE /\ active = FALSE
    /\ state = [h \in Handles |-> -1] /\ reqd = [h \in Handles |-> FALSE]
    /\ bufs = [h \in Handles |-> NONE]
    /\ pc = [h \in Handles |-> "idle"] /\ op = [h \in Handles |-> "s_fmt"]
    /\ want = [h \in Handles |-> NONE]
    /\ order = "DEL" /\ owner = NONE /\ told = NONE
-----------------------------------------------------------------------------
(* Posts.                                                                  *)
OwnerAfter(o, h) == IF o = "START" THEN h ELSE IF o = "STOP" THEN NONE ELSE owner

Deliver(h, o) ==
    /\ order' = o
    /\ owner' = OwnerAfter(o, h)
    /\ told' = IF o = "SET_FMT" THEN fmt ELSE IF o = "DEL" THEN NONE ELSE told

Answered(h, o) == Deliver(h, o)

\* The daemon may still have got it.
Unanswered(h, o) == "unanswered" \notin closed /\ (Deliver(h, o) \/ UNCHANGED orders)

\* A post whose result the ioctl ignores.
Post(h, o) == Answered(h, o) \/ Unanswered(h, o)
-----------------------------------------------------------------------------
Goto(h, from, to) == pc[h] = from /\ pc' = [pc EXCEPT ![h] = to]

\* An ioctl begins.
Enter(h, to) ==
    /\ Goto(h, "idle", to)
    /\ state[h] >= 0
    /\ "overtaken" \in closed => \A g \in Handles : Idle(g)

\* viv_set_modeinfo, called by the daemon: the mode's size is the format.
SetModeinfo(f) ==
    /\ "remode" \in closed => /\ pipeline_status = "INIT"
                              /\ \A h \in Handles : bufs[h] = NONE /\ Idle(h)
    /\ fmt' = f
    /\ UNCHANGED <<pipeline_status, active, handle, orders>>

Open(h) ==
    /\ state[h] = -1
    /\ state' = [state EXCEPT ![h] = 0]
    /\ UNCHANGED <<device, reqd, bufs, pc, op, want, orders>>

(* Mutant: S_FMT while buffers are requested.                              *)
SFmtAlways(h, f) ==
    /\ Enter(h, "fmt")
    /\ pipeline_status # "STREAMON"
    /\ "refit" \in closed => pipeline_status # "STREAMOFF"
    /\ want' = [want EXCEPT ![h] = f]
    /\ UNCHANGED <<device, state, reqd, bufs, op, orders>>

(* vidioc_s_fmt_vid_cap up to the CREATE_PIPELINE of try_fmt.              *)
SFmt(h, f) ==
    /\ Enter(h, "fmt")
    /\ pipeline_status \notin {"REQBUFED", "STREAMON"}
    /\ "refit" \in closed => \A g \in Handles : bufs[g] = NONE
    /\ want' = [want EXCEPT ![h] = f]
    /\ UNCHANGED <<device, state, reqd, bufs, op, orders>>

\* Then the device's format, and the post of SET_COMPOSE.
SetDeviceFmt(h) ==
    /\ Goto(h, "fmt", "event")
    /\ fmt' = want[h] /\ want' = [want EXCEPT ![h] = NONE]
    /\ op' = [op EXCEPT ![h] = "s_fmt"]
    /\ UNCHANGED <<pipeline_status, active, state, reqd, bufs, orders>>
-----------------------------------------------------------------------------
(* viv_post_fmt_event, called by S_FMT and by REQBUFS; neither looks at    *)
(* its result.                                                             *)
AfterEvent(h) == IF op[h] = "s_fmt" THEN "idle" ELSE "alloc"

FmtEvent(h) ==
    /\ Goto(h, "event", IF pipeline_status = "INIT" THEN "new" ELSE "set")
    /\ UNCHANGED <<device, state, reqd, bufs, op, want, orders>>

FmtNew(h) ==
    /\ \/ /\ Goto(h, "new", "set")
          /\ Answered(h, "NEW")
          /\ pipeline_status' = "CREATED"
          /\ state' = [state EXCEPT ![h] = 1]
       \/ /\ Goto(h, "new", AfterEvent(h))
          /\ Unanswered(h, "NEW")
          /\ UNCHANGED <<pipeline_status, state>>
    /\ UNCHANGED <<fmt, active, reqd, bufs, op, want>>

FmtSet(h) ==
    /\ Goto(h, "set", AfterEvent(h))
    /\ \/ Answered(h, "SET_FMT") /\ pipeline_status' = "FMTSETTED"
       \/ Unanswered(h, "SET_FMT") /\ UNCHANGED pipeline_status
    /\ UNCHANGED <<fmt, active, state, reqd, bufs, op, want>>
-----------------------------------------------------------------------------
(* REQBUFS.  Another handle that requested buffers is looked for under     *)
(* file_list_lock, handle->req is set after.                               *)
MayRequest(h) == pipeline_status # "STREAMON" /\ \A g \in Others(h) : ~reqd[g]

Reqbufs(h) ==
    /\ Enter(h, "claim")
    /\ MayRequest(h)
    /\ "alloc_fails" \in closed => fmt # NONE
    /\ "guest" \in closed => state[h] >= 1 \/ pipeline_status = "INIT"
    /\ UNCHANGED <<device, state, reqd, bufs, op, want, orders>>

Claim(h) ==
    /\ Goto(h, "claim", IF pipeline_status \in {"INIT", "CREATED", "STREAMOFF"}
                          THEN "event" ELSE "alloc")
    /\ reqd' = [reqd EXCEPT ![h] = TRUE]
    /\ op' = [op EXCEPT ![h] = "reqbufs"]
    /\ UNCHANGED <<device, state, bufs, want, orders>>

(* vb2_reqbufs frees the old buffers and allocates for the device's        *)
(* format, unless the queue streams.  pipeline_status and handle->req are  *)
(* set whether it succeeds or not.                                         *)
Alloc(h) ==
    /\ Goto(h, "alloc", "idle")
    /\ pipeline_status' = "REQBUFED"
    /\ \E new \in {fmt} \cup (IF "alloc_fails" \in closed THEN {} ELSE {NONE}) :
         bufs' = [bufs EXCEPT ![h] = IF state[h] = 2 THEN @ ELSE new]
    /\ UNCHANGED <<fmt, active, state, reqd, op, want, orders>>

\* REQBUFS of zero leaves pipeline_status alone.
ReqbufsZero(h) ==
    /\ Enter(h, "idle")
    /\ MayRequest(h)
    /\ "freed" \in closed => pipeline_status # "REQBUFED"
    /\ reqd' = [reqd EXCEPT ![h] = FALSE]
    /\ bufs' = [bufs EXCEPT ![h] = IF state[h] = 2 THEN @ ELSE NONE]
    /\ UNCHANGED <<device, state, op, want, orders>>
-----------------------------------------------------------------------------
(* STREAMON: vb2 needs buffers, start_streaming a handle that does not     *)
(* stream; whether another one does is not asked.                          *)
Streamon(h) ==
    /\ Enter(h, "start")
    /\ bufs[h] # NONE /\ state[h] # 2
    /\ state' = [state EXCEPT ![h] = 2]
    /\ active' = TRUE
    /\ UNCHANGED <<pipeline_status, fmt, reqd, bufs, op, want, orders>>

Start(h) ==
    /\ Goto(h, "start", "idle")
    /\ Post(h, "START")
    /\ pipeline_status' = "STREAMON"
    /\ UNCHANGED <<fmt, active, state, reqd, bufs, op, want>>

(* Mutant: the stopped stream keeps its status.                            *)
StreamoffStillOn(h) ==
    /\ Enter(h, "stop")
    /\ state[h] = 2
    /\ state' = [state EXCEPT ![h] = 1]
    /\ UNCHANGED <<device, reqd, bufs, op, want, orders>>

\* STREAMOFF: stop_streaming; the event is posted without waiting.
Streamoff(h) ==
    /\ Enter(h, "stop")
    /\ state[h] = 2
    /\ state' = [state EXCEPT ![h] = 1]
    /\ pipeline_status' = "STREAMOFF"
    /\ UNCHANGED <<fmt, active, reqd, bufs, op, want, orders>>

Stop(h) ==
    /\ Goto(h, "stop", "idle")
    /\ Post(h, "STOP")
    /\ UNCHANGED <<device, state, reqd, bufs, op, want>>
-----------------------------------------------------------------------------
(* video_close.                                                            *)

(* Mutant: the request outlives the handle.                                *)
CloseKeepsReq(h) ==
    /\ Enter(h, IF state[h] = 2 THEN "close_stop" ELSE "close_look")
    /\ "freed" \in closed /\ pipeline_status = "REQBUFED" /\ reqd[h] =>
         \A g \in Others(h) : state[g] < 1
    /\ UNCHANGED <<device, state, reqd, bufs, op, want, orders>>

Close(h) ==
    /\ Enter(h, IF state[h] = 2 THEN "close_stop" ELSE "close_look")
    /\ "freed" \in closed /\ pipeline_status = "REQBUFED" /\ reqd[h] =>
         \A g \in Others(h) : state[g] < 1
    /\ reqd' = [reqd EXCEPT ![h] = FALSE]
    /\ UNCHANGED <<device, state, bufs, op, want, orders>>

(* Mutant: a closing handle posts no STOP.                                 *)
CloseStopSilent(h) ==
    /\ Goto(h, "close_stop", "close_look")
    /\ state' = [state EXCEPT ![h] = 1]
    /\ pipeline_status' = "STREAMOFF"
    /\ UNCHANGED <<fmt, active, reqd, bufs, op, want, orders>>

CloseStop(h) ==
    /\ Goto(h, "close_stop", "close_look")
    /\ Post(h, "STOP")
    /\ state' = [state EXCEPT ![h] = 1]
    /\ pipeline_status' = "STREAMOFF"
    /\ UNCHANGED <<fmt, active, reqd, bufs, op, want>>

(* Mutant: an open handle without the stream counts as a user of it.       *)
CloseLookAnyOpen(h) ==
    /\ Goto(h, "close_look",
            IF state[h] = 1 /\ \A g \in Others(h) : state[g] < 0 THEN "close_del" ELSE "close_end")
    /\ UNCHANGED <<device, state, reqd, bufs, op, want, orders>>

\* The walk over the open handles takes no lock.
CloseLook(h) ==
    /\ Goto(h, "close_look",
            IF state[h] = 1 /\ \A g \in Others(h) : state[g] < 1 THEN "close_del" ELSE "close_end")
    /\ UNCHANGED <<device, state, reqd, bufs, op, want, orders>>

(* Mutant: the deleted stream leaves its status.                           *)
CloseDelKeepsStatus(h) ==
    /\ Goto(h, "close_del", "close_end")
    /\ Post(h, "DEL")
    /\ active' = FALSE
    /\ UNCHANGED <<pipeline_status, fmt, state, reqd, bufs, op, want>>

CloseDel(h) ==
    /\ Goto(h, "close_del", "close_end")
    /\ Post(h, "DEL")
    /\ pipeline_status' = "INIT" /\ active' = FALSE
    /\ UNCHANGED <<fmt, state, reqd, bufs, op, want>>

\* The handle leaves the list and its queue is released.
CloseEnd(h) ==
    /\ Goto(h, "close_end", "idle")
    /\ state' = [state EXCEPT ![h] = -1]
    /\ bufs' = [bufs EXCEPT ![h] = NONE]
    /\ UNCHANGED <<device, reqd, op, want, orders>>
-----------------------------------------------------------------------------
Step(h) ==
    \/ Open(h) \/ SetDeviceFmt(h) \/ (\E f \in Formats : SFmt(h, f))
    \/ FmtEvent(h) \/ FmtNew(h) \/ FmtSet(h)
    \/ Reqbufs(h) \/ Claim(h) \/ Alloc(h) \/ ReqbufsZero(h)
    \/ Streamon(h) \/ Start(h) \/ Streamoff(h) \/ Stop(h)
    \/ Close(h) \/ CloseStop(h) \/ CloseLook(h) \/ CloseDel(h) \/ CloseEnd(h)

Next ==
    /\ (\E h \in Handles : Step(h)) \/ (\E f \in Formats : SetModeinfo(f))
    /\ UNCHANGED closed

Spec == Init /\ [][Next]_vars
-----------------------------------------------------------------------------
Settled == \A h \in Handles : Idle(h)
Streaming == {h \in Handles : state[h] = 2}

(* The daemon gets its orders in the sequence StreamFlow allows: nothing   *)
(* for a stream that does not exist, no START without a format or while    *)
(* another handle's runs, STOP from the handle that started.               *)
Flow == INSTANCE StreamFlow
FlowSpec == Flow!Init /\ [][Shut({"unanswered", "overtaken", "guest"}) => Flow!Next]_<<order, owner>>

(* Between ioctls pipeline_status and active agree with the handles on who *)
(* streams: STREAMON exactly if one handle does, frames let through to it; *)
(* and if its posts are answered the daemon has been started by it and not *)
(* stopped since.                                                          *)
StreamingAgrees ==
    Shut({"overtaken"}) /\ Settled =>
      /\ Cardinality(Streaming) <= 1
      /\ pipeline_status = "STREAMON" <=> Streaming # {}
      /\ \A h \in Streaming :
           active /\ (Shut({"unanswered"}) => order = "START" /\ owner = h)

(* A streaming handle's buffers were allocated for the format the daemon   *)
(* was last told: nothing in vb2 or the driver checks their size later.    *)
BuffersFit ==
    Shut({"unanswered", "overtaken", "guest", "refit", "remode"}) =>
      \A h \in Streaming : bufs[h] = told

(* Between ioctls, a device that refuses formats (REQBUFED) has a handle   *)
(* with buffers: else no application could set a format again before some  *)
(* handle requests buffers.                                                *)
BusyHasBuffers ==
    Shut({"unanswered", "overtaken", "freed", "alloc_fails"}) /\ Settled =>
      (pipeline_status = "REQBUFED" => \E h \in Handles : bufs[h] # NONE)

(* When the last handle is closed the daemon's stream is deleted and the   *)
(* device is as after probe.                                               *)
LastCloseDeletes ==
    Shut({"unanswered", "overtaken"}) /\ (\A h \in Handles : state[h] = -1) =>
      order = "DEL" /\ pipeline_status = "INIT" /\ ~active
=============================================================================

-------------------------------- MODULE Dwe --------------------------------
(***************************************************************************)
(* The dewarper: two subdevices (struct dwe_device) share one engine       *)
(* (struct dwe_devcore).  A frame buffer of the ISP (source) waits in the  *)
(* core's one queue, a buffer of the video device (destination) in its     *)
(* subdevice's queue; the tasklet takes one of each and starts the engine, *)
(* the interrupt handler gives both back.                                  *)
(*                                                                         *)
(* Sources: dwe/dwe_isr.c, dwe/dwe_ioctl.c, v4l2/dwe/dwe_devcore.c,        *)
(* v4l2/dwe/dwe_driver_of.c.                                               *)
(*                                                                         *)
(* The agents: the holder of core->mutex (ioctls of the camera daemon,     *)
(* open, close), per subdevice the video thread (s_stream, queueing of     *)
(* destination buffers) and the ISP's interrupt handler                    *)
(* (dwe_src_buf_notify), the engine's interrupt handler, the tasklet, the  *)
(* engine.  irqlock protects src, dst and index; hardware_status and the   *)
(* subdevices' states are read and written with no lock.                   *)
(***************************************************************************)
EXTENDS Integers, FiniteSets, VvBuf

CONSTANTS NDevs,    \* subdevices in use, at most DEWARP_NODE_NUM
          NSrc,     \* source buffers per subdevice
          NDst,     \* destination buffers per subdevice
          MaxOpen,  \* bound on the open handles of a subdevice
          MaxCore,  \* bound on |core.state|, which close lets drift
          Steady,   \* bound: subdevices whose video stream never stops
          Envs,     \* the environments: the windows each keeps closed
          NULL      \* the null pointer

(***************************************************************************)
(* Interleavings the code lets happen and does not survive unharmed.  An   *)
(* environment keeps some of them closed; a property that needs one closed *)
(* says so with Shut.                                                      *)
(*   torn_state     two threads update `state' at the same time            *)
(*   double_start   two ISP interrupt handlers, or one and a late tasklet, *)
(*                  start the tasklet for one idle engine                  *)
(*   lost_wakeup    a frame arrives after the tasklet found its queue      *)
(*                  empty and before it says so                            *)
(*   unseen_frame   a frame is queued for a subdevice not yet, or no       *)
(*                  longer, active, so that nobody starts the tasklet      *)
(*   idle_in_flight the engine's interrupt is handled while no subdevice   *)
(*                  is active, the frame's buffers not taken back          *)
(*   late_tasklet   the engine is stopped (last DWEIOC_STOP or close) with *)
(*                  the tasklet or an interrupt handler at work            *)
(*   close_started  a subdevice is closed without DWEIOC_STOP              *)
(*   hw_error       the engine reports an error                            *)
(*   early_requeue  user space queues a buffer again after STREAMOFF while *)
(*                  the dewarper still refers to it                        *)
(***************************************************************************)
Windows == {"torn_state", "double_start", "lost_wakeup", "unseen_frame",
            "idle_in_flight", "late_tasklet", "close_started", "hw_error", "early_requeue"}

ASSUME DweAssumption ==
    /\ NDevs \in 1 .. 2
    /\ NSrc \in Nat \ {0} /\ NDst \in Nat \ {0}
    /\ MaxOpen \in Nat \ {0} /\ MaxCore \in Nat \ {0, 1}
    /\ Steady \subseteq 0 .. (NDevs - 1)
    /\ Envs \subseteq SUBSET Windows
    /\ LET pairs == (0 .. 1) \X Nat IN NULL \notin pairs \cup (pairs \X pairs)

Devs == 0 .. (NDevs - 1)             \* MAX_DWE_NUM, DEWARP_NODE_NUM
Flags == {"driver", "stream"}
SrcBufs == Devs \X (1 .. NSrc)
DstBufs == Devs \X (1 .. NDst)
DevOf(b) == b[1]                     \* dwe_core_get_index

VARIABLES
    closed,           \* the windows this behaviour keeps closed
    state,            \* dwe_device.state
    refcnt,           \* dwe_device.refcnt
    core,             \* dwe_devcore.state
    irqOn,            \* is dwe_hw_isr registered?
    lut,              \* is dist_map[d][which] set?
    sink,             \* dwe_ic_dev.sink_bctx
    srcq,             \* dwe_ic_dev.src_bctx[]
    src, dst, index,  \* dwe_ic_dev.src, dst, index
    hardware_status, \* "idle", "busy"
    isp,              \* the source buffers the ISPs hold
    user,             \* the destination buffers the video devices hold
    job,              \* the buffers the engine reads and writes, if it runs
    ris, irqEn,       \* INTERRUPT_STATUS: raised, enabled
    isr,              \* where dwe_hw_isr stands
    tasklet, tpc,     \* is the tasklet scheduled; where it stands
    npc, nbuf,        \* where dwe_src_buf_notify stands, with its buffer
    todo, dreg,       \* the steps left to the holder of core->mutex
    spc, sreg,        \* where dwe_set_stream stands
    made,             \* ghost: the job whose frame end is not handled yet
    oops              \* the kernel fault that ended the behaviour, if any

dev == <<state, refcnt, core, irqOn, lut>>
bufs == <<sink, srcq, src, dst, isp, user>>
hw == <<job, ris, irqEn>>
notify == <<npc, nbuf>>
proc == <<todo, dreg>>
stream == <<spc, sreg>>
vars == <<closed, dev, bufs, index, hardware_status, hw, isr, tasklet, tpc, notify,
          proc, stream, made, oops>>

Shut(W) == W \subseteq closed

Active(d) == state[d] = Flags

\* irqlock is held across the steps of the tasklet only.
Locked == tpc # "idle"

\* The engine has, or is about to have, a frame to work on.
Working == tasklet \/ Locked \/ job # NULL \/ ris # {} \/ isr # "idle"

\* No interrupt handler and no tasklet is at work or about to be.
Quiet == /\ ~tasklet /\ ~Locked /\ isr = "idle"
         /\ \A d \in Devs : npc[d] = "idle"

StepLabels == {"set_driver", "clear_driver", "hw_stop", "clean", "set_idle",
               "zero_state", "flush", "free_irq"}

TypeOK ==
    /\ closed \in Envs
    /\ state \in [Devs -> SUBSET Flags]
    /\ refcnt \in [Devs -> 0 .. MaxOpen]
    /\ core \in -MaxCore .. MaxCore
    /\ irqOn \in BOOLEAN /\ lut \in [Devs -> BOOLEAN]
    /\ sink \in Seq(SrcBufs) /\ srcq \in [Devs -> Seq(DstBufs)]
    /\ src \in SrcBufs \cup {NULL} /\ dst \in DstBufs \cup {NULL}
    /\ index \in Devs
    /\ hardware_status \in {"idle", "busy"}
    /\ isp \in SUBSET SrcBufs /\ user \in SUBSET DstBufs
    /\ job \in (SrcBufs \X DstBufs) \cup {NULL}
    /\ ris \in SUBSET {"done", "error"} /\ irqEn \in BOOLEAN
    /\ isr \in {"idle", "done", "error"}
    /\ tasklet \in BOOLEAN
    /\ tpc \in {"idle", "pull", "dst", "set_idle"}
    /\ npc \in [Devs -> {"idle", "push", "check", "busy"}]
    /\ nbuf \in [Devs -> SrcBufs \cup {NULL}]
    /\ todo \in Seq(StepLabels \X Devs) /\ dreg \in SUBSET Flags
    /\ spc \in [Devs -> {"off", "set", "on", "clear", "flush", "return"}]
    /\ sreg \in [Devs -> SUBSET Flags]
    /\ made \in (SrcBufs \X DstBufs) \cup {NULL}
    /\ oops \in {"none", "null_deref", "double_add"}

\* Both subdevices probed and closed; the ISPs hold their buffers.
Init ==
    /\ closed \in Envs
    /\ state = [d \in Devs |-> IF d \in Steady THEN {"stream"} ELSE {}]
    /\ refcnt = [d \in Devs |-> 0]
    /\ core = 0 /\ irqOn = FALSE /\ lut = [d \in Devs |-> FALSE]
    /\ sink = <<>> /\ srcq = [d \in Devs |-> <<>>]
    /\ src = NULL /\ dst = NULL /\ index = 0
    /\ hardware_status = "idle"
    /\ isp = SrcBufs /\ user = DstBufs
    /\ job = NULL
    /\ ris = {} /\ irqEn = FALSE /\ isr = "idle"
    /\ tasklet = FALSE /\ tpc = "idle"
    /\ npc = [d \in Devs |-> "idle"] /\ nbuf = [d \in Devs |-> NULL]
    /\ todo = <<>> /\ dreg = {}
    /\ spc = [d \in Devs |-> IF d \in Steady THEN "on" ELSE "off"]
    /\ sreg = [d \in Devs |-> {}]
    /\ made = NULL /\ oops = "none"
-----------------------------------------------------------------------------
(* The engine.  An error leaves it running until its bus is disabled.      *)
FrameDone ==
    /\ job # NULL
    /\ job' = NULL
    /\ ris' = ris \cup {"done"}
    /\ made' = job
    /\ UNCHANGED <<dev, bufs, index, hardware_status, irqEn, isr,
                   tasklet, tpc, notify, proc, stream, oops>>

FrameError ==
    /\ "hw_error" \notin closed
    /\ job # NULL
    /\ ris' = ris \cup {"error"}
    /\ UNCHANGED <<dev, bufs, index, hardware_status, job, irqEn,
                   isr, tasklet, tpc, notify, proc, stream, made, oops>>
-----------------------------------------------------------------------------
(* Mutant: the status is not cleared.                                      *)
HwIsrNoAck ==
    /\ irqOn /\ irqEn /\ ris # {} /\ isr = "idle"
    /\ ris' = ris /\ irqEn' = FALSE
    /\ IF \E d \in Devs : Active(d)
         THEN /\ isr' = IF "done" \in ris THEN "done" ELSE "error"
              /\ UNCHANGED hardware_status
         ELSE /\ "idle_in_flight" \notin closed
              /\ hardware_status' = "idle"
              /\ isr' = isr
    /\ UNCHANGED <<dev, bufs, index, job, tasklet, tpc, notify,
                   proc, stream, made, oops>>

(* dwe_hw_isr: clearing the status also disables the interrupt, until the  *)
(* tasklet starts the next frame.  With no active subdevice the engine is  *)
(* only marked idle.                                                       *)
HwIsr ==
    /\ irqOn /\ irqEn /\ ris # {} /\ isr = "idle"
    /\ ris' = {} /\ irqEn' = FALSE
    /\ IF \E d \in Devs : Active(d)
         THEN /\ isr' = IF "done" \in ris THEN "done" ELSE "error"
              /\ UNCHANGED hardware_status
         ELSE /\ "idle_in_flight" \notin closed
              /\ hardware_status' = "idle"
              /\ isr' = isr
    /\ UNCHANGED <<dev, bufs, index, job, tasklet, tpc, notify,
                   proc, stream, made, oops>>

\* Mutant: the tasklet is not scheduled.
IsrDoneNoTasklet ==
    /\ isr = "done" /\ ~Locked
    /\ isr' = "idle"
    /\ isp' = isp \cup ({src} \ {NULL})
    /\ user' = user \cup ({dst} \ {NULL})
    /\ src' = NULL /\ dst' = NULL
    /\ tasklet' = tasklet
    /\ made' = NULL
    /\ UNCHANGED <<dev, sink, srcq, index, hardware_status, hw, tpc, notify,
                   proc, stream, oops>>

\* A finished frame: both buffers go back, the tasklet looks for the next.
IsrDone ==
    /\ isr = "done" /\ ~Locked
    /\ isr' = "idle"
    /\ isp' = isp \cup ({src} \ {NULL})
    /\ user' = user \cup ({dst} \ {NULL})
    /\ src' = NULL /\ dst' = NULL
    /\ tasklet' = TRUE
    /\ made' = NULL
    /\ UNCHANGED <<dev, sink, srcq, index, hardware_status, hw, tpc, notify,
                   proc, stream, oops>>

\* A failed frame: the destination buffer is queued again, and nobody looks
\* for the next frame.
IsrError ==
    /\ isr = "error" /\ ~Locked
    /\ isr' = "idle"
    /\ isp' = isp \cup ({src} \ {NULL})
    /\ IF dst = NULL
         THEN UNCHANGED <<srcq, oops>>
         ELSE IF OnList(srcq[index], dst)
                THEN oops' = "double_add" /\ srcq' = srcq
                ELSE srcq' = [srcq EXCEPT ![index] = PushBuf(@, dst)] /\ oops' = oops
    /\ src' = NULL /\ dst' = NULL
    /\ job' = NULL
    /\ hardware_status' = "idle"
    /\ made' = NULL
    /\ UNCHANGED <<dev, sink, user, index,  ris, irqEn, tasklet,
                   tpc, notify, proc, stream>>
-----------------------------------------------------------------------------
(* dwe_isr_tasklet, with irqlock held to its end; its first act disables   *)
(* the bus.                                                                *)
TaskletStart ==
    /\ tasklet /\ tpc = "idle"
    /\ tasklet' = FALSE /\ tpc' = "pull"
    /\ job' = NULL
    /\ made' = NULL
    /\ UNCHANGED <<dev, bufs, index, hardware_status, ris, irqEn,
                   isr, notify, proc, stream, oops>>

\* The loop goes on as long as dst is null, after a `continue' as well.
\* Leaving it with no source buffer dereferences a null pointer.
Continue(d) ==
    IF d = NULL THEN tpc' = "pull" /\ oops' = oops
                ELSE tpc' = "idle" /\ oops' = "null_deref"

\* Mutant: the buffers of the subdevice are handed back but not unlinked.
WithoutDevKept(d) == sink

\* What the loop over the queue leaves of it, entry by entry.
WithoutDev(d) ==
    LET left[n \in 0 .. Len(sink)] ==
            IF n = 0 THEN <<>>
            ELSE IF DevOf(sink[n]) = d THEN left[n - 1]
                                       ELSE Append(left[n - 1], sink[n])
    IN  left[Len(sink)]

\* The next source buffer; a subdevice that is not active gets it, and all
\* it has in the queue, back.
TaskletPull ==
    /\ tpc = "pull"
    /\ IF ~Pullable(sink)
         THEN /\ src' = NULL /\ tpc' = "set_idle"
              /\ UNCHANGED <<sink, index, isp, oops>>
         ELSE LET b == TryDqbuf(sink)
                  d == DevOf(b) IN
              /\ index' = d
              /\ IF Active(d)
                   THEN /\ src' = b /\ sink' = PullBuf(sink) /\ tpc' = "dst"
                        /\ UNCHANGED <<isp, oops>>
                   ELSE /\ src' = NULL
                        /\ isp' = isp \cup {c \in Entries(sink) : DevOf(c) = d}
                        /\ sink' = WithoutDev(d)
                        /\ Continue(dst)
    /\ UNCHANGED <<dev, srcq, dst, user, hardware_status, hw, isr, tasklet,
                   notify, proc, stream, made>>

\* With a distortion map and a destination buffer the engine is started;
\* without either the source buffer goes back and the loop goes on.
TaskletDst ==
    /\ tpc = "dst"
    /\ IF lut[index] /\ Pullable(srcq[index])
         THEN LET b == TryDqbuf(srcq[index]) IN
              /\ dst' = b
              /\ srcq' = [srcq EXCEPT ![index] = PullBuf(@)]
              /\ job' = <<src, b>>
              /\ irqEn' = TRUE
              /\ made' = NULL
              /\ tpc' = "idle"
              /\ UNCHANGED <<src, isp, ris, oops>>
         ELSE /\ isp' = isp \cup {src}
              /\ src' = NULL
              /\ dst' = IF lut[index] THEN NULL ELSE dst
              /\ Continue(dst')
              /\ UNCHANGED <<srcq, hw, made>>
    /\ UNCHANGED <<dev, sink, user, index, hardware_status, isr, tasklet,
                   notify, proc, stream>>

\* Nothing queued: the engine is idle from here on.
TaskletIdle ==
    /\ tpc = "set_idle"
    /\ tpc' = "idle"
    /\ hardware_status' = "idle"
    /\ UNCHANGED <<dev, bufs, index, hw, isr, tasklet, notify, proc, stream,
                   made, oops>>
-----------------------------------------------------------------------------
(* dwe_src_buf_notify, called by the interrupt handler of the ISP linked   *)
(* to subdevice d: a buffer for a subdevice that does not stream goes      *)
(* straight back; else it is queued, and the tasklet scheduled if the      *)
(* engine was idle.                                                        *)
NotifySrc(b) ==
    /\ b \in isp /\ npc[DevOf(b)] = "idle"
    /\ "stream" \in state[DevOf(b)]
    /\ "unseen_frame" \in closed => Active(DevOf(b))
    /\ isp' = isp \ {b}
    /\ npc' = [npc EXCEPT ![DevOf(b)] = "push"]
    /\ nbuf' = [nbuf EXCEPT ![DevOf(b)] = b]
    /\ UNCHANGED <<dev, sink, srcq, src, dst, user, index, hardware_status, hw,
                   isr, tasklet, tpc, proc, stream, made, oops>>

NotifyPush(d) ==
    /\ npc[d] = "push"
    /\ sink' = PushBuf(sink, nbuf[d])
    /\ npc' = [npc EXCEPT ![d] = "check"]
    /\ nbuf' = [nbuf EXCEPT ![d] = NULL]
    /\ UNCHANGED <<dev, srcq, src, dst, isp, user, index, hardware_status, hw,
                   isr, tasklet, tpc, proc, stream, made, oops>>

NotifyCheck(d) ==
    /\ npc[d] = "check"
    /\ "lost_wakeup" \in closed => tpc # "set_idle"
    /\ "double_start" \in closed => \A e \in Devs : npc[e] # "busy"
    /\ npc' = [npc EXCEPT ![d] = IF hardware_status = "idle" /\ Active(d)
                                   THEN "busy" ELSE "idle"]
    /\ UNCHANGED <<dev, bufs, index, hardware_status, hw, isr, tasklet, tpc,
                   nbuf, proc, stream, made, oops>>

NotifyBusy(d) ==
    /\ npc[d] = "busy"
    /\ npc' = [npc EXCEPT ![d] = "idle"]
    /\ hardware_status' = "busy"
    /\ tasklet' = TRUE
    /\ UNCHANGED <<dev, bufs, index, hw, isr, tpc, nbuf, proc, stream, made,
                   oops>>

\* dwe_dst_buf_notify: user space queues a destination buffer (under
\* buffer_mutex, which VIDIOC_STREAMOFF holds to its end).
InDwe(b) == dst = b \/ OnList(srcq[DevOf(b)], b)

QueueDst(b) ==
    /\ b \in user
    /\ spc[DevOf(b)] \in {"off", "set", "on"}
    /\ "early_requeue" \in closed => ~InDwe(b)
    /\ user' = user \ {b}
    /\ IF OnList(srcq[DevOf(b)], b)
         THEN oops' = "double_add" /\ srcq' = srcq
         ELSE srcq' = [srcq EXCEPT ![DevOf(b)] = PushBuf(@, b)] /\ oops' = oops
    /\ UNCHANGED <<dev, sink, src, dst, isp, index, hardware_status, hw, isr,
                   tasklet, tpc, notify, proc, stream, made>>
-----------------------------------------------------------------------------
(* The holder of core->mutex.                                              *)
Idle == todo = <<>>
Steps(d, labels) == [k \in DOMAIN labels |-> <<labels[k], d>>]

\* The daemon leaves the subdevice's stream alone while it updates `state'.
StateFree(d) == "torn_state" \in closed => spc[d] \notin {"set", "clear"}

\* No frame of the subdevice is being queued.
FramesSeen(d) == "unseen_frame" \in closed => npc[d] = "idle"

\* dwe_open: the first handle of both subdevices clears the interrupts and
\* registers the handler.
Open(d) ==
    /\ Idle /\ refcnt[d] < MaxOpen
    /\ refcnt' = [refcnt EXCEPT ![d] = @ + 1]
    /\ IF \A e \in Devs : refcnt[e] = 0
         THEN irqOn' = TRUE /\ ris' = {} /\ irqEn' = FALSE
         ELSE UNCHANGED <<irqOn, ris, irqEn>>
    /\ UNCHANGED <<state, core, lut, bufs, index, hardware_status, job, isr, tasklet, tpc, notify, proc, stream, made, oops>>

\* DWEIOC_SET_LUT: the daemon passes the address of a map it has allocated.
SetLut(d) ==
    /\ Idle /\ refcnt[d] > 0
    /\ lut' = [lut EXCEPT ![d] = TRUE]
    /\ UNCHANGED <<state, refcnt, core, irqOn, bufs, index, hardware_status, hw,
                   isr, tasklet, tpc, notify, proc, stream, made, oops>>

\* Mutant: a started subdevice is started again.
StartUnchecked(d) ==
    /\ Idle /\ refcnt[d] > 0
    /\ core < MaxCore
    /\ StateFree(d)
    /\ core' = core + 1
    /\ job' = IF core = 0 THEN NULL ELSE job
    /\ todo' = Steps(d, <<"set_driver">>) /\ dreg' = state[d]
    /\ UNCHANGED <<state, refcnt, irqOn, lut, bufs, index, hardware_status,
                   ris, irqEn, isr, tasklet, tpc, notify, stream, made, oops>>

\* DWEIOC_START: the first subdevice resets and enables the engine.
Start(d) ==
    /\ Idle /\ refcnt[d] > 0 /\ "driver" \notin state[d]
    /\ core < MaxCore
    /\ StateFree(d)
    /\ core' = core + 1
    /\ job' = IF core = 0 THEN NULL ELSE job
    /\ todo' = Steps(d, <<"set_driver">>) /\ dreg' = state[d]
    /\ UNCHANGED <<state, refcnt, irqOn, lut, bufs, index, hardware_status,
                   ris, irqEn, isr, tasklet, tpc, notify, stream, made, oops>>

\* DWEIOC_STOP: the last subdevice stops the engine and empties the core.
Stop(d) ==
    /\ Idle /\ refcnt[d] > 0 /\ "driver" \in state[d]
    /\ StateFree(d)
    /\ todo' = Steps(d, <<"clear_driver">>) /\ dreg' = state[d]
    /\ UNCHANGED <<dev, bufs, index, hardware_status, hw, isr, tasklet, tpc,
                   notify, stream, made, oops>>

\* Mutant: the open count is not checked.
CloseUnchecked(d) ==
    /\ Idle
    /\ refcnt' = [refcnt EXCEPT ![d] = @ - 1]
    /\ "close_started" \in closed /\ refcnt[d] = 1 => "driver" \notin state[d]
    /\ todo' = Steps(d,
          (IF refcnt[d] = 1 THEN <<"zero_state", "flush">> ELSE <<>>)
             \o (IF \A e \in Devs : refcnt'[e] = 0
                   THEN <<"hw_stop", "free_irq", "clean">> ELSE <<>>))
    /\ UNCHANGED <<state, core, irqOn, lut, bufs, index, hardware_status, hw,
                   isr, tasklet, tpc, notify, dreg, stream, made, oops>>

\* dwe_close: the last handle of a subdevice zeroes its state and drops its
\* destination buffers, the last handle of both stops the engine.
Close(d) ==
    /\ Idle /\ refcnt[d] > 0
    /\ refcnt' = [refcnt EXCEPT ![d] = @ - 1]
    /\ "close_started" \in closed /\ refcnt[d] = 1 => "driver" \notin state[d]
    /\ todo' = Steps(d,
          (IF refcnt[d] = 1 THEN <<"zero_state", "flush">> ELSE <<>>)
             \o (IF \A e \in Devs : refcnt'[e] = 0
                   THEN <<"hw_stop", "free_irq", "clean">> ELSE <<>>))
    /\ UNCHANGED <<state, core, irqOn, lut, bufs, index, hardware_status, hw,
                   isr, tasklet, tpc, notify, dreg, stream, made, oops>>

At(l) == todo # <<>> /\ Head(todo)[1] = l
Who == Head(todo)[2]

SetDriver ==
    /\ At("set_driver")
    /\ state' = [state EXCEPT ![Who] = dreg \cup {"driver"}]
    /\ todo' = Tail(todo) /\ dreg' = {}
    /\ UNCHANGED <<refcnt, core, irqOn, lut, bufs, index, hardware_status, hw, isr,
                   tasklet, tpc, notify, stream, made, oops>>

ClearDriver ==
    /\ At("clear_driver") /\ FramesSeen(Who)
    /\ core > -MaxCore
    /\ state' = [state EXCEPT ![Who] = dreg \ {"driver"}]
    /\ core' = core - 1
    /\ todo' = IF core = 1 THEN Steps(Who, <<"hw_stop", "clean", "set_idle">>)
                             ELSE <<>>
    /\ dreg' = {}
    /\ UNCHANGED <<refcnt, irqOn, lut, bufs, index, hardware_status, hw, isr,
                   tasklet, tpc, notify, stream, made, oops>>

\* Mutant: the bus stays enabled.
HwStopKeepsBus ==
    /\ At("hw_stop")
    /\ "late_tasklet" \in closed => Quiet
    /\ job' = job /\ ris' = {} /\ irqEn' = FALSE
    /\ made' = NULL
    /\ todo' = Tail(todo)
    /\ UNCHANGED <<dev, bufs, index, hardware_status, isr, tasklet,
                   tpc, notify, dreg, stream, oops>>

\* dwe_stop: the bus and the interrupt are disabled, the status cleared.
HwStop ==
    /\ At("hw_stop")
    /\ "late_tasklet" \in closed => Quiet
    /\ job' = NULL /\ ris' = {} /\ irqEn' = FALSE
    /\ made' = NULL
    /\ todo' = Tail(todo)
    /\ UNCHANGED <<dev, bufs, index, hardware_status, isr, tasklet,
                   tpc, notify, dreg, stream, oops>>

\* Mutant: the source buffer in work is not handed back.
ReclaimedQueueOnly == Entries(sink)
Reclaimed == Entries(sink) \cup ({src} \ {NULL})

\* Mutant: dst keeps the buffer in work.
CleanKeepsDst ==
    /\ At("clean") /\ ~Locked
    /\ "late_tasklet" \in closed => Quiet
    /\ isp' = isp \cup Reclaimed
    /\ sink' = <<>> /\ src' = NULL
    /\ todo' = Tail(todo)
    /\ UNCHANGED <<dev, srcq, dst, user, index, hardware_status, hw, isr, tasklet, tpc,
                   notify, dreg, stream, made, oops>>

\* dwe_clean_src_memory: every source buffer goes back; the destination
\* buffer in work is forgotten.
Clean ==
    /\ At("clean") /\ ~Locked
    /\ "late_tasklet" \in closed => Quiet
    /\ isp' = isp \cup Reclaimed
    /\ sink' = <<>> /\ src' = NULL /\ dst' = NULL
    /\ todo' = Tail(todo)
    /\ UNCHANGED <<dev, srcq, user, index, hardware_status, hw, isr, tasklet, tpc,
                   notify, dreg, stream, made, oops>>

\* Mutant: the engine stays marked busy.
SetIdleForgotten ==
    /\ At("set_idle")
    /\ todo' = Tail(todo)
    /\ UNCHANGED <<dev, bufs, index, hardware_status, hw, isr, tasklet, tpc, notify, dreg,
                   stream, made, oops>>

SetIdle ==
    /\ At("set_idle")
    /\ hardware_status' = "idle"
    /\ todo' = Tail(todo)
    /\ UNCHANGED <<dev, bufs, index, hw, isr, tasklet, tpc, notify, dreg,
                   stream, made, oops>>

\* dwe_close: state = 0.
ZeroState ==
    /\ At("zero_state")
    /\ StateFree(Who) /\ FramesSeen(Who)
    /\ state' = [state EXCEPT ![Who] = {}]
    /\ todo' = Tail(todo)
    /\ UNCHANGED <<refcnt, core, irqOn, lut, bufs, index, hardware_status, hw, isr,
                   tasklet, tpc, notify, dreg, stream, made, oops>>

Flush ==
    /\ At("flush")
    /\ srcq' = [srcq EXCEPT ![Who] = <<>>]
    /\ todo' = Tail(todo)
    /\ UNCHANGED <<dev, sink, src, dst, isp, user, index, hardware_status, hw, isr,
                   tasklet, tpc, notify, dreg, stream, made, oops>>

\* devm_free_irq waits for a running handler; the status is cleared and the
\* core's count forgotten.
FreeIrq ==
    /\ At("free_irq") /\ isr = "idle"
    /\ irqOn' = FALSE /\ ris' = {} /\ irqEn' = FALSE /\ core' = 0
    /\ todo' = Tail(todo)
    /\ UNCHANGED <<state, refcnt, lut, bufs, index, hardware_status, job, isr, tasklet, tpc, notify, dreg, stream, made, oops>>
-----------------------------------------------------------------------------
(* dwe_set_stream, called by the video device: a plain read and write of   *)
(* `state', then the ISP, and on the way down the destination queue is     *)
(* emptied and the video device takes all its buffers back.                *)
SetStream(d) ==
    /\ spc[d] \in {"off", "on"} /\ d \notin Steady
    /\ "torn_state" \in closed /\ todo # <<>> =>
          Head(todo) \notin {<<"set_driver", d>>, <<"clear_driver", d>>}
    /\ spc' = [spc EXCEPT ![d] = IF @ = "off" THEN "set" ELSE "clear"]
    /\ sreg' = [sreg EXCEPT ![d] = state[d]]
    /\ UNCHANGED <<dev, bufs, index, hardware_status, hw, isr, tasklet, tpc, notify,
                   proc, made, oops>>

StreamWrite(d) ==
    /\ spc[d] \in {"set", "clear"} /\ FramesSeen(d)
    /\ state' = [state EXCEPT ![d] = IF spc[d] = "set" THEN sreg[d] \cup {"stream"}
                                                      ELSE sreg[d] \ {"stream"}]
    /\ spc' = [spc EXCEPT ![d] = IF @ = "set" THEN "on" ELSE "flush"]
    /\ sreg' = [sreg EXCEPT ![d] = {}]
    /\ UNCHANGED <<refcnt, core, irqOn, lut, bufs, index, hardware_status, hw, isr,
                   tasklet, tpc, notify, proc, made, oops>>

StreamFlush(d) ==
    /\ spc[d] = "flush"
    /\ srcq' = [srcq EXCEPT ![d] = <<>>]
    /\ spc' = [spc EXCEPT ![d] = "return"]
    /\ UNCHANGED <<dev, sink, src, dst, isp, user, index, hardware_status, hw, isr,
                   tasklet, tpc, notify, proc, sreg, made, oops>>

\* stop_streaming of the video device.
ReturnAll(d) ==
    /\ spc[d] = "return"
    /\ user' = user \cup {b \in DstBufs : DevOf(b) = d}
    /\ spc' = [spc EXCEPT ![d] = "off"]
    /\ UNCHANGED <<dev, sink, srcq, src, dst, isp, index, hardware_status, hw, isr,
                   tasklet, tpc, notify, proc, sreg, made, oops>>
-----------------------------------------------------------------------------
IsrStep == HwIsr \/ IsrDone \/ IsrError
TaskletStep == TaskletStart \/ TaskletPull \/ TaskletDst \/ TaskletIdle
NotifyStep(d) == NotifyPush(d) \/ NotifyCheck(d) \/ NotifyBusy(d)
Ioctl(d) == \/ Open(d) \/ Close(d) \/ Start(d) \/ Stop(d)
            \/ SetLut(d)
IoctlStep == \/ SetDriver \/ ClearDriver \/ HwStop \/ Clean \/ SetIdle
             \/ ZeroState \/ Flush \/ FreeIrq
StreamStep(d) == StreamWrite(d) \/ StreamFlush(d) \/ ReturnAll(d)

\* A kernel fault ends the behaviour.
Next == /\ oops = "none"
        /\ UNCHANGED closed
        /\ \/ FrameDone \/ FrameError \/ IsrStep \/ TaskletStep \/ IoctlStep
           \/ \E d \in Devs : \/ NotifyStep(d) \/ Ioctl(d) \/ SetStream(d) \/ StreamStep(d)
           \/ \E b \in SrcBufs : NotifySrc(b)
           \/ \E b \in DstBufs : QueueDst(b)

Spec == Init /\ [][Next]_vars
-----------------------------------------------------------------------------
(* Safety.  The windows a property needs closed are the ones that break it *)
(* when they are opened.                                                   *)

\* A source buffer is in one place only: with the ISP, on its way in, queued
\* once, or in work.
SrcOneOwner ==
    /\ Distinct(sink)
    /\ \A b \in SrcBufs :
          Cardinality({p \in {"isp", "way", "sink", "src"} :
              \/ p = "isp" /\ b \in isp
              \/ p = "way" /\ nbuf[DevOf(b)] = b
              \/ p = "sink" /\ OnList(sink, b)
              \/ p = "src" /\ src = b}) <= 1

\* No source buffer is forgotten: dwe_isr_tasklet overwrites src without
\* looking at it.
SrcNoLeak ==
    Shut({"torn_state", "double_start", "idle_in_flight", "late_tasklet"}) =>
        \A b \in SrcBufs : \/ b \in isp \/ OnList(sink, b) \/ src = b
                           \/ nbuf[DevOf(b)] = b

\* A destination buffer is queued once, or in work.
DstOneRole ==
    Shut({"early_requeue"}) =>
        \A d \in Devs : /\ Distinct(srcq[d])
                        /\ dst # NULL => ~OnList(srcq[d], dst)

\* Every buffer has one role at a time, for every timing but a STREAMOFF that
\* gives user space the destination in work, which it queues again.
OneRole == SrcOneOwner /\ DstOneRole

\* The tasklet meets no null pointer, no list entry is linked twice.
NoFault ==
    Shut({"torn_state", "double_start", "idle_in_flight", "late_tasklet",
          "early_requeue"}) => oops = "none"

\* core.state counts the started subdevices: the last DWEIOC_STOP, and no
\* earlier one, stops the engine.
CoreCounts ==
    Shut({"torn_state", "close_started"}) /\ Idle =>
        core = Cardinality({d \in Devs : "driver" \in state[d]})

\* The engine is marked busy only while something will mark it idle again;
\* otherwise dwe_src_buf_notify never schedules the tasklet any more.
BusyIsWorking ==
    Shut({"torn_state", "idle_in_flight", "close_started"})
        /\ hardware_status = "busy" /\ irqOn /\ Idle /\ oops = "none"
      => Working

\* The engine writes only to the destination buffer in work.
HwTarget ==
    Shut({"torn_state", "double_start", "late_tasklet", "hw_error"}) /\ job # NULL =>
        job = <<src, dst>>

\* A destination buffer the interrupt handler delivers holds the whole
\* frame of the source buffer in work, and the two are of one subdevice.
DeliversFinishedFrame ==
    [][Shut({"torn_state", "double_start", "late_tasklet", "hw_error"})
          /\ isr = "done" /\ isr' = "idle" /\ dst # NULL =>
        made = <<src, dst>> /\ DevOf(src) = DevOf(dst)]_vars
-----------------------------------------------------------------------------
(* Liveness.  The engine finishes its frames, and whoever has begun        *)
(* something goes on; when frames arrive, buffers are queued and ioctls    *)
(* are issued is left open.                                                *)
On == oops = "none" /\ UNCHANGED closed

Fairness ==
    /\ WF_vars(On /\ FrameDone) /\ WF_vars(On /\ IsrStep)
    /\ WF_vars(On /\ TaskletStep) /\ WF_vars(On /\ IoctlStep)
    /\ \A d \in Devs : WF_vars(On /\ NotifyStep(d)) /\ WF_vars(On /\ StreamStep(d))

FairSpec == Spec /\ Fairness

\* Every frame queued for a subdevice that is and stays active leaves the
\* queue, even if no other one follows it: the engine's idle flag and the
\* tasklet leave no frame behind.
NoStarvation ==
    \A b \in SrcBufs :
        /\ Shut({"torn_state", "lost_wakeup", "unseen_frame", "idle_in_flight",
                 "close_started", "hw_error", "early_requeue"})
        /\ OnList(sink, b)
        ~> ~OnList(sink, b) \/ ~Active(DevOf(b)) \/ ~irqOn
=============================================================================

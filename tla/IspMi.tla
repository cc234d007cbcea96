------------------------------- MODULE IspMi -------------------------------
(***************************************************************************)
(* The memory interface (MI) of the ISP driver: how frame buffers move     *)
(* from the driver's queue to the hardware and on to the next entity.      *)
(*                                                                         *)
(* Sources: isp/isp_isr.c (interrupt, tasklet, clean-up), isp/isp_miv1.c   *)
(* (start and stop), v4l2/isp/isp_driver_of.c (open, close, s_stream, the  *)
(* notify callback), the ISPIOC_MI_START, MI_STOP, RESET and SET_BUFFER    *)
(* cases of isp/isp_ioctl.c.                                               *)
(*                                                                         *)
(* Four agents run concurrently: the thread holding isp_device.mlock (an   *)
(* ioctl of the camera daemon, or open and close), the thread that calls   *)
(* s_stream and queues buffers (the video device), the interrupt handler   *)
(* with its tasklet, and the hardware.  dev->lock serialises               *)
(* update_dma_buffer, isr_process_frame and, when the ISP feeds the        *)
(* dewarper, clean_dma_buffer; nothing protects `state', and               *)
(* clean_dma_buffer takes no dev->lock when the ISP feeds the video        *)
(* device.                                                                 *)
(***************************************************************************)
EXTENDS Naturals, FiniteSets, VvBuf

CONSTANTS Bufs,     \* the buffers (struct vb2_dc_buf)
          NPaths,   \* MI_PATH_NUM
          MaxOpen,  \* bound on the open file handles of the subdevice
          Envs,     \* the environments considered
          NULL      \* the null pointer

(***************************************************************************)
(* Interleavings the code lets happen and does not survive unharmed.  An   *)
(* environment keeps some of them closed; a property that needs one closed *)
(* says so with Shut.                                                      *)
(*   slow_frame     a frame ends before the buffer of the next one is      *)
(*                  programmed: the previous frame end is not handled yet, *)
(*                  or isp_mi_start is between its two updates             *)
(*   dirty_start    MI_START on a memory interface that still runs, or     *)
(*                  still has a frame end to handle                        *)
(*   dirty_stop     the paths are stopped with a frame end to handle       *)
(*   torn_state     two threads update `state' at the same time            *)
(*   two_paths      main and self path are enabled at the same time        *)
(*   empty_start    MI_START with fewer buffers than enabled paths, or     *)
(*                  with a layout config_dma_buf refuses                   *)
(*   early_requeue  user space queues a buffer again after STREAMOFF while *)
(*                  the ISP still refers to it                             *)
(*   late_push      the last handle is closed while isp_buf_notify stands  *)
(*                  between its test of refcnt and its push                *)
(***************************************************************************)
Windows == {"slow_frame", "dirty_start", "dirty_stop", "torn_state",
            "two_paths", "empty_start", "early_requeue", "late_push"}

ASSUME IspMiAssumption ==
    /\ NPaths \in Nat \ {0}
    /\ MaxOpen \in Nat \ {0}
    /\ NULL \notin Bufs
    /\ Envs \subseteq [link : {"video", "dewarper"}, closed : SUBSET Windows]

Paths == 0 .. (NPaths - 1)
Flags == {"driver", "stream"}       \* STATE_DRIVER_STARTED, STATE_STREAM_STARTED
PathConfig == {"off", "on", "bad"}  \* "bad": enabled, config_dma_buf fails
BufOrNull == Bufs \cup {NULL}

VARIABLES
    env,         \* what the source pad feeds, and the windows kept closed
    state,       \* isp_device.state: the flags set
    refcnt,      \* isp_device.refcnt
    irqOn,       \* is isp_hw_isr registered?
    path,        \* dev->mi.path[]: the configuration of each path
    dmaqueue,    \* dev->bctx->dmaqueue
    mi_buf,      \* dev->mi_buf[]: programmed for the next frame
    mi_buf_shd,  \* dev->mi_buf_shd[]: being filled
    remote,      \* the buffers the entity at the other end of the link holds
    fresh,       \* the buffers not allocated (link to the dewarper only)
    imsc,        \* mi_imsc: the paths whose frame-end interrupt is enabled
    ris,         \* raw status: the paths with a frame end not cleared
    hwOn,        \* the paths enabled in the hardware
    hwInit,      \* mi_*_base_ad_init: the address programmed
    hwCur,       \* its shadow: the address being written
    tasklet,     \* is the tasklet scheduled?
    isr,         \* where isp_hw_isr stands
    lock,        \* who holds dev->lock
    i,           \* the loop index of the lock's holder
    todo,        \* the steps left to the holder of mlock
    dreg,        \* its register: the value of state it read
    spc, sreg,   \* where s_stream stands, and its register
    pushing,     \* the buffers isp_buf_notify is about to push
    filled,      \* ghost: the buffers a whole frame was written to
    oops         \* the kernel fault that ended the behaviour, if any

dev == <<state, refcnt, irqOn, path>>
bufs == <<dmaqueue, mi_buf, mi_buf_shd, remote, fresh>>
hw == <<imsc, ris, hwOn, hwInit, hwCur>>
irq == <<tasklet, isr, lock, i>>
proc == <<todo, dreg>>
stream == <<spc, sreg, pushing>>
vars == <<env, dev, bufs, hw, irq, proc, stream, filled, oops>>

ToVideo == env.link = "video"
Closed == env.closed
Shut(W) == W \subseteq Closed
-----------------------------------------------------------------------------
(* The steps of an ioctl are a sequence of labels, taken from the head.    *)
\* Mutant: the hardware is started before its first buffer is programmed.
StartStepsEarly == <<"set_driver", "cfg_upd", "update", "update">>

StartSteps == <<"set_driver", "update", "cfg_upd", "update">>
StopSteps == <<"mi_off">>
\* Mutants of isp_close: no clean_dma_buffer at the end; clean_dma_buffer
\* while the stream still runs.
CloseStepsNoClean ==
    (IF "driver" \in state THEN StopSteps ELSE <<>>)
        \o <<"stopped", "free_irq">> \o StopSteps
CloseStepsEarlyClean ==
    <<"clean", "stopped", "free_irq">> \o StopSteps \o <<"clean">>

CloseSteps ==
    (IF "driver" \in state THEN StopSteps ELSE <<>>)
        \o <<"stopped", "free_irq">> \o StopSteps \o <<"clean">>

StepLabels == {"set_driver", "update", "cfg_upd", "mi_off",
               "clear_driver", "clean", "clean_queue", "stopped", "free_irq"}

InIsp(b) == \/ OnList(dmaqueue, b)
            \/ \E p \in Paths : b \in {mi_buf[p], mi_buf_shd[p]}

\* A frame end is not yet handled in full: latched, in the interrupt
\* handler, or waiting for its tasklet.
FramePending == ris # {} \/ isr # "idle" \/ tasklet \/ lock = "tasklet"

\* update_dma_buffer is yet to program the buffer of the next frame.
UpdatePending == \/ lock = "ioctl"
                 \/ todo # <<>> /\ Head(todo) = "update"

Enabled(p) == path[p] # "off"

EnoughBuffers(cfg) ==
    /\ \A p \in Paths : cfg[p] # "bad"
    /\ Len(dmaqueue) >= Cardinality({p \in Paths : cfg[p] = "on"})

TypeOK ==
    /\ env \in Envs
    /\ state \in SUBSET Flags
    /\ refcnt \in 0 .. MaxOpen
    /\ irqOn \in BOOLEAN
    /\ path \in [Paths -> PathConfig]
    /\ dmaqueue \in Seq(Bufs)
    /\ mi_buf \in [Paths -> BufOrNull]
    /\ mi_buf_shd \in [Paths -> BufOrNull]
    /\ remote \in SUBSET Bufs
    /\ fresh \in SUBSET Bufs
    /\ imsc \in SUBSET Paths
    /\ ris \in SUBSET Paths
    /\ hwOn \in SUBSET Paths
    /\ hwInit \in [Paths -> BufOrNull]
    /\ hwCur \in [Paths -> BufOrNull]
    /\ tasklet \in BOOLEAN
    /\ isr \in {"idle", "frame", "loop", "deliver"}
    /\ lock \in {"free", "isr", "tasklet", "ioctl"}
    /\ i \in Paths
    /\ todo \in Seq(StepLabels)
    /\ dreg \in SUBSET Flags
    /\ spc \in {"idle", "set", "clear", "return"}
    /\ sreg \in SUBSET Flags
    /\ pushing \in SUBSET remote
    /\ filled \in SUBSET Bufs
    /\ oops \in {"none", "double_add", "null_deref"}

\* A probed, closed device.  The video device's buffers are its own; with
\* the dewarper none is allocated yet.
Init ==
    /\ env \in Envs
    /\ state = {} /\ refcnt = 0 /\ irqOn = FALSE
    /\ path = [p \in Paths |-> "off"]
    /\ dmaqueue = <<>>
    /\ mi_buf = [p \in Paths |-> NULL]
    /\ mi_buf_shd = [p \in Paths |-> NULL]
    /\ remote = IF ToVideo THEN Bufs ELSE {}
    /\ fresh = IF ToVideo THEN {} ELSE Bufs
    /\ imsc = {} /\ ris = {} /\ hwOn = {}
    /\ hwInit = [p \in Paths |-> NULL]
    /\ hwCur = [p \in Paths |-> NULL]
    /\ tasklet = FALSE /\ isr = "idle" /\ lock = "free" /\ i = 0
    /\ todo = <<>> /\ dreg = {}
    /\ spc = "idle" /\ sreg = {} /\ pushing = {}
    /\ filled = {} /\ oops = "none"
-----------------------------------------------------------------------------
(* The hardware.  At the end of a frame the shadow registers are loaded    *)
(* and the raw interrupt is latched whether or not it is enabled.          *)
FrameEnd(p) ==
    /\ p \in hwOn
    /\ ris' = ris \cup {p}
    /\ hwCur' = [hwCur EXCEPT ![p] = hwInit[p]]
    /\ filled' = filled \cup ({hwCur[p]} \ {NULL})
    /\ "slow_frame" \in Closed => ~FramePending /\ ~UpdatePending
    /\ UNCHANGED <<imsc, hwOn, hwInit, dev, bufs, irq, proc, stream, oops>>
-----------------------------------------------------------------------------
(* isp_hw_isr: read and clear the masked status; only a fully started      *)
(* stream goes on to isr_process_frame.                                    *)
HwIsr ==
    /\ irqOn /\ isr = "idle"
    /\ ris \cap imsc # {}
    /\ ris' = ris \ imsc
    /\ isr' = IF state = Flags THEN "frame" ELSE "idle"
    /\ UNCHANGED <<dev, bufs, imsc, hwOn, hwInit, hwCur, tasklet, lock, i,
                   proc, stream, filled, oops>>

\* isr_process_frame: dev->lock is taken.
IsrLock ==
    /\ isr = "frame" /\ lock = "free"
    /\ isr' = "loop" /\ lock' = "isr" /\ i' = 0
    /\ UNCHANGED <<dev, bufs, hw, tasklet, proc, stream, filled, oops>>

\* Mutant: the tasklet is not scheduled.
IsrNextPathNoTasklet ==
    IF i + 1 < NPaths
      THEN i' = i + 1 /\ isr' = "loop" /\ UNCHANGED <<lock, tasklet>>
      ELSE i' = 0 /\ isr' = "idle" /\ lock' = "free" /\ UNCHANGED tasklet

\* The end of an iteration; after the last one the lock is released and
\* isr_process_frame schedules the tasklet.
IsrNextPath ==
    IF i + 1 < NPaths
      THEN i' = i + 1 /\ isr' = "loop" /\ UNCHANGED <<lock, tasklet>>
      ELSE i' = 0 /\ isr' = "idle" /\ lock' = "free" /\ tasklet' = TRUE

\* The loop's test of path i.
IsrTest ==
    /\ isr = "loop"
    /\ IF Enabled(i) /\ mi_buf_shd[i] # NULL
         THEN isr' = "deliver" /\ UNCHANGED <<lock, tasklet, i>>
         ELSE IsrNextPath
    /\ UNCHANGED <<dev, bufs, hw, proc, stream, filled, oops>>

\* Mutant: the pointer is not cleared after vvbuf_ready.
IsrDeliverKeeps ==
    /\ isr = "deliver" /\ mi_buf_shd[i] # NULL
    /\ remote' = remote \cup {mi_buf_shd[i]}
    /\ IsrNextPath
    /\ UNCHANGED <<dev, hw, proc, stream, filled, dmaqueue, mi_buf, mi_buf_shd,
                   fresh, oops>>

\* The loop's body: the pointer is read again, the buffer handed over with
\* vvbuf_ready and the pointer cleared.
IsrDeliver ==
    /\ isr = "deliver"
    /\ IF mi_buf_shd[i] = NULL
         THEN oops' = "null_deref" /\ UNCHANGED <<bufs, irq>>
         ELSE /\ remote' = remote \cup {mi_buf_shd[i]}
              /\ mi_buf_shd' = [mi_buf_shd EXCEPT ![i] = NULL]
              /\ IsrNextPath
              /\ UNCHANGED <<dmaqueue, mi_buf, fresh, oops>>
    /\ UNCHANGED <<dev, hw, proc, stream, filled>>

\* isp_isr_tasklet enters update_dma_buffer.
Tasklet ==
    /\ tasklet /\ lock = "free"
    /\ tasklet' = FALSE /\ lock' = "tasklet" /\ i' = 0
    /\ UNCHANGED <<dev, bufs, hw, isr, proc, stream, filled, oops>>

\* Mutant: the two pointers assigned in the wrong order.
ShiftSwapped(b) ==
    /\ mi_buf' = [mi_buf EXCEPT ![i] = b]
    /\ mi_buf_shd' = [mi_buf_shd EXCEPT ![i] = b]

\* The buffer programmed last is the one being filled, b the next one.
Shift(b) ==
    /\ mi_buf_shd' = [mi_buf_shd EXCEPT ![i] = mi_buf[i]]
    /\ mi_buf' = [mi_buf EXCEPT ![i] = b]

\* After the last path the lock is released.
UpdateNextPath ==
    IF i + 1 < NPaths THEN i' = i + 1 /\ lock' = lock
                      ELSE i' = 0 /\ lock' = "free"

(* One iteration of update_dma_buffer under dev->lock, for path i: pull a  *)
(* buffer, program its address, shift the pointers.  A buffer whose layout *)
(* config_dma_buf refuses goes back to the tail of the queue.              *)
UpdatePath ==
    /\ lock \in {"tasklet", "ioctl"}
    /\ IF Enabled(i) /\ Pullable(dmaqueue)
         THEN LET b == TryDqbuf(dmaqueue) IN
              IF path[i] = "bad"
                THEN /\ dmaqueue' = PushBuf(PullBuf(dmaqueue), b)
                     /\ UNCHANGED <<hwInit, mi_buf, mi_buf_shd, filled>>
                ELSE /\ dmaqueue' = PullBuf(dmaqueue)
                     /\ hwInit' = [hwInit EXCEPT ![i] = b]
                     /\ Shift(b)
                     /\ filled' = filled \ {b}
         ELSE UNCHANGED <<dmaqueue, hwInit, mi_buf, mi_buf_shd, filled>>
    /\ UpdateNextPath
    /\ UNCHANGED <<dev, remote, fresh, imsc, ris, hwOn, hwCur, tasklet, isr,
                   proc, stream, oops>>
-----------------------------------------------------------------------------
(* The holder of mlock.  An ioctl needs an open handle.                    *)
Idle == todo = <<>> /\ lock # "ioctl"

\* ISPIOC_MI_START: dev->mi is overwritten, isp_mi_start begins.
MiStart ==
    /\ Idle /\ refcnt > 0
    /\ "dirty_start" \in Closed =>
          ~FramePending /\ hwOn = {} /\ "driver" \notin state
    /\ "torn_state" \in Closed => spc \notin {"set", "clear"}
    /\ \E cfg \in [Paths -> PathConfig] :
          /\ "two_paths" \in Closed =>
                \A p, q \in Paths : cfg[p] # "off" /\ cfg[q] # "off" => p = q
          /\ "empty_start" \in Closed => EnoughBuffers(cfg)
          /\ path' = cfg
    /\ todo' = StartSteps
    /\ dreg' = state
    /\ UNCHANGED <<state, refcnt, irqOn, bufs, hw, irq, stream, filled, oops>>

\* ISPIOC_MI_STOP and ISPIOC_RESET: isp_stop_stream and isp_reset, which the
\* second one calls after isp_mi_stop, leave the memory interface alone.
MiStop ==
    /\ Idle /\ refcnt > 0
    /\ todo' = StopSteps
    /\ UNCHANGED <<dev, bufs, hw, irq, dreg, stream, filled, oops>>

\* ISPIOC_SET_BUFFER: isp_buf_alloc, a no-op when the link is to the video
\* device.
SetBuffer(b) ==
    /\ Idle /\ refcnt > 0
    /\ ~ToVideo /\ b \in fresh
    /\ fresh' = fresh \ {b}
    /\ dmaqueue' = PushBuf(dmaqueue, b)
    /\ UNCHANGED <<dev, mi_buf, mi_buf_shd, remote, hw, irq, proc, stream, filled, oops>>

\* isp_open: the first handle registers the interrupt handler.
\* isp_clear_interrupts, here and in isp_close, clears what mi_imsc lets
\* through, and mi_imsc is 0: a latched frame end survives it.
Open ==
    /\ Idle /\ refcnt < MaxOpen
    /\ refcnt' = refcnt + 1
    /\ irqOn' = TRUE
    /\ UNCHANGED <<state, path, bufs, hw, irq, proc, stream, filled, oops>>

\* Mutant: the open count is not checked.
CloseUnchecked ==
    /\ Idle
    /\ "late_push" \in Closed /\ refcnt = 1 => pushing = {}
    /\ refcnt' = refcnt - 1
    /\ todo' = IF refcnt = 1 THEN CloseSteps ELSE <<>>
    /\ UNCHANGED <<state, irqOn, path, bufs, hw, irq, dreg, stream, filled, oops>>

\* isp_close: the last handle stops everything.
Close ==
    /\ Idle /\ refcnt > 0
    /\ "late_push" \in Closed /\ refcnt = 1 => pushing = {}
    /\ refcnt' = refcnt - 1
    /\ todo' = IF refcnt = 1 THEN CloseSteps ELSE <<>>
    /\ UNCHANGED <<state, irqOn, path, bufs, hw, irq, dreg, stream, filled, oops>>

\* The next step is l, and dev->lock is not held by this thread.
At(l) == todo # <<>> /\ Head(todo) = l /\ lock # "ioctl"

\* isp_mi_start: state |= STATE_DRIVER_STARTED (a plain read and write),
\* then mi_ctrl and mi_imsc.
SetDriver ==
    /\ At("set_driver")
    /\ state' = dreg \cup {"driver"}
    /\ imsc' = {p \in Paths : Enabled(p)}
    /\ todo' = Tail(todo) /\ dreg' = {}
    /\ UNCHANGED <<refcnt, irqOn, path, bufs, ris, hwOn, hwInit, hwCur, irq,
                   stream, filled, oops>>

\* update_dma_buffer called from isp_mi_start: the first frame's buffer,
\* and after CFG_UPD the next one's.
UpdateCall ==
    /\ At("update") /\ lock = "free"
    /\ lock' = "ioctl" /\ i' = 0
    /\ todo' = Tail(todo)
    /\ UNCHANGED <<dev, bufs, hw, tasklet, isr, dreg, stream, filled, oops>>

\* Mutant: CFG_UPD is left out, the shadow registers keep what they had.
CfgUpdNoReload ==
    /\ At("cfg_upd")
    /\ hwOn' = {p \in Paths : Enabled(p)}
    /\ todo' = Tail(todo)
    /\ UNCHANGED <<dev, bufs, imsc, ris, hwInit, hwCur, irq, dreg, stream, filled, oops>>

\* isp_mi_start writes mi_init with CFG_UPD: the shadow registers load, the
\* paths run.
CfgUpd ==
    /\ At("cfg_upd")
    /\ hwCur' = hwInit
    /\ hwOn' = {p \in Paths : Enabled(p)}
    /\ todo' = Tail(todo)
    /\ UNCHANGED <<dev, bufs, imsc, ris, hwInit, irq, dreg, stream, filled, oops>>

\* isp_mi_stop: mi_imsc is cleared, the paths are disabled, CFG_UPD; the
\* rest only runs on a started driver.  A frame end latched before stays
\* latched: nothing writes mi_icr here.
MiOff ==
    /\ At("mi_off")
    /\ "dirty_stop" \in Closed => ~FramePending
    /\ "torn_state" \in Closed => spc \notin {"set", "clear"}
    /\ imsc' = {}
    /\ hwOn' = {}
    /\ hwCur' = [p \in Paths |-> NULL]
    /\ IF "driver" \in state
         THEN todo' = <<"clear_driver", "clean">> \o Tail(todo) /\ dreg' = state
         ELSE todo' = Tail(todo) /\ dreg' = dreg
    /\ UNCHANGED <<dev, bufs, ris, hwInit, irq, stream, filled, oops>>

\* state &= ~STATE_DRIVER_STARTED.
ClearDriver ==
    /\ At("clear_driver")
    /\ state' = dreg \ {"driver"}
    /\ todo' = Tail(todo) /\ dreg' = {}
    /\ UNCHANGED <<refcnt, irqOn, path, bufs, hw, irq, stream, filled, oops>>

\* Mutant: the pointers of a path are not reset.
ResetForgotten(arr) == arr

\* clean_dma_buffer clears the pointers of every path ...
Reset(arr) == [p \in Paths |-> NULL]

\* Mutant: only what is queued is freed.
FreedQueueOnly == Entries(dmaqueue)

\* ... and frees the buffers they and the queue held.
Freed == {b \in Bufs : InIsp(b)}

(* clean_dma_buffer.  Linked to the video device it clears the pointers    *)
(* without dev->lock (of all paths at once here) and then empties the      *)
(* queue; linked to the dewarper it frees every buffer under dev->lock.    *)
CleanVideo ==
    /\ At("clean") /\ ToVideo
    /\ mi_buf' = Reset(mi_buf) /\ mi_buf_shd' = Reset(mi_buf_shd)
    /\ todo' = <<"clean_queue">> \o Tail(todo)
    /\ UNCHANGED <<dev, dmaqueue, remote, fresh, hw, irq, dreg, stream, filled, oops>>

\* The pointers are reset between update_dma_buffer's read of mi_buf and its
\* writes, which win.
CleanVideoRaced ==
    /\ At("clean") /\ ToVideo /\ lock = "tasklet"
    /\ path[i] = "on" /\ Pullable(dmaqueue)
    /\ LET b == TryDqbuf(dmaqueue) IN
         /\ dmaqueue' = PullBuf(dmaqueue)
         /\ hwInit' = [hwInit EXCEPT ![i] = b]
         /\ mi_buf' = [p \in Paths |-> IF p = i THEN b ELSE NULL]
         /\ mi_buf_shd' = [p \in Paths |-> IF p = i THEN mi_buf[p] ELSE NULL]
         /\ filled' = filled \ {b}
    /\ UpdateNextPath
    /\ todo' = <<"clean_queue">> \o Tail(todo)
    /\ UNCHANGED <<dev, remote, fresh, imsc, ris, hwOn, hwCur, tasklet, isr,
                   dreg, stream, oops>>

CleanQueue ==
    /\ At("clean_queue") /\ ToVideo
    /\ dmaqueue' = <<>>
    /\ todo' = Tail(todo)
    /\ UNCHANGED <<dev, mi_buf, mi_buf_shd, remote, fresh, hw, irq, dreg, stream, filled, oops>>

\* Mutant: dev->lock is not taken.
CleanDweUnlocked ==
    /\ At("clean") /\ ~ToVideo
    /\ fresh' = fresh \cup Freed
    /\ dmaqueue' = <<>>
    /\ mi_buf' = Reset(mi_buf) /\ mi_buf_shd' = Reset(mi_buf_shd)
    /\ todo' = Tail(todo)
    /\ UNCHANGED <<dev, remote, hw, irq, dreg, stream, filled, oops>>

CleanDwe ==
    /\ At("clean") /\ ~ToVideo /\ lock = "free"
    /\ fresh' = fresh \cup Freed
    /\ dmaqueue' = <<>>
    /\ mi_buf' = Reset(mi_buf) /\ mi_buf_shd' = Reset(mi_buf_shd)
    /\ todo' = Tail(todo)
    /\ UNCHANGED <<dev, remote, hw, irq, dreg, stream, filled, oops>>

\* isp_close: state = STATE_STOPPED.
Stopped ==
    /\ At("stopped")
    /\ "torn_state" \in Closed => spc \notin {"set", "clear"}
    /\ state' = {}
    /\ todo' = Tail(todo)
    /\ UNCHANGED <<refcnt, irqOn, path, bufs, hw, irq, dreg, stream, filled, oops>>

\* devm_free_irq waits for a running handler.
FreeIrq ==
    /\ At("free_irq") /\ isr = "idle"
    /\ irqOn' = FALSE
    /\ todo' = Tail(todo)
    /\ UNCHANGED <<state, refcnt, path, bufs, hw, irq, dreg, stream, filled, oops>>
-----------------------------------------------------------------------------
(* The other end of the link.                                              *)

\* isp_buf_notify: a buffer comes (back) from the remote end.  With no open
\* handle it is freed: a dewarper's buffer for real, a video buffer (whose
\* flags are 0) not, so that it stays queued for nobody.  With one it is
\* pushed, in a step of its own: neither mlock nor dev->lock is held from the
\* test of refcnt to the push.  A video buffer is queued before or under
\* buffer_mutex, which VIDIOC_STREAMOFF holds to its end.
Notify(b) ==
    /\ b \in remote \ pushing
    /\ ToVideo => spc \notin {"clear", "return"}
    /\ "early_requeue" \in Closed => ~InIsp(b)
    /\ IF refcnt = 0
         THEN /\ remote' = remote \ {b}
              /\ fresh' = IF ToVideo THEN fresh ELSE fresh \cup {b}
              /\ UNCHANGED pushing
         ELSE /\ pushing' = pushing \cup {b}
              /\ UNCHANGED <<remote, fresh>>
    /\ UNCHANGED <<dev, dmaqueue, mi_buf, mi_buf_shd, hw, irq, proc, spc, sreg, filled, oops>>

\* ... vvbuf_push_buf.
NotifyPush(b) ==
    /\ b \in pushing
    /\ pushing' = pushing \ {b} /\ remote' = remote \ {b}
    /\ IF OnList(dmaqueue, b)
         THEN oops' = "double_add" /\ dmaqueue' = dmaqueue
         ELSE dmaqueue' = PushBuf(dmaqueue, b) /\ oops' = oops
    /\ UNCHANGED <<dev, mi_buf, mi_buf_shd, fresh, hw, irq, proc, spc, sreg, filled>>

\* isp_set_stream: state |= or &= STATE_STREAM_STARTED, a plain read ...
SetStream(next) ==
    /\ spc = "idle"
    /\ ToVideo /\ next = "clear" => pushing = {}
    /\ "torn_state" \in Closed /\ todo # <<>> =>
          Head(todo) \notin {"set_driver", "clear_driver"}
    /\ spc' = next
    /\ sreg' = state
    /\ UNCHANGED <<dev, bufs, hw, irq, proc, pushing, filled, oops>>

\* ... and a plain write.
StreamWrite ==
    /\ spc \in {"set", "clear"}
    /\ state' = IF spc = "set" THEN sreg \cup {"stream"} ELSE sreg \ {"stream"}
    /\ spc' = IF spc = "clear" /\ ToVideo THEN "return" ELSE "idle"
    /\ sreg' = {}
    /\ UNCHANGED <<refcnt, irqOn, path, bufs, hw, irq, proc, pushing, filled, oops>>

\* stop_streaming of the video device then gives every buffer it had queued
\* back to user space, whether or not the ISP still uses it.
ReturnAll ==
    /\ spc = "return"
    /\ spc' = "idle"
    /\ remote' = Bufs
    /\ UNCHANGED <<dev, dmaqueue, mi_buf, mi_buf_shd, fresh, hw, irq, proc, sreg, pushing,
                   filled, oops>>
-----------------------------------------------------------------------------
Ioctl == \/ MiStart \/ MiStop \/ Open \/ Close
         \/ \E b \in Bufs : SetBuffer(b)
IoctlStep == \/ SetDriver \/ UpdateCall \/ CfgUpd
             \/ MiOff \/ ClearDriver
             \/ CleanVideo \/ CleanVideoRaced \/ CleanQueue \/ CleanDwe
             \/ Stopped \/ FreeIrq
IsrStep == HwIsr \/ IsrLock \/ IsrTest \/ IsrDeliver
RemoteStep == StreamWrite \/ ReturnAll

\* A kernel fault ends the behaviour.
Next == /\ oops = "none"
        /\ UNCHANGED env
        /\ \/ \E p \in Paths : FrameEnd(p)
           \/ IsrStep \/ Tasklet \/ UpdatePath
           \/ Ioctl \/ IoctlStep
           \/ \E b \in Bufs : Notify(b) \/ NotifyPush(b)
           \/ \E next \in {"set", "clear"} : SetStream(next)
           \/ RemoteStep

Spec == Init /\ [][Next]_vars
-----------------------------------------------------------------------------
(* Safety.  The windows a property needs closed are the ones that break it *)
(* when they are opened.                                                   *)

\* A buffer has one role inside the driver: queued once, or programmed for
\* the next frame of one path, or being filled for one path (dmaqueue, mi_buf
\* and mi_buf_shd of update_dma_buffer, isr_process_frame and
\* clean_dma_buffer).
RolesApart ==
    /\ Distinct(dmaqueue)
    /\ \A p, q \in Paths :
          /\ mi_buf[p] # NULL =>
                /\ ~OnList(dmaqueue, mi_buf[p])
                /\ mi_buf[p] # mi_buf_shd[q]
                /\ p # q => mi_buf[p] # mi_buf[q]
          /\ mi_buf_shd[p] # NULL =>
                /\ ~OnList(dmaqueue, mi_buf_shd[p])
                /\ p # q => mi_buf_shd[p] # mi_buf_shd[q]

\* That is so whatever the timing; linked to the video device it takes a user
\* space that keeps its hands off a buffer the ISP still refers to.
OneRole == (ToVideo => Shut({"early_requeue"})) => RolesApart

\* Linked to the dewarper, the driver, the remote end and the allocator
\* never share a buffer: what vvbuf_ready and kfree gave away is not
\* referred to any more.
OneOwner ==
    ~ToVideo => \A b \in Bufs : /\ InIsp(b) => b \notin remote \cup fresh
                                /\ b \notin remote \cap fresh

\* No buffer is forgotten: update_dma_buffer overwrites mi_buf_shd without
\* looking at it, so a buffer still there would never come back.  (Linked to
\* the video device clean_dma_buffer and isp_buf_notify do forget a buffer,
\* until stop_streaming returns all of them.)
NoLeak ==
    /\ ~ToVideo
    /\ Shut({"slow_frame", "dirty_start", "dirty_stop", "torn_state"})
    =>
        \A b \in Bufs : InIsp(b) \/ b \in remote \cup fresh

\* The interrupt handler meets no null pointer and no list entry is linked
\* twice; with the lock-less clean-up for the video device that takes a stop
\* with no frame end left to handle.
NoFault ==
    (ToVideo => Shut({"dirty_stop", "early_requeue"})) => oops = "none"

\* The hardware writes only to a buffer the driver holds for it, never to
\* one that was delivered, freed or flushed.  With two paths the frame end of
\* one makes isr_process_frame deliver the buffer the other is writing to.
HwTarget ==
    Shut({"slow_frame", "dirty_start", "empty_start", "two_paths"}) =>
        \A p \in hwOn : /\ hwCur[p] # NULL
                        /\ hwCur[p] \in {mi_buf[p], mi_buf_shd[p]}

\* Between MI_STOP and the next MI_START the driver holds no frame: a late
\* tasklet has nothing to pick up.  After the last isp_close no path runs and
\* no handler is left, and no video thread's late update of `state' brings
\* one back; nor is a buffer left, unless isp_buf_notify pushes one late.
NoPointers == \A p \in Paths : mi_buf[p] = NULL /\ mi_buf_shd[p] = NULL

EmptyWhenIdle ==
    /\ Shut({"dirty_stop", "torn_state"}) /\ "driver" \notin state /\ Idle => NoPointers
    /\ (ToVideo => Shut({"dirty_stop"})) /\ refcnt = 0 /\ Idle =>
         /\ hwOn = {} /\ ~irqOn
         /\ Shut({"late_push"}) => NoPointers /\ dmaqueue = <<>>

\* isr_process_frame hands over only buffers that hold a whole frame and
\* that the hardware has left.  A frame end of one of two paths makes it
\* hand over the other one's buffer, which is still being filled; user space
\* that queues a buffer the ISP still fills gets it filled twice.
DeliversFinishedFrame ==
    [][/\ Shut({"slow_frame", "dirty_start", "dirty_stop", "torn_state", "two_paths"})
       /\ ToVideo => Shut({"early_requeue"})
       /\ isr = "deliver" /\ isr' # "deliver"
      =>
       /\ mi_buf_shd[i] \in filled
       /\ \A p \in hwOn : hwCur[p] # mi_buf_shd[i]]_vars

(* dev->lock is held where isr_process_frame relies on it: the buffer its  *)
(* test saw is still there when its body reads the pointer again.  With    *)
(* RolesApart and OneOwner it makes NoFault inductive for the dewarper.    *)
LockHeld ==
    /\ isr \in {"loop", "deliver"} <=> lock = "isr"
    /\ isr = "deliver" => mi_buf_shd[i] # NULL

\* Linked to the video device, user space and the driver come to hold the
\* same buffer in one way only: stop_streaming gave it back while the daemon
\* had not stopped the ISP.
Shared == {b \in remote : InIsp(b)}
SharedOnlyByStreamoff ==
    [][Shut({"early_requeue"}) /\ spc # "return" => Shared' \subseteq Shared]_vars
-----------------------------------------------------------------------------
(* What the driver promises, BufferFlow, under its refinement mapping.     *)
\* Linked to the video device the driver allocates no buffer: all are free.
OwnerOf(b) ==
    IF ToVideo THEN "free" ELSE
    CASE b \in remote -> "remote"
      [] b \in fresh -> "free"
      [] OnList(dmaqueue, b) -> "queued"
      [] \E p \in Paths : mi_buf[p] = b -> "next"
      [] \E p \in Paths : mi_buf_shd[p] = b -> "filling"
      [] OTHER -> "lost"

Flow == INSTANCE BufferFlow WITH owner <- [b \in Bufs |-> OwnerOf(b)]

\* Linked to the dewarper, the driver moves every buffer along the road of
\* BufferFlow (update_dma_buffer, isr_process_frame, isp_buf_notify,
\* isp_buf_alloc and clean_dma_buffer take no other).
FlowSpec == Flow!Spec
-----------------------------------------------------------------------------
(* Liveness.  The interrupt, the tasklet, the lock's holder and the ioctl  *)
(* in progress run on; the sensor keeps sending frames; the remote end     *)
(* gives back what it receives.  Which ioctl comes next is the daemon's    *)
(* choice, and no fairness is assumed of it.                               *)
On == oops = "none" /\ UNCHANGED env

Fairness ==
    /\ \A p \in Paths : WF_vars(On /\ FrameEnd(p))
    /\ WF_vars(On /\ (IsrStep \/ UpdatePath))
    /\ WF_vars(On /\ Tasklet)
    /\ WF_vars(On /\ IoctlStep)
    /\ WF_vars(On /\ RemoteStep)
    /\ \A b \in Bufs : WF_vars(On /\ (Notify(b) \/ NotifyPush(b)))

FairSpec == Spec /\ Fairness

\* A started stream nobody touches, with more buffers in circulation than
\* paths: the last one waits in mi_buf for another one to push it on.
Circulating == {b \in Bufs : InIsp(b) \/ b \in remote}
Streaming == /\ Idle /\ state = Flags /\ irqOn
             /\ \A p \in Paths : path[p] = "on" /\ p \in hwOn \cap imsc
             /\ Cardinality(Circulating) > NPaths

\* While the stream runs every queued buffer gets a frame and is delivered:
\* the driver does not sit on it, whatever the order of frame end,
\* interrupt, tasklet and returned buffers.
FrameFlow ==
    \A b \in Bufs :
        /\ Shut({"slow_frame"}) /\ InIsp(b) /\ Streaming
        ~> b \in remote \/ ~Streaming
=============================================================================

# TLA+ models of isp-vvcam

isp-vvcam is the set of Linux kernel drivers for the camera pipeline of the
i.MX 8M Plus: image sensors, the image signal processor (ISP), the dewarper
(DWE) and a V4L2 video device, steered from user space by a camera daemon.
This directory models its concurrent core in TLA+, checks the models with TLC
and proves the central invariants with TLAPS.

The build described is the one of `src/vvcam`: memory interface version 1
(`isp_miv1.c`, two paths), no back-path.  `isp_miv2.c` is not compiled.

## Inventory

| Part | State it keeps | Operations | Partners |
|---|---|---|---|
| buffer queue `v4l2/video/vvbuf.c` | a list under a spinlock | push, pull, `vvbuf_ready` | calls the remote pad's notify callback |
| ISP memory interface `isp/isp_isr.c`, `isp/isp_miv1.c` | `dmaqueue`, `mi_buf[]`, `mi_buf_shd[]`, `mi.path[]`, the MI registers | `isp_mi_start`, `isp_mi_stop`, interrupt, tasklet, `clean_dma_buffer` | the hardware; the remote end of its source pad |
| ISP subdevice `v4l2/isp/isp_driver_of.c` | `refcnt`, `state`, the allocated buffers | open, close, `s_stream`, notify, alloc, free, events | daemon (ioctl), video device (`s_stream`), dewarper (notify) |
| ISP ioctls and blocks `isp/isp_ioctl.c`, `isp_wdr3.c`, ... | one context per block with a `changed` flag | set, get, enable | applied at once or by the frame-end interrupt |
| dewarp engine `dwe/*.c` | `src`, `dst`, `index`, `hardware_status`, `dist_map` | interrupt, tasklet, start, stop, clean-up | both subdevices |
| dewarp subdevices `v4l2/dwe/*.c` | `state`, `refcnt` each, `core->state` shared | open, close, `DWEIOC_*`, `s_stream`, notify | ISP (source buffers), video device (destination buffers) |
| video device, pipeline `v4l2/video/video.c` | `pipeline_status`, `fmt`, `active`, per handle `state`, `req` and a vb2 queue | S_FMT, REQBUFS, STREAMON, STREAMOFF, close, S_MODEINFO | applications; daemon (orders), ISP or DWE (`s_stream`) |
| video device, handshake `v4l2/video/video.c` | `event_shm`, `event_lock`, `event_result`, `caps_mode`, `ctrls.buf_va`, `subscribed_cnt`, `refcnt` | `viv_v4l2_post_event`, EVENT_COMPLETE, EVENT_RESULT, subscribe, unsubscribe, close | daemon |
| sensors `v4l2/sensor/*` | the mode, frame rate, gains and offsets last set, streaming or not; one mutex | set mode, format, frame rate, gain, white balance, stream, suspend, resume | daemon, I2C |
| focus `v4l2/focus/vcm_dw9790/dw9790.c` | `cur_pos`; one mutex, not taken by the V4L2 control | set and get position | daemon, I2C |

How a frame travels.  Linked to the video device, the ISP fills user space's
buffers.  Linked to the dewarper, it fills buffers of its own
(`isp_buf_alloc`), which the dewarper reads, and gives back, while it writes the
video device's buffers.  `vvbuf_ready` is a direct call of the other entity's
notify function, in interrupt context.

What is hard here.  The ISP's state is touched by four agents with three locks
(`mlock`, `dev->lock`, the queue's `irqlock`), and `state` by two of them with
none.  The dewarper's `hardware_status` is a hand-made wake-up protocol without
a lock.  The hardware has double-buffered address registers and latches
interrupts that are masked.  The daemon's stop and user space's STREAMOFF come
in either order.  The V4L2 ioctls of a video device run with no common lock: the
handles share a status, a format, argument buffers and a completion flag that
names no request.  Settings are copied from user space without the lock the
frame-end handler takes.  A sensor's registers can only be remembered, and writes
to them fail.  The list of these hazards, each at its line, is in
`PROJECT.json`.

## Modules

| Module | Models |
|---|---|
| `VvBuf` | the queue: operators on sequences |
| `IspMi` | the ISP's memory interface and subdevice: buffers, interrupt, tasklet, start, stop, open, close, `s_stream` |
| `BufferFlow` | abstract specification of what the ISP promises about the buffers it allocates |
| `IspMiProofs`, `IspMiWindowProofs` | theorems about `IspMi`: what holds whatever the timing and `BufferFlow`; what needs windows closed |
| `VvBufProofs`, `DweProofs` | lemmas about the queue; theorems about `Dwe` |
| `VideoEventProofs`, `VideoPipelineProofs`, `IspDeferredProofs`, `SensorProofs` | theorems about `VideoEvent`, `VideoPipeline`, `IspDeferred` and `Sensor` |
| `Dwe` | the dewarper: two subdevices, one engine |
| `VideoEvent` | the handshake of the video device's ioctls with the daemon |
| `VideoPipeline` | the pipeline of a video device: the ioctls of several handles and the orders they post |
| `StreamFlow` | abstract specification of the sequence of orders the daemon gets |
| `IspDeferred` | the ISP's settings deferred to the frame end, and the subscription to its interrupts |
| `Sensor` | the OV2775 driver: what it remembers and what the sensor holds |
| `MC...` | each of them for TLC: the environments of its runs, symmetry |

### IspMi

State and code correspond by name: `dmaqueue`, `mi_buf`, `mi_buf_shd`,
`refcnt`, `state` are the driver's fields, `path` is `mi.path[].enable` together
with whether `config_dma_buf` accepts its layout.  `hwInit` and `hwCur` are the
address registers and their shadows, `imsc` and `ris` interrupt mask and raw
status, `hwOn` the running paths.  `remote` and `fresh` are the buffers outside
the driver.  `filled` is a ghost: the buffers a whole frame was written to since
they were programmed.

An ioctl is a sequence of labelled steps in `todo`, since the interrupt, the
tasklet and the video thread run between them; holding `mlock` is `todo # <<>>`.
`update_dma_buffer` and `isr_process_frame` take `dev->lock` (`lock`) and run
path by path (`i`), because `clean_dma_buffer` does not take that lock when the
link is to the video device.  `isr_process_frame` reads `mi_buf_shd[i]` twice,
so its test (`IsrTest`) and its use (`IsrDeliver`) are two steps;
`CleanVideoRaced` is the outcome of the data race in which
`update_dma_buffer`'s writes win over the clean-up's.  `state |= ...` is a read
(`dreg`, `sreg`) and a write.  What the source pad feeds, video device
or dewarper, is part of the environment, `env`.

`isp_buf_notify`, which runs in the remote end's context, is two steps as well:
the test of `refcnt` (`Notify`) and the push (`NotifyPush`), with the buffer in
`pushing` between them.  Neither `mlock` nor `dev->lock` is held there, so that
an `isp_close` can run to its end between the two.

The hardware (`FrameEnd`) is external: at a frame end the shadow registers load
and the raw interrupt is latched whether or not it is enabled.

### Dwe

`sink`, `srcq`, `src`, `dst`, `index`, `hardware_status`, `lut` are fields of
`dwe_ic_dev`; `core` is `dwe_devcore.state`.  The tasklet holds `irqlock` from
`TaskletStart` to its end but its reads of `state` and its write of
`hardware_status` race with others, so that it runs in steps (`tpc`).
`dwe_src_buf_notify` runs in the ISP's interrupt handler in three steps: push,
test of `hardware_status`, and setting it busy with the tasklet scheduled.  The
engine is `job`, the pair of buffers it reads and writes; its bus switched off,
it stops.  `dwe_open`, `dwe_close` and the ioctls hold `core->mutex`.

The subdevices' `bctx[DWE_PAD_SINK]` is the core's one queue; each has its own
destination queue.  `which[]` stays 0 in the code and is left out, as are the
registers `dwe_s_params` packs.

### VideoEvent

`event_lock` (the holder), `complete` (of `event_shm`), `event_result`,
`subscribed_cnt` (`cnt`), `subscribed_wait.done` and `refcnt` are the driver's;
`args` tells for `caps_mode` and `buf_va` whose arguments they hold.  An ioctl is
one thread per handle, a step per access to shared state: write the arguments
(`args`), for GET_CAPS_SUPPORTS look at the count and wait (`caps`,
`caps_wait`), take the lock and reset the flag (`lock`), queue the event
(`queue`), look at the flag and at the subscribers by turns (`poll`, `look`),
release the lock (`unlock`), read the result (`result`).  Four kinds of requests
stand for all: two that leave arguments, one that waits for a subscriber, one
nobody waits for.  A request's number stands for its arguments and its verdict.

The daemon is not in this repository.  It takes the oldest event, reads the
arguments, gives a verdict, completes, as an event's fields ask of it; it may
also never answer, answer late, unsubscribe or close.  The event queue of the
V4L2 core, which drops the oldest event of a full subscription, is external.

### VideoPipeline and StreamFlow

One thread per handle runs S_FMT, REQBUFS, STREAMON, STREAMOFF and close over
`pipeline_status`, `fmt`, `active`, `state` and `req` (`reqd`), all by the names
of the code.  `bufs` is what vb2 keeps: the format a handle's buffers were
allocated for.  Every post to the daemon, which may sleep a second, is a step of
its own, so that other handles' ioctls run before and after it; what happens
inside one is `VideoEvent`'s.  A post is answered, or not (and then the daemon may
have got it or not).

`order`, `owner` and `told` are what the daemon knows.  `StreamFlow` is the
sequence of orders it may rely on: create, format, start by one handle, stop by
that handle, delete.

### IspDeferred

A context is two halves and its flags; `Copy` fills the halves one by one in
either order while frames end, `Control` then writes the registers or sets
`changed` under `irqlock`.  `ReadCtrl` and `WriteCtrl` are the two sides of
every unlocked change of `isp_ctrl`, the register that holds ISP_ENABLE,
gamma's enable and the color ranges: `isp_enable`, `isp_disable`,
`isp_stop_stream`, and `ChangeCtrl` for `isp_s_cnr` and the others.

The handler's part under `irqlock` is cut where it reads and writes `isp_ctrl`
itself: `FrameEnd` takes the lock, writes cproc and, for a changed cc, reads the
register into `hctrl`; `WriteCc` writes it back with cc's ranges; `WriteRest`
writes the other contexts and, if gamma's curve did not come first, reads the
register for gamma's enable; `WriteGamma` writes it back.  Between two of these
steps `isp_stop_stream` may mask the interrupts and clear ISP_ENABLE: the handler
then sets it again.  The ioctls that take `irqlock` wait for the handler
(`IrqLocked`).

User space leaves the flags in a context it passes FALSE and passes memory that
can be read.  Version numbers stand for the values; `wanted` and `asked` are
ghosts.  The events part has `post_event` and its subscribers; the handler tests
the pointer (`Leave`) and calls it (`PostEvent`).

### Sensor

The calls of user space hold `sensor->lock`, so that each is one action, but for
`s_stream`.  It is called from the ioctl S_STREAM with the lock (1304) and as a
video operation without (1380), so that two of them (`Callers`) can pass each
other, and the operation can pass any other call.  It is three steps: `SetStream`
sets the status, `SwitchStream` writes register 0x3012, and 100 ms after a stop
`ResendTable` sends part of the mode's table again; `spc` says where each caller
is.  Nobody in this tree calls a sensor's operation (`video.c` 327 and
`dwe_driver_of.c` 159 call the ISP's and the dewarper's); the receiver's driver
of the kernel does, and is taken to make one call at a time.  Suspend and resume
call `s_stream` in one action: they find all tasks frozen, and no call half
done.  `mode`, `cur_fps`, `wb`, `blc`, `hcg`,
`stream_status` and `resume_status` are the driver's, `regs` the sensor's
registers, grouped by the setting they hold.  Any write may fail, and what it
failed to write is `Unknown`, a mixture.  `granted` is a ghost: what the results
of the calls have promised.  Left out: exposure, test pattern and raw register
access, of which the driver remembers nothing.

## Windows

Some interleavings the code permits do harm: buffers are lost, the hardware
writes to a buffer given away.  Pretending that they cannot occur would make
the models unfaithful; leaving them open hides every other property behind
them.  Each is therefore a named *window*, explained in the head of its module.
A behaviour has an environment, chosen in its initial state and never changed:
the set of windows kept closed (`closed`), and in IspMi the link as well.  A
window's guard is in the action where the environment would have to be at fault
(the frame is too fast, the daemon too early), not in the driver's.

`Shut(W)` says that the windows of W are closed.  A property that fails when a
window is open carries `Shut` as its hypothesis, so that a property without one
holds whatever the timing.  The environments of a run (`Envs`, in the MC
modules) keep closed what the harm of one window would hide of another.
Each hypothesis is necessary: TLC finds a violation when any one window of it
is dropped.  The windows are hazards the code does have: such a property does
not say that the harm cannot happen, it says which timing it takes, and that
nothing else does the same harm.  `PROJECT.json` names the windows at each hazard.

Which window breaks which property of the dewarper, when
it alone is opened:

| Window | Where | Breaks |
|---|---|---|
| `torn_state` | `dwe_driver_of.c` 148-151 against `dwe_devcore.c` 83, 88 | SrcNoLeak, CoreCounts, BusyIsWorking, HwTarget, DeliversFinishedFrame |
| `idle_in_flight` | `dwe_isr.c` 257-259 | SrcNoLeak, BusyIsWorking, NoFault (the tasklet's loop ends on a stale `dst` with `src` null) |
| `late_tasklet` | `dwe_devcore.c` 88-94 | SrcNoLeak, HwTarget, DeliversFinishedFrame, NoFault |
| `close_started` | `dwe_driver_of.c` 300-320 | BusyIsWorking (busy for ever), CoreCounts |
| `hw_error` | `dwe_isr.c` 242-255 | HwTarget, DeliversFinishedFrame (a late `done`), NoStarvation |
| `early_requeue` | `dwe_driver_of.c` 162-168 | OneRole, NoFault |
| `double_start` | `dwe_driver_of.c` 216-219, two subdevices | SrcNoLeak, NoFault, HwTarget, DeliversFinishedFrame |
| `lost_wakeup` | `dwe_isr.c` 72-73 against `dwe_driver_of.c` 215-219 | NoStarvation |
| `unseen_frame` | `dwe_driver_of.c` 217 | NoStarvation |

And of the ISP:

| Window | Where | Breaks |
|---|---|---|
| `slow_frame` | `isp_isr.c` 136, `isp_miv1.c` 512-517 | NoLeak, DeliversFinishedFrame, HwTarget, FrameFlow |
| `dirty_start` | `isp_miv1.c` 490-519 | NoLeak, DeliversFinishedFrame, HwTarget |
| `dirty_stop` | `isp_miv1.c` 521-545 | NoLeak, DeliversFinishedFrame, EmptyWhenIdle; NoFault when linked to the video device, since `clean_dma_buffer` then runs without `dev->lock` |
| `torn_state` | `isp_driver_of.c` 148-155 against `isp_miv1.c` 498, 536 | NoLeak, DeliversFinishedFrame, EmptyWhenIdle |
| `two_paths` | `isp_isr.c` 242-255 | DeliversFinishedFrame, HwTarget: a frame end of one path delivers the other path's buffer, still being filled |
| `empty_start` | `isp_isr.c` 120-126 | HwTarget |
| `late_push` | `isp_driver_of.c` 240-244 against 322-345 | EmptyWhenIdle: the closed device keeps a queued buffer, or one that a tasklet still due has taken up |
| `early_requeue` | `isp_driver_of.c` 244, `vvbuf.c` 91-103 | OneRole, NoFault, SharedOnlyByStreamoff, DeliversFinishedFrame (a buffer queued while it is being filled is filled twice), linked to the video device |

NoLeak speaks of the dewarper's link only: the video device's buffers are user
space's, which may drop them.  Linked to the dewarper, OneRole, OneOwner,
NoFault and FlowSpec hold whatever the timing; so does, for either link, that a
closed device has no running path and no interrupt handler (EmptyWhenIdle).  That
it has no buffer needs `late_push` closed.  So does the first half of OneRole of the dewarper (a source
buffer has one owner).

Of the handshake with the daemon:

| Window | Where | Breaks |
|---|---|---|
| `late_answer` | `video.c` 217, 862-864 | Answered, OwnResult: the completion of an event that timed out ends the wait for the next, its verdict is read for the next one's |
| `shared_args` | `video.c` 939, 942, 1552-1558 | OwnResult |
| `unpaired` | `video.c` 606-613, 635-646 | CountIsSubscribers |
| `daemon_dies` | `video.c` 559-560 | CountIsSubscribers: `v4l2_fh_exit` drops the subscription and `subscribed_cnt` is not told |
| `close_race` | `video.c` 585-589 | CountIsSubscribers |

`app_closes` harms nothing; it is there to keep the instance small.  Returns
holds whatever the daemon does.

Of the pipeline:

| Window | Where | Breaks |
|---|---|---|
| `unanswered` | `video.c` 227, 1091-1094 | FlowSpec, StreamingAgrees, BuffersFit, BusyHasBuffers, LastCloseDeletes |
| `overtaken` | every post | the same: for example two handles close at once and both leave the stream to the other |
| `guest` | `video.c` 1218-1227, 338 | FlowSpec and BuffersFit: a handle that did not create the stream starts it after it was deleted |
| `freed` | `video.c` 1218-1228, 532-536 | BusyHasBuffers |
| `refit` | `video.c` 1130 | BuffersFit |
| `remode` | `video.c` 799-839 | BuffersFit |
| `alloc_fails` | `video.c` 1227-1230 | BusyHasBuffers |

Of the deferred settings:

| Window | Where | Breaks |
|---|---|---|
| `frame_in_copy` | `isp_ioctl.c` 2368 and the like, against `isp_isr.c` 402-431 | AskedSettings: half a setting reaches the registers |
| `torn_ctrl` | `isp_ioctl.c` 179-183, 201-203, 710-722, 741-745 against `isp_isr.c` 410, 428 | AskedSettings, NoLostSetting, SettingsLand: what the handler wrote to `isp_ctrl` is overwritten; TypeOK's last part: the handler, which read `isp_ctrl` before `isp_stop_stream`, enables the ISP again with its interrupts masked |
| `partial_cc` | `isp_ioctl.c` 780, 2368 | all three: coefficients that wait are dropped by an S_CC without any |
| `gamma_enable` | `isp_ioctl.c` 2570 | NoLostSetting, SettingsLand: the copy clears `enable_changed` |
| `curve` | `isp_ioctl.c` 2210, 2685 | all three: S_WDR_CURVE replaces a WDR_CONFIG that waits, and zeroes its offset |
| `other_leaves` | `isp_driver_of.c` 199-200 | PostEventSound: nobody is told any more |
| `late_call` | `isp_isr.c` 449-450 | PostEventSound: a null pointer is called |

Of the sensor:

| Window | Where in `ov2775_mipi_v3.c` | Breaks |
|---|---|---|
| `wb_fails` | 989-993 | InForce: the failed gains are remembered, and the result forgets the failure |
| `read_fails` | 683-687, 697-705, 745-749 | InForce: the fields of the other gains are an uninitialised variable |
| `stream_fails` | 1104, 1106 | InForce, Remembered |
| `fmt_after_wb` | 949-989, 1223 | InForce: after a reset the same white balance is not written |
| `fmt_after_fps`, `mode_after_fps` | 583, 779, 1223 | Remembered: `cur_fps` |
| `fmt_in_stream` | 1219 | Remembered: the sensor stands, `stream_status` says it streams |
| `stop_after_mode` | 1112-1166 | InForce: a part of another mode's table over the one loaded; a mode set while the operation's stop sleeps does it too |
| `streams_overlap` | 1102-1106, 1304, 1380 | Remembered: the status is one call's, the register the other's |

## Runs

| Run | Instance | Environments | What it checks |
|---|---|---|---|
| `IspMiOpen` | 2 buffers, 1 path, 1 handle | dewarper link: everything open but `torn_state` and `late_push`, but `dirty_start`, or but `torn_state` and `dirty_stop` (the theorems have everything open at once). Video link, `torn_state` closed: with `early_requeue`; with `dirty_stop` and `dirty_start`; with `early_requeue`, `dirty_stop` and `late_push` | TypeOK, OneRole, OneOwner, NoFault, EmptyWhenIdle, FlowSpec, SharedOnlyByStreamoff |
| `IspMiWindows` | 3 buffers, 2 paths, 1 handle | dewarper link: timely frames, quiet starts and stops, whole updates, with and without a second path; timely frames, quiet starts, enough buffers on one path, and either whole updates or quiet stops | NoLeak, HwTarget, DeliversFinishedFrame |
| `IspMiLive` | 2 buffers, 1 path, 1 handle, fairness | dewarper link: timely frames; two of quiet starts, quiet stops, whole updates | FrameFlow |
| `DweOpen` | 1 subdevice, 1 buffer each way | two or three windows closed, see `MCDwe!OpenEnvs` | TypeOK, OneRole, BusyIsWorking |
| `DweWindows` | 1 subdevice, 2 buffers each way, fairness | whole updates, engine stopped when quiet, no early requeue; plus one of: no interrupt while inactive, no engine error, everything closed | SrcNoLeak, NoFault, HwTarget, NoStarvation |
| `DweTwo` | 2 subdevices, 1 and 1 buffer each | everything closed but `lost_wakeup`, `unseen_frame` | SrcNoLeak, CoreCounts, DeliversFinishedFrame |
| `VideoEvent` | 2 handles, 1 daemon, 3 requests, 2 polls | one or two windows open at a time, see `MCVideoEvent!EventEnvs` | TypeOK, Answered, OwnResult, CountIsSubscribers |
| `VideoEventLive` | 2 handles, 1 daemon, 2 requests, 2 polls, fairness | late answers and dying daemons | Returns |
| `VideoPipeline` | 3 handles, 2 formats | one ioctl at a time with everything else open; then with each set of windows closed that a property asks for | TypeOK, StreamingAgrees, BuffersFit, BusyHasBuffers, LastCloseDeletes, FlowSpec |
| `IspDeferred` | blocks cc, wdr, gamma; 2 subscribers; 2 settings; fairness | frames in copies and other subscribers that leave; `gamma_enable` and `late_call`; `torn_ctrl` | TypeOK, AskedSettings, NoLostSetting, PostEventSound, SettingsLand |
| `IspDeferredWdr` | block wdr, no subscriber, 2 settings | everything open | WdrAtFrameEnd, which fails (see Findings) |
| `Sensor` | 2 modes, none HDR, 2 channels, 1 frame rate below the range, 2 white balances; 1 gain, 1 level | formats and modes at any time; two `s_stream` at once and formats in a stream | TypeOK, InForce, Remembered |

`IspMiOpen` asks what holds whatever the timing, `IspMiWindows` what holds when
the environment behaves as the driver expects, with both paths sharing the
queue.  `DweOpen` and `DweWindows` ask the same of the dewarper, and `DweTwo`
what changes when two subdevices share the engine.  The runs of the video device,
the settings and the sensor each ask both questions of one module: an
environment per property, with the windows open that the property can bear.

Bounds.  `MaxOpen` bounds the open handles: only "first" and "last" matter to
the code, and two handles make both differ from "any".  `MaxCore` bounds
`core->state`, which `dwe_close` lets drift from the number of started
subdevices; 2 is that number at its largest.  `Steady` names subdevices whose
video stream never stops; `DweTwo` uses it for one of the two to stay within
reach, the other one starts and stops freely.  Two buffers on one path are
enough for a buffer queued, one programmed and one being filled to meet in
every pair; three add the queue that is not empty when both pointers are set.
The faults found by opening windows all occur with these numbers.

`MaxEvents` and `MaxSets` bound the requests of a behaviour, `MaxTries` the polls
of one wait (1000 in the code), `Elems` the events a subscription keeps (10).
Two requests are enough for one to be taken for the other, a third for both to be
in progress when an old answer comes; with `Elems` = 1 a full subscription drops
events.  A count of subscribers that has drifted is cut off at one more than the
daemons.  Two handles can conflict in a pipeline and the third sees what they
left.  Blocks cc, wdr and gamma are those whose contexts have something special;
cproc, awb and flt follow the plain pattern and are in the module for any
instance.  Of the sensor's four channels two show one changed and one not.  With `s_stream`
in steps the HDR modes, the only ones whose S_GAIN writes two gains, and rates
above the maximum do not fit beside the rest; the theorems cover them.  The view
`Seen` forgets `resume_status` while the sensor is not suspended: only resume
reads it, and every suspend sets it first.

`IspMiOpen`, `DweOpen` and `DweWindows` switch the deadlock check off: a kernel
fault (`oops`) can end a behaviour of one of their environments, and nothing
happens after it.  All others check deadlock.

Fairness.  `FairSpec` of `IspMi` assumes that frames keep ending on a running
path, that the interrupt handler, the tasklet, the lock's holder and an ioctl
in progress go on (the kernel runs them to their end), and that the remote end
returns what it received.  `FairSpec` of `Dwe` assumes the engine finishes its
frames and that whoever began something goes on.  No fairness is assumed of
the daemon, of user space, or of the arrival of frames at the dewarper.
All of it is weak fairness: none of these agents is preempted for ever.  The two
modules that follow need more.

`VideoEvent` assumes that the kernel runs an ioctl on, and that `event_lock`, a
mutex, is not withheld from a waiter for ever although others take it again and
again (strong fairness of `Lock`).  Nothing is assumed of a daemon: that ioctls
return is due to the number of polls.  `IspDeferred` assumes that frames end while
the interrupt is enabled, and that an ioctl in progress and the handler go on,
each in spite of the other (strong fairness of `Ioctl` and `Handler`): an ioctl
that waits for `irqlock` gets it between two frames, the lock being granted in
turn; and where windows keep the handler out of a copy or of a change of
`isp_ctrl`, it gets in between two of them.  That an ioctl that sets
something is called is not assumed: MaxSets bounds them.

## Findings

`IspDeferredWdr`: `ic_dev.h` 705-706 says of the WDR block that its control and
shift registers have no shadow and must be changed after the frame end interrupt.
ISPIOC_WDR_CONFIG obeys; ISPIOC_S_WDR_CURVE (`isp_s_wdr_curve`, `isp_ioctl.c`
2172-2215) writes the offset register and the curve at once, whether the ISP
runs or not.

The windows above are no findings in this sense: no document or comment of the
repository rules them out.

## Proofs

`IspMiProofs` holds, for every set of buffers, number of paths and of handles and
every set of environments:

* `TypeCorrect`: `Spec => []TypeOK`.
* `Roles`: `Spec => []OneRole`, for both links.
* `DweOwnership`: linked to the dewarper, `OneOwner` and `NoFault` hold always,
  under every timing.
* `DweFlow`: `Spec` implements `BufferFlow` (`Spec => FlowSpec`).  It says
  something of the dewarper link only: linked to the video device the mapping
  calls every buffer free.
* `SharedByStreamoff`: user space and driver come to share a buffer only by
  `stop_streaming`.

The invariant is `Inv`: `TypeOK`, `DweInv` when the link is to the dewarper,
and `RolesApart` when it is to the video device with `early_requeue` closed.

`DweInv` is
`TypeOK /\ ~ToVideo /\ RolesApart /\ OneOwner /\ LockHeld /\ NoOops /\ spc # "return"`.
`RolesApart` is not inductive alone: a buffer that comes back from the remote end
is queued with no test in the code, and only `OneOwner` says it was not queued
already.  `NoOops` needs `LockHeld`: `dev->lock` keeps the pointer
`isr_process_frame` has tested until it is used.  The proofs go action by
action; the lemmas state what a pull, a push and a shift of the two pointers do
to the roles of the buffers.  `DweFlow` then reads the owner of every buffer
off the state and shows that each action is one step of `BufferFlow` or none.

`IspMiWindowProofs` holds for the same constants and either link, and adds what needs
some of the timing's windows closed:

* `NoFaults`: `Spec => []NoFault`.
* `Empty`: `Spec => []EmptyWhenIdle`.
* `NothingForgotten`: `Spec => []NoLeak`.
* `Target`: `Spec => []HwTarget`.
* `WholeFrames`: `Spec => DeliversFinishedFrame`.

Each part of its invariant, `IInv`, is kept by every step under the windows its lemma
names; `IInv` guards it with them.  `Sequenced` says which steps of start, stop and close
can follow each other and what they have done so far.  From it and `Truthful` (`state` is
what the driver last wrote) follow `Parked`, a stopped driver points at no buffer, and
with `LastClose` and, if nobody is left to push (`NoneLate`), `LastClean`
`EmptyWhenIdle`.  `Timely` says that a frame end is
handled before the next one: of raw status, handler, tasklet and lock one is busy at
most, none while the interface is started.  Then, when `update_dma_buffer` comes to a
path, `isr_process_frame` has emptied that path's `mi_buf_shd` (`Shifted`), so that
overwriting it forgets nothing (`Kept`).  `Aimed` follows the one running path from
CFG_UPD: the hardware writes to `mi_buf_shd`, or still to `mi_buf` while the update is
late.  `Whole` follows a buffer from being written to being filled: when
`isr_process_frame` reads it, its frame has ended and the hardware has moved on to
`mi_buf`, which `OneRole` makes another buffer.

`DweProofs` holds for any buffers and handles, with one subdevice or two, and every set
of environments:

* `TypeCorrect`: `Spec => []TypeOK`.
* `Roles`: `Spec => []OneRole`.
* `CountExact`: `Spec => []CoreCounts`.
* `NothingForgotten`: `Spec => []SrcNoLeak`.
* `NoFaults`: `Spec => []NoFault`.
* `Target`: `Spec => []HwTarget`.
* `WholeFrames`: `Spec => DeliversFinishedFrame`.
* `NeverStuck`: `Spec => []BusyIsWorking`.

`Typed` adds to `TypeOK` what an ioctl may still have to do (`Plans`) and who holds a
buffer between two steps (`Held`).  The heart is `OneAtWork`: a notification that is
about to start the tasklet, the tasklet, the engine with its interrupt enabled and the
interrupt handler exclude one another, although no lock says so.  It needs `Counted`,
the arithmetic of `core->state`, since only the last stop may silence the engine.  From
it follows that buffers in work have somebody who will finish or return them
(`Carries`), hence that `src` is null when the tasklet overwrites it (`AllThere`), and
that what the engine works on or has finished is the pair in work (`OnTarget`).
`BusyIsWorking` does not need `OneAtWork` but `Woken`: with no subdevice started, the
tasklet or the handler that will write the idle flag is on its way.  The tasklet's loop
over the source queue is the one recursion of the model, a recursive function over the
queue's positions; what it leaves of the queue is proved by induction (`SetInduction`:
the least number outside a set of numbers).  `VvBufProofs` has the lemmas about pushes,
pulls and removals.

`VideoEventProofs` holds for any number of handles, daemons, requests and polls, and
every set of environments:

* `SuccessIsAnswered`: `Spec => []Answered`.
* `ResultIsOwn`: `Spec => []OwnResult`.
* `TypeCorrect`: `Spec => []TypeOK`.
* `CountFollows`: `Spec => []CountIsSubscribers`.

`Answered` is about the end of a wait, and what makes it true lies before it:
`event_lock` is held by whoever stands between the reset of `event_shm` and the
end of the wait (`LockHeld`), so that a completion somebody waits for is one of
the holder's request (`FlagIsOurs`).  `OwnResult` follows a request's arguments
and verdict through four hands: the buffer they lie in (`SlotsApart`, `ArgsHeld`),
the event that carries the request's number (`Numbered`, `EventsNamed`), the
daemon that has read them (`SeenIsOurs`) and `event_result` up to its reading after
the lock is released (`VerdictIsOurs`).  Each of these needs the ones before it;
`Inv` is their conjunction, with those under a window only where it is closed.
The type invariant used is `Typed`, weaker than `TypeOK`: the bounds on the counts
of handles and subscribers play no part.

`TypeOK` with its bounds is proved after it, from `Inv`, `Bounded` (nobody holds
arguments or a verdict of an ioctl that was not posted; a poll counted for the last time
is not followed by another) and `CountInv`.  The latter is about the other half of the
state, handles and subscriptions, which no request touches: `refcnt` is the number of
handles not yet counted out (`Referenced`); a count that drifts stays in its bound
(`Drift`, in any environment).  In orderly environments a subscribed daemon's handle is
open (`Present`), so that the last close finds nobody subscribed and stays alone until it
has reset the count (`Resetting`); the count is exact at every step, counting the
subscriptions counted and not yet uncounted (`CountExact`); and a waiter is released, or
its release is on its way, exactly while it is positive (`Woken`).

`VideoPipelineProofs` holds for any finite set of handles, every set of formats and
every set of environments:

* `TypeCorrect`: `Spec => []TypeOK`.
* `StatusAgrees`: `Spec => []StreamingAgrees`.
* `LastCloseLeavesNothing`: `Spec => []LastCloseDeletes`.
* `BuffersAlwaysFit`: `Spec => []BuffersFit`.
* `NeverStuckBusy`: `Spec => []BusyHasBuffers`.
* `PipelineFlow`: `Spec` implements `StreamFlow` (`Spec => FlowSpec`).

The properties speak of a device at rest; the invariant adds what every step of an
ioctl finds and leaves.  With ioctls one at a time (`Alone`) at most one handle
requests buffers (`Requests`) and at most one streams, which `pipeline_status`
tells (`Streams`).  If posts are answered, a device out of `INIT` has a handle that
has the stream (`Lifetime`): it makes the last close delete it.  Without guests,
handles that request buffers for another one's stream, `pipeline_status` tells the
last order (`OrdersFollow`), and every order is one `StreamFlow` allows after it.
With the format left alone while there are buffers they have the format told last
(`Fits`); with buffers only freed by a close, a device in `REQBUFED` has some
(`Busy`).  `Inv` states each part under the windows it needs closed.

`IspDeferredProofs` holds for any of the blocks, any subscribers, any number of
settings and every set of environments:

* `TypeCorrect`: `Spec => []TypeOK`.
* `OnlyAskedSettings`: `Spec => []AskedSettings`.
* `NothingLost`: `Spec => []NoLostSetting`.
* `EventsSound`: `Spec => []PostEventSound`.

`NoLostSetting` is about a driver between two ioctls; what keeps it lies within
them.  A block that no ioctl is setting has in its registers what is wanted, or is
marked and would get it written (`Marked`); of one that is being set the invariant
says which halves of the context hold the new setting and that the old flag went
with the first (`Copied`), so that a frame end in the middle of the copy writes
something that the end of the ioctl makes good.  In the middle of the handler, what
it is about to write to `isp_ctrl` is what the register holds (`Held`, `CtrlHeld`), and
the cc it writes there is still marked, or its next setting already copied (`CcMarked`).
Only cc has a part in `isp_ctrl`: the other blocks need no `torn_ctrl` (`Untorn`).
That an enabled ISP has its interrupts between ioctls, the last part of `TypeOK`, is
`Unmasked` and `Held`.  `AskedSettings` follows because, with no frame end
during a copy, registers only ever change to what is wanted.

`SensorProofs` holds for any modes, channels, frame rates, gains and levels and every
set of environments:

* `TypeCorrect`: `Spec => []TypeOK`.
* `SettingsInForce`: `Spec => []InForce`.
* `DriverRemembers`: `Spec => []Remembered`.

S_WB writes only what differs from what it remembers: that what was granted stays in
force needs that a gain remembered is in its register and that the offsets granted
follow it (`WbHeld`), which set_fmt after a white balance would break.  The other two
parts follow the properties without their windows (`FpsHeld`, `StreamHeld`).
`StreamHeld` says what an s_stream in progress is about to write, which holds because
it is the only one (`Alone`); a stop that still sleeps resends the table the registers
hold (`TableHeld`).

The proofs assume `IspMiAssumption`, `DweAssumption`, `VideoEventAssumption`,
`VideoPipelineAssumption`, `IspDeferredAssumption` and `SensorAssumption`, which TLC
evaluates in every run of these modules.

What attempts to prove have corrected.  Several statements held in the instances TLC ran
and were false in general; TLC confirmed each in an instance made for it.

* `NoFault`, `HwTarget` and `DeliversFinishedFrame` of `Dwe` need `double_start` closed.
  With two subdevices two ISP interrupt handlers can both find the engine idle; the
  second tasklet starts it anew over the frame in work.  The runs that check the first
  two have one subdevice.
* `HwTarget` of `IspMi` needs `two_paths` closed: the frame end of one path takes away
  the buffer the other path is writing to.
* `DeliversFinishedFrame` of `IspMi`, linked to the video device, needs `early_requeue`
  closed: a buffer queued again while it is filled is programmed twice.
* `NoLeak` was stated for either link and is about the dewarper's.

Only model-checked: FrameFlow, NoStarvation, Returns and SettingsLand.  They are liveness
properties under fairness, which is out of the prover's reach (ENABLED).  Every invariant
and action property of the runs that pass is stated by a theorem.

## Not modelled, and the plan

Planned, in this order:

1. An abstract specification of the dewarper, a pairing of source and destination
   buffers, and the proof that `Dwe` implements it.
2. A composition of ISP, dewarper and video device, with the layout a buffer
   was allocated for (the one hazard of the buffers no property covers).
3. The focus driver, with the control that takes no lock; probe's order of
   registration and initialisation, of the sensors and the focus driver.
4. `Scaling` and format arithmetic: `getScaleFactor`, `set_scaling`, queue
   set-up and crop, as operators against reference definitions.
5. Suspend and resume of the ISP and the dewarper; ISPIOC_RESET.

The other sensor drivers (AR1335, IMX219, OS08A20, OV5695, Basler) have the
skeleton of the OV2775's with fewer settings that depend on each other, and are
not modelled one by one.

Left out for good: register packing of the image blocks, latency and frame-rate
statistics, remove, device-tree parsing, build files, register declarations and
sensor register tables.  The last two are most of the tree: of its 65 thousand
lines 27 thousand are the ISP's register declarations and 12 thousand sensor
register tables, which no model translates line by line; `Sensor!Table` and the
names of the registers stand for them.

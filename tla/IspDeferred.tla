---------------------------- MODULE IspDeferred ----------------------------
(***************************************************************************)
(* Settings of the image processing blocks that wait for the end of a      *)
(* frame (isp/isp_ioctl.c, isp/isp_isr.c), and the events isp_hw_isr posts *)
(* (v4l2/isp/isp_driver_of.c).                                             *)
(*                                                                         *)
(* An ioctl copies the block's context from user space and then, under     *)
(* irqlock, writes the registers if the ISP is disabled or marks the       *)
(* context changed; at a frame end the interrupt handler, under irqlock,   *)
(* writes the changed contexts, in the steps between which isp_ctrl can    *)
(* change.  The copy holds no lock the handler takes.  The ioctls of the   *)
(* device exclude each other (mlock); subscriptions take no lock.          *)
(*                                                                         *)
(* A context is two halves, which the copy fills one after the other in    *)
(* either order; a setting is a version number, counted for each block.    *)
(* User space leaves the changed flags, which lie in the context it passes,*)
(* FALSE, and passes memory that can be read.                              *)
(*                                                                         *)
(* Register isp_ctrl holds ISP_ENABLE, the enable of gamma and the color   *)
(* ranges of cc (its first half).  All who change it read it, change a bit *)
(* and write it back: the handler, isp_s_cc and isp_enable_gamma_out under *)
(* irqlock; isp_enable, isp_disable, isp_s_cnr and many more without.      *)
(***************************************************************************)
EXTENDS Integers, FiniteSets

CONSTANTS Blocks,      \* the blocks with a deferred context that are looked at
          Subscribers, \* handles that subscribe to the ISP's interrupts
          MaxSets,     \* bound on the ioctls that set something
          Envs         \* the environments: the windows each keeps closed

(***************************************************************************)
(* What the driver leaves to luck; an environment keeps some of it away.   *)
(*   frame_in_copy  a context is copied while the handler writes contexts  *)
(*   torn_ctrl      the handler and an ioctl change isp_ctrl at the same   *)
(*                  time: the later write undoes the earlier one           *)
(*   partial_cc     S_CC without coefficients while one with them waits    *)
(*   gamma_enable   S_GAMMA_OUT while an enable or disable of it waits     *)
(*   curve          S_WDR_CURVE after a WDR_CONFIG                         *)
(*   other_leaves   an unsubscribe while another handle is subscribed      *)
(*   late_call      an unsubscribe while the handler is about to post      *)
(***************************************************************************)
Windows == {"frame_in_copy", "torn_ctrl", "partial_cc", "gamma_enable", "curve",
            "other_leaves", "late_call"}

AllBlocks == {"cproc", "cc", "awb", "flt", "wdr", "gamma"}

ASSUME IspDeferredAssumption ==
    /\ Blocks \subseteq AllBlocks
    /\ IsFiniteSet(Subscribers) /\ MaxSets \in Nat
    /\ Envs \subseteq SUBSET Windows

Versions == 0 .. MaxSets
Settings == [lo : Versions, hi : Versions]

VARIABLES
    closed,         \* the windows this behaviour keeps closed
    enabled,        \* ISP_ENABLE in isp_ctrl
    irq,            \* frame interrupts are unmasked
    ctx,            \* per block: its context: two halves, changed, update_curve
    enableGamma, enable_changed,
    regs,           \* per block: its registers
    gammaOn,        \* GAMMA_OUT_ENABLE in isp_ctrl
    pc, cur,        \* the ioctl in progress: its step, its request
    issued,         \* settings asked for so far, of all blocks
    wanted, gammaWanted, \* ghost: what user space asked for last
    asked,          \* ghost: per block, what it ever asked for
    subs, post_event, spc, \* who is subscribed; dev->post_event set?; leaving
    isr, hctrl,     \* the handler: its step, the isp_ctrl it will write
    fault           \* it called a null pointer

device == <<enabled, irq>>
contexts == <<ctx, enableGamma, enable_changed>>
hardware == <<regs, gammaOn>>
ioctl == <<pc, cur, issued>>
ghost == <<wanted, gammaWanted, asked>>
events == <<subs, post_event, spc, fault>>
handler == <<isr, hctrl>>
vars == <<closed, device, contexts, hardware, ioctl, ghost, events, handler>>

Shut(W) == W \subseteq closed

Ops == {"set", "curve", "ctrl"}
NoRequest == [op |-> "set", block |-> "cproc", n |-> 0, gamma |-> FALSE, upd |-> TRUE,
              on |-> FALSE, left |-> {}]
NoCtrl == [on |-> FALSE, gamma |-> FALSE, n |-> 0]

\* The handler holds irqlock.
IrqLocked == isr \in {"cc", "rest", "gamma"}

\* An ISP that runs has its interrupts between ioctls, unless the handler set
\* ISP_ENABLE again after isp_stop_stream.
TypeOK ==
    /\ closed \in Envs /\ enabled \in BOOLEAN /\ irq \in BOOLEAN
    /\ ctx \in [Blocks -> [lo : Versions, hi : Versions, changed : BOOLEAN, upd : BOOLEAN]]
    /\ enableGamma \in BOOLEAN /\ enable_changed \in BOOLEAN
    /\ regs \in [Blocks -> Settings] /\ gammaOn \in BOOLEAN
    /\ pc \in {"idle", "copy", "control"}
    /\ cur \in [op : Ops, block : AllBlocks, n : Versions, gamma : BOOLEAN, upd : BOOLEAN,
                on : BOOLEAN, left : SUBSET {"lo", "hi"}]
    /\ issued \in Versions
    /\ wanted \in [Blocks -> Settings] /\ gammaWanted \in BOOLEAN
    /\ asked \in [Blocks -> SUBSET Settings]
    /\ subs \in SUBSET Subscribers /\ post_event \in BOOLEAN
    /\ spc \in [Subscribers -> {"idle", "subscribe", "unsubscribe"}]
    /\ isr \in {"idle", "frame", "cc", "rest", "gamma", "post"} /\ fault \in BOOLEAN
    /\ hctrl \in [on : BOOLEAN, gamma : BOOLEAN, n : Versions]
    /\ pc = "copy" <=> cur.left # {}
    /\ Shut({"torn_ctrl"}) /\ enabled /\ pc = "idle" => irq

Reset0 == [lo |-> 0, hi |-> 0]

\* isp_hw_probe: zeroed contexts, registers after reset.
Init ==
    /\ closed \in Envs /\ enabled = FALSE /\ irq = FALSE
    /\ ctx = [b \in Blocks |-> [lo |-> 0, hi |-> 0, changed |-> FALSE, upd |-> FALSE]]
    /\ enableGamma = FALSE /\ enable_changed = FALSE
    /\ regs = [b \in Blocks |-> Reset0] /\ gammaOn = FALSE
    /\ pc = "idle" /\ cur = NoRequest /\ issued = 0
    /\ wanted = [b \in Blocks |-> Reset0] /\ gammaWanted = FALSE
    /\ asked = [b \in Blocks |-> {Reset0}]
    /\ subs = {} /\ post_event = FALSE /\ spc = [s \in Subscribers |-> "idle"]
    /\ isr = "idle" /\ hctrl = NoCtrl /\ fault = FALSE
-----------------------------------------------------------------------------
(* Writing a block's registers: isp_s_cproc, isp_s_cc, isp_s_flt,          *)
(* isp_s_wdr, isp_s_gamma_out.                                             *)

(* Mutant: the first half only.                                            *)
WrittenFirstHalf(b) == [lo |-> ctx[b].lo, hi |-> regs[b].hi]

\* isp_s_cc writes the coefficients only with update_curve.
Written(b) == [lo |-> ctx[b].lo, hi |-> IF ctx[b].upd THEN ctx[b].hi ELSE regs[b].hi]

\* isp_s_awb does not clear awb.changed.
Cleared(b) == IF b = "awb" THEN ctx[b] ELSE [ctx[b] EXCEPT !.changed = FALSE]
-----------------------------------------------------------------------------
(* The ioctls that set a context.                                          *)
Fresh(b) == ctx[b].lo + 1

\* A setting without coefficients keeps those asked for before.
Wanted(b, upd) == [lo |-> Fresh(b), hi |-> IF upd THEN Fresh(b) ELSE wanted[b].hi]

Set(b, gamma, upd) ==
    /\ pc = "idle" /\ issued < MaxSets
    /\ upd \/ b = "cc"
    /\ gamma => b = "gamma"
    /\ "frame_in_copy" \in closed => ~IrqLocked
    /\ ~upd /\ "partial_cc" \in closed => ~(ctx["cc"].changed /\ ctx["cc"].upd)
    /\ b = "gamma" /\ "gamma_enable" \in closed => ~enable_changed
    /\ pc' = "copy" /\ issued' = issued + 1
    /\ cur' = [NoRequest EXCEPT !.block = b, !.n = Fresh(b), !.gamma = gamma, !.upd = upd,
                                !.left = {"lo", "hi"}]
    /\ wanted' = [wanted EXCEPT ![b] = Wanted(b, upd)]
    /\ asked' = [asked EXCEPT ![b] = @ \cup {Wanted(b, upd)}]
    /\ UNCHANGED <<device, contexts, hardware, gammaWanted, events, handler>>

\* S_WDR_CURVE passes a whole context, and asks for the curve only.
SetWdrCurve ==
    /\ pc = "idle" /\ issued < MaxSets /\ "wdr" \in Blocks
    /\ "frame_in_copy" \in closed => ~IrqLocked
    /\ "curve" \in closed => wanted["wdr"] = Reset0
    /\ pc' = "copy" /\ issued' = issued + 1
    /\ cur' = [NoRequest EXCEPT !.op = "curve", !.block = "wdr", !.n = Fresh("wdr"),
                                !.left = {"lo", "hi"}]
    /\ UNCHANGED <<device, contexts, hardware, ghost, events, handler>>

(* copy_from_user, one half; the flags come with the first half, and       *)
(* gamma_out brings its enableGamma and enable_changed.                    *)
Copy(half) ==
    LET b == cur.block IN
    /\ pc = "copy" /\ half \in cur.left
    /\ ctx' = [ctx EXCEPT ![b] =
                 IF half = "lo" THEN [@ EXCEPT !.lo = cur.n, !.changed = FALSE, !.upd = cur.upd]
                                ELSE [@ EXCEPT !.hi = cur.n]]
    /\ IF half = "lo" /\ b = "gamma"
         THEN enableGamma' = cur.gamma /\ enable_changed' = FALSE
         ELSE UNCHANGED <<enableGamma, enable_changed>>
    /\ cur' = [cur EXCEPT !.left = @ \ {half}]
    /\ pc' = IF cur.left = {half} THEN "control" ELSE "copy"
    /\ UNCHANGED <<device, hardware, issued, ghost, events, handler>>

Done == pc' = "idle" /\ cur' = NoRequest /\ UNCHANGED issued

WriteContext(b) ==
    regs' = [regs EXCEPT ![b] = Written(b)] /\ ctx' = [ctx EXCEPT ![b] = Cleared(b)]

(* Mutant: with the ISP running the context is not marked.                 *)
ControlUnmarked ==
    /\ pc = "control" /\ cur.op = "set" /\ ~IrqLocked
    /\ IF enabled THEN UNCHANGED <<ctx, regs>> ELSE WriteContext(cur.block)
    /\ Done
    /\ UNCHANGED <<device, enableGamma, enable_changed, gammaOn, ghost, events, handler>>

\* isp_cproc_control, isp_cc_control, isp_awb_control, isp_s_flt_ctrl ...
Control ==
    /\ pc = "control" /\ cur.op = "set" /\ ~IrqLocked
    /\ IF enabled THEN ctx' = [ctx EXCEPT ![cur.block].changed = TRUE] /\ UNCHANGED regs
                  ELSE WriteContext(cur.block)
    /\ Done
    /\ UNCHANGED <<device, enableGamma, enable_changed, gammaOn, ghost, events, handler>>

\* isp_s_wdr_curve writes the curve, and zero to isp_wdr_offset, at once.
WriteWdrCurve ==
    /\ pc = "control" /\ cur.op = "curve"
    /\ regs' = [regs EXCEPT !["wdr"].hi = 0]
    /\ Done
    /\ UNCHANGED <<device, contexts, gammaOn, ghost, events, handler>>

\* isp_enable_gamma_out_ctrl
EnableGammaOut(v) ==
    /\ pc = "idle" /\ issued < MaxSets /\ "gamma" \in Blocks /\ ~IrqLocked
    /\ issued' = issued + 1
    /\ enableGamma' = v /\ gammaWanted' = v
    /\ IF enabled THEN enable_changed' = TRUE /\ UNCHANGED gammaOn
                  ELSE gammaOn' = v /\ enable_changed' = FALSE
    /\ UNCHANGED <<device, ctx, regs, pc, cur, wanted, asked, events, handler>>
-----------------------------------------------------------------------------
(* The ioctls that change isp_ctrl: read, then write back.                 *)
CcRange == IF "cc" \in Blocks THEN regs["cc"].lo ELSE 0

\* The register as it is now; and written, also the cc ranges it held.
IspCtrl == [on |-> enabled, gamma |-> gammaOn, n |-> CcRange]

PutCtrl(c) ==
    /\ enabled' = c.on /\ gammaOn' = c.gamma
    /\ regs' = IF "cc" \in Blocks THEN [regs EXCEPT !["cc"].lo = c.n] ELSE regs

ReadCtrl(on, mask) ==
    /\ pc = "idle"
    /\ "torn_ctrl" \in closed => isr \notin {"cc", "gamma"}
    /\ pc' = "control" /\ UNCHANGED issued
    /\ cur' = [NoRequest EXCEPT !.op = "ctrl", !.on = on, !.n = CcRange, !.gamma = gammaOn]
    /\ irq' = mask
    /\ UNCHANGED <<enabled, contexts, hardware, ghost, events, handler>>

WriteCtrl ==
    /\ pc = "control" /\ cur.op = "ctrl"
    /\ PutCtrl(cur)
    /\ Done
    /\ UNCHANGED <<irq, contexts, ghost, events, handler>>

(* Mutant: the interrupt mask is forgotten.                                *)
EnableMasked == ReadCtrl(TRUE, irq)

\* isp_enable, isp_start_stream: the interrupts first.
Enable == ReadCtrl(TRUE, TRUE)

\* isp_disable leaves the interrupts on.
Disable == ReadCtrl(FALSE, irq)

\* isp_stop_stream masks them, then isp_disable.
StopStream == ReadCtrl(FALSE, FALSE)

\* isp_s_cnr, isp_enable_wb, isp_enable_awb ...: a bit of another block.
ChangeCtrl == enabled /\ ReadCtrl(TRUE, irq)
-----------------------------------------------------------------------------
(* isp_hw_isr at a frame end.                                              *)
Frame ==
    /\ irq /\ isr = "idle"
    /\ isr' = "frame"
    /\ UNCHANGED <<device, contexts, hardware, ioctl, ghost, events, hctrl>>

WriteChanged(B) ==
    /\ regs' = [b \in Blocks |-> IF b \in B /\ ctx[b].changed THEN Written(b) ELSE regs[b]]
    /\ ctx' = [b \in Blocks |-> IF b \in B /\ ctx[b].changed THEN Cleared(b) ELSE ctx[b]]

\* It takes irqlock, writes cproc and, for a changed cc, reads isp_ctrl.
FrameEnd ==
    /\ isr = "frame"
    /\ "frame_in_copy" \in closed => pc # "copy"
    /\ WriteChanged({"cproc"})
    /\ IF "cc" \in Blocks /\ ctx["cc"].changed
         THEN /\ "torn_ctrl" \in closed => cur.op # "ctrl"
              /\ isr' = "cc" /\ hctrl' = IspCtrl
         ELSE isr' = "rest" /\ UNCHANGED hctrl
    /\ UNCHANGED <<device, enableGamma, enable_changed, gammaOn, ioctl, ghost, events>>

\* isp_s_cc writes isp_ctrl back with the new ranges, then the coefficients.
WriteCc ==
    /\ isr = "cc"
    /\ isr' = "rest" /\ hctrl' = NoCtrl
    /\ enabled' = hctrl.on /\ gammaOn' = hctrl.gamma
    /\ WriteContext("cc")
    /\ UNCHANGED <<irq, enableGamma, enable_changed, ioctl, ghost, events>>

(* Mutant: the handler calls post_event without the test.                  *)
LeaveUntested == isr' = "post"

\* irqlock is released and dev->post_event tested.
Leave == isr' = IF post_event THEN "post" ELSE "idle"

GammaFirst == "gamma" \in Blocks /\ ctx["gamma"].changed

(* Mutant: the flag of the enable is dropped although the curve came first.*)
ReadGammaEnableDropped ==
    IF enable_changed /\ ~GammaFirst
      THEN /\ "torn_ctrl" \in closed => cur.op # "ctrl"
           /\ isr' = "gamma" /\ hctrl' = [IspCtrl EXCEPT !.gamma = enableGamma]
           /\ UNCHANGED enable_changed
      ELSE Leave /\ enable_changed' = FALSE /\ UNCHANGED hctrl

\* isp_enable_gamma_out reads isp_ctrl; it is called if no curve came first.
ReadGammaEnable ==
    IF enable_changed /\ ~GammaFirst
      THEN /\ "torn_ctrl" \in closed => cur.op # "ctrl"
           /\ isr' = "gamma" /\ hctrl' = [IspCtrl EXCEPT !.gamma = enableGamma]
           /\ UNCHANGED enable_changed
      ELSE Leave /\ UNCHANGED <<enable_changed, hctrl>>

\* The other changed contexts.
WriteRest ==
    /\ isr = "rest"
    /\ WriteChanged({"awb", "flt", "wdr", "gamma"})
    /\ ReadGammaEnable
    /\ UNCHANGED <<device, enableGamma, gammaOn, ioctl, ghost, events>>

\* isp_enable_gamma_out writes isp_ctrl back.
WriteGamma ==
    /\ isr = "gamma"
    /\ PutCtrl(hctrl)
    /\ enable_changed' = FALSE /\ hctrl' = NoCtrl
    /\ Leave
    /\ UNCHANGED <<irq, ctx, enableGamma, ioctl, ghost, events>>

\* ... and read again and called.
PostEvent ==
    /\ isr = "post"
    /\ isr' = "idle"
    /\ fault' = (fault \/ ~post_event)
    /\ UNCHANGED <<device, contexts, hardware, ioctl, ghost, subs, post_event, spc, hctrl>>
-----------------------------------------------------------------------------
(* Subscription to the interrupts.                                         *)
Subscribe(s) ==
    /\ spc[s] = "idle" /\ s \notin subs
    /\ post_event' = TRUE
    /\ spc' = [spc EXCEPT ![s] = "subscribe"]
    /\ UNCHANGED <<device, contexts, hardware, ioctl, ghost, subs, fault, handler>>

Subscribed(s) ==
    /\ spc[s] = "subscribe"
    /\ subs' = subs \cup {s}
    /\ spc' = [spc EXCEPT ![s] = "idle"]
    /\ UNCHANGED <<device, contexts, hardware, ioctl, ghost, post_event, fault, handler>>

Unsubscribe(s) ==
    /\ spc[s] = "idle" /\ s \in subs
    /\ "other_leaves" \in closed =>
         \A t \in Subscribers \ {s} : t \notin subs /\ spc[t] = "idle"
    /\ "late_call" \in closed => isr # "post"
    /\ post_event' = FALSE
    /\ spc' = [spc EXCEPT ![s] = "unsubscribe"]
    /\ UNCHANGED <<device, contexts, hardware, ioctl, ghost, subs, fault, handler>>

Unsubscribed(s) ==
    /\ spc[s] = "unsubscribe"
    /\ subs' = subs \ {s}
    /\ spc' = [spc EXCEPT ![s] = "idle"]
    /\ UNCHANGED <<device, contexts, hardware, ioctl, ghost, post_event, fault, handler>>
-----------------------------------------------------------------------------
Ioctl ==
    \/ \E h \in {"lo", "hi"} : Copy(h)
    \/ Control \/ WriteWdrCurve \/ WriteCtrl

Handler == FrameEnd \/ WriteCc \/ WriteRest \/ WriteGamma

Step ==
    \/ \E b \in Blocks, g, u \in BOOLEAN : Set(b, g, u)
    \/ SetWdrCurve \/ Ioctl \/ \E v \in BOOLEAN : EnableGammaOut(v)
    \/ Enable \/ Disable \/ StopStream \/ ChangeCtrl
    \/ Frame \/ Handler \/ PostEvent
    \/ \E s \in Subscribers : Subscribe(s) \/ Subscribed(s) \/ Unsubscribe(s) \/ Unsubscribed(s)

Next == Step /\ UNCHANGED closed

Spec == Init /\ [][Next]_vars

(* The kernel runs an ioctl and the handler on, and an ioctl that waits    *)
(* for irqlock gets it between two frames (strong fairness: the queued     *)
(* spinlock grants it in turn); frames of a stream end again and again,    *)
(* also at times that no ioctl copies or changes isp_ctrl (strong          *)
(* fairness: an ioctl may be called again and again).                      *)
FairSpec ==
    /\ Spec
    /\ SF_vars(Ioctl /\ UNCHANGED closed) /\ WF_vars(PostEvent /\ UNCHANGED closed)
    /\ WF_vars(Frame /\ UNCHANGED closed) /\ SF_vars(Handler /\ UNCHANGED closed)
-----------------------------------------------------------------------------
\* Of the contexts, only that of cc has a part in isp_ctrl.
Untorn(b) == b = "cc" => Shut({"torn_ctrl"})

(* The registers of a block only ever hold a setting user space asked for: *)
(* neither half of one context with half of another (the copy runs without *)
(* irqlock), nor a partial setting that swallowed the one before it.       *)
AskedSettings ==
    Shut({"frame_in_copy", "partial_cc", "curve"}) =>
      \A b \in Blocks : Untorn(b) => regs[b] \in asked[b]

(* No setting is lost: between ioctls a block that is not marked changed   *)
(* runs with the last setting, and gamma is on or off as last asked.       *)
NoLostSetting ==
    Shut({"partial_cc", "curve"}) /\ pc = "idle" =>
      /\ \A b \in Blocks : Untorn(b) => ctx[b].changed \/ regs[b] = wanted[b]
      /\ Shut({"torn_ctrl", "gamma_enable"}) => enable_changed \/ gammaOn = gammaWanted

(* Once a stream goes on and user space has set what it wants, all of it   *)
(* reaches the hardware, although gamma's curve and its enable never do at *)
(* the same frame end.                                                     *)
SettingsLand ==
    Shut({"torn_ctrl", "partial_cc", "gamma_enable", "curve"}) =>
      (<>[]enabled => <>[](gammaOn = gammaWanted /\ \A b \in Blocks : regs[b] = wanted[b]))

(* post_event, which all subscribers share and the handler calls without a *)
(* lock: whoever is subscribed is told, unless another one leaves, and the *)
(* handler never calls a null pointer, unless one leaves meanwhile.        *)
PostEventSound ==
    /\ Shut({"other_leaves"}) => \A s \in subs : spc[s] = "idle" => post_event
    /\ Shut({"late_call"}) => ~fault

(* What the comment at isp_wdr_context says: the WDR registers without     *)
(* shadow change after a frame end, while the ISP is enabled.              *)
WdrAtFrameEnd ==
    [][("wdr" \in Blocks /\ enabled /\ regs'["wdr"] # regs["wdr"]) => WriteRest]_vars
=============================================================================

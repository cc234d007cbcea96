------------------------- MODULE IspDeferredProofs -------------------------
(***************************************************************************)
(* Proofs about IspDeferred for any blocks, subscribers and settings.      *)
(***************************************************************************)
EXTENDS IspDeferred, TLAPS

(***************************************************************************)
(* The invariant.                                                          *)
(***************************************************************************)
InIoctl(o) == pc # "idle" /\ cur.op = o
BeingSet(b) == InIoctl("set") /\ cur.block = b

\* A setting has a number of its own.
Numbered ==
    /\ \A b \in Blocks : ctx[b].lo <= issued
    /\ InIoctl("set") \/ InIoctl("curve") => cur.block \in Blocks /\ cur.n \in 1 .. issued
    /\ InIoctl("curve") => cur.block = "wdr"
    /\ pc = "copy" => cur.op # "ctrl"

\* The handler writes a cc that is marked, or that was until its next setting
\* was copied.
CcMarked ==
    isr = "cc" =>
      "cc" \in Blocks /\ (ctx["cc"].changed \/ (BeingSet("cc") /\ "lo" \notin cur.left))

\* An ISP that runs has its interrupts, also between the steps of an ioctl,
\* if handler and ioctls do not overwrite each other's isp_ctrl ...
Unmasked ==
    Shut({"torn_ctrl"}) =>
      /\ (InIoctl("set") \/ InIoctl("curve")) /\ enabled => irq
      /\ InIoctl("ctrl") /\ cur.on => irq

\* ... for who is about to write isp_ctrl then still has what it holds.
Held ==
    Shut({"torn_ctrl"}) /\ isr \in {"cc", "gamma"} => hctrl.on = enabled /\ ~InIoctl("ctrl")

CtrlHeld ==
    /\ InIoctl("ctrl") => cur.n = CcRange /\ cur.gamma = gammaOn
    /\ isr \in {"cc", "gamma"} => hctrl.n = CcRange
    /\ isr = "cc" => hctrl.gamma = gammaOn

\* A block that no ioctl is setting has its last setting in the registers,
\* or marked for them.
Marked(b) ==
    IF ctx[b].changed
      THEN /\ ctx[b].lo = wanted[b].lo
           /\ (IF ctx[b].upd THEN ctx[b].hi ELSE regs[b].hi) = wanted[b].hi
      ELSE regs[b] = wanted[b]

\* One that an ioctl is setting has it in the halves copied so far.
Copied(b) ==
    /\ wanted[b].lo = cur.n
    /\ IF cur.upd THEN wanted[b].hi = cur.n ELSE wanted[b].hi = regs[b].hi
    /\ ~cur.upd /\ ctx[b].changed => ~ctx[b].upd
    /\ "lo" \notin cur.left => ctx[b].lo = cur.n /\ ~ctx[b].changed /\ ctx[b].upd = cur.upd
    /\ "hi" \notin cur.left => ctx[b].hi = cur.n

\* The curve of a block that was never set is what it was.
CurveAlone == InIoctl("curve") => wanted["wdr"] = Reset0

KeptAt(b) ==
    /\ IF BeingSet(b) THEN Copied(b) ELSE Marked(b)
    /\ ctx[b].changed => wanted[b].lo # 0

Kept == \A b \in Blocks : Untorn(b) => KeptAt(b)

GammaKept ==
    /\ IF enable_changed THEN enableGamma = gammaWanted ELSE gammaOn = gammaWanted
    /\ BeingSet("gamma") => ~enable_changed
    /\ isr = "gamma" => enable_changed /\ hctrl.gamma = enableGamma

\* The handler finds no context half copied.
NoCopy == IrqLocked => pc # "copy"

\* Whoever is subscribed, or about to be, has post_event set.
Told == \A s \in Subscribers :
          spc[s] = "subscribe" \/ (s \in subs /\ spc[s] = "idle") => post_event
Safe == ~fault /\ (isr = "post" => post_event)

Inv ==
    /\ TypeOK /\ Numbered /\ Unmasked /\ CcMarked /\ Held
    /\ \A b \in Blocks : wanted[b] \in asked[b]
    /\ Shut({"torn_ctrl"}) => CtrlHeld
    /\ Shut({"frame_in_copy"}) => NoCopy
    /\ Shut({"partial_cc", "curve"}) => Kept /\ CurveAlone
    /\ Shut({"frame_in_copy", "partial_cc", "curve"}) =>
         \A b \in Blocks : Untorn(b) => regs[b] \in asked[b]
    /\ Shut({"torn_ctrl", "gamma_enable"}) => GammaKept
    /\ Shut({"other_leaves"}) => Told
    /\ Shut({"late_call"}) => Safe
-----------------------------------------------------------------------------
(***************************************************************************)
(* Types.                                                                  *)
(***************************************************************************)
Contexts == [lo : Versions, hi : Versions, changed : BOOLEAN, upd : BOOLEAN]
Requests == [op : Ops, block : AllBlocks, n : Versions, gamma : BOOLEAN, upd : BOOLEAN,
             on : BOOLEAN, left : SUBSET {"lo", "hi"}]
Ctrls == [on : BOOLEAN, gamma : BOOLEAN, n : Versions]

LEMMA WrittenIs ==
    ASSUME TypeOK, NEW b \in Blocks
    PROVE  /\ Written(b) \in Settings
           /\ Written(b).lo = ctx[b].lo
           /\ Written(b).hi = IF ctx[b].upd THEN ctx[b].hi ELSE regs[b].hi
BY DEF TypeOK, Written, Settings

LEMMA ClearedIs ==
    ASSUME TypeOK, NEW b \in Blocks
    PROVE  /\ Cleared(b) \in Contexts
           /\ Cleared(b).lo = ctx[b].lo /\ Cleared(b).hi = ctx[b].hi
           /\ Cleared(b).upd = ctx[b].upd /\ (Cleared(b).changed => ctx[b].changed)
<1>1. ctx[b] \in Contexts
  BY DEF TypeOK, Contexts
<1>2. CASE b = "awb"
  BY <1>1, <1>2 DEF Cleared, Contexts
<1>3. CASE b # "awb"
  BY <1>1, <1>3 DEF Cleared, Contexts
<1> QED
  BY <1>2, <1>3

LEMMA SameSetting ==
    ASSUME NEW r \in Settings, NEW s \in Settings, r.lo = s.lo, r.hi = s.hi
    PROVE  r = s
BY DEF Settings

LEMMA InitInv == Init => Inv
<1> SUFFICES ASSUME Init PROVE Inv
  OBVIOUS
<1> USE DEF Init
<1>1. TypeOK
  <2>1. 0 \in Versions
    BY IspDeferredAssumption DEF Versions
  <2>2. NoRequest \in Requests /\ NoRequest.left = {} /\ Reset0 \in Settings
        /\ NoCtrl \in Ctrls
    BY <2>1 DEF NoRequest, Requests, Ops, AllBlocks, Reset0, Settings, NoCtrl, Ctrls
  <2> QED
    BY <2>1, <2>2 DEF TypeOK, Requests, Ctrls, Reset0
<1>2. Numbered /\ Unmasked /\ CcMarked /\ Held /\ CtrlHeld /\ NoCopy
  BY <1>1 DEF Numbered, Unmasked, CcMarked, Held, CtrlHeld, NoCopy, IrqLocked, InIoctl
<1>3. Kept /\ CurveAlone /\ GammaKept /\ Told /\ Safe
  BY <1>1 DEF Kept, KeptAt, GammaKept, Told, Safe, BeingSet, Marked, CurveAlone, InIoctl
<1> QED
  BY <1>1, <1>2, <1>3 DEF Inv
-----------------------------------------------------------------------------
(***************************************************************************)
(* What the actions do, field by field.                                    *)
(***************************************************************************)
Core == TypeOK /\ Numbered /\ Unmasked
Base == Core /\ CcMarked /\ Held

LEMMA SetIs ==
    ASSUME NEW b, NEW g, NEW u, Set(b, g, u)
    PROVE  /\ cur' = [op |-> "set", block |-> b, n |-> Fresh(b), gamma |-> g, upd |-> u,
                      on |-> FALSE, left |-> {"lo", "hi"}]
           /\ pc = "idle" /\ pc' = "copy" /\ issued < MaxSets /\ issued' = issued + 1
           /\ wanted' = [wanted EXCEPT ![b] = Wanted(b, u)]
           /\ asked' = [asked EXCEPT ![b] = @ \cup {Wanted(b, u)}]
           /\ UNCHANGED <<device, contexts, hardware, gammaWanted, events, handler>>
BY DEF Set, NoRequest

LEMMA CurveIs ==
    ASSUME SetWdrCurve
    PROVE  /\ cur' = [op |-> "curve", block |-> "wdr", n |-> Fresh("wdr"), gamma |-> FALSE,
                      upd |-> TRUE, on |-> FALSE, left |-> {"lo", "hi"}]
           /\ pc = "idle" /\ pc' = "copy" /\ issued < MaxSets /\ issued' = issued + 1
           /\ "wdr" \in Blocks
           /\ UNCHANGED <<device, contexts, hardware, ghost, events, handler>>
BY DEF SetWdrCurve, NoRequest

LEMMA ReadIs ==
    ASSUME NEW on, NEW mask, ReadCtrl(on, mask)
    PROVE  /\ cur' = [op |-> "ctrl", block |-> "cproc", n |-> CcRange, gamma |-> gammaOn,
                      upd |-> TRUE, on |-> on, left |-> {}]
           /\ pc = "idle" /\ pc' = "control" /\ issued' = issued /\ irq' = mask
           /\ UNCHANGED <<enabled, contexts, hardware, ghost, events, handler>>
BY DEF ReadCtrl, NoRequest

LEMMA IdleRequest == NoRequest \in Requests /\ NoRequest.left = {} /\ 0 \in Versions
<1>1. 0 \in Versions
  BY IspDeferredAssumption DEF Versions
<1> QED
  BY <1>1 DEF NoRequest, Requests, Ops, AllBlocks

\* Copy fills one half; with the first come the flags.
LEMMA CopyIs ==
    ASSUME Base, NEW half \in {"lo", "hi"}, Copy(half)
    PROVE  /\ cur.block \in Blocks /\ (InIoctl("set") \/ InIoctl("curve"))
           /\ ctx' \in [Blocks -> Contexts]
           /\ \A c \in Blocks : c # cur.block => ctx'[c] = ctx[c]
           /\ half = "lo" => /\ ctx'[cur.block].lo = cur.n /\ ctx'[cur.block].changed = FALSE
                             /\ ctx'[cur.block].upd = cur.upd
                             /\ ctx'[cur.block].hi = ctx[cur.block].hi
           /\ half = "hi" => /\ ctx'[cur.block].hi = cur.n
                             /\ ctx'[cur.block].lo = ctx[cur.block].lo
                             /\ ctx'[cur.block].changed = ctx[cur.block].changed
                             /\ ctx'[cur.block].upd = ctx[cur.block].upd
           /\ cur' \in Requests /\ cur'.left = cur.left \ {half} /\ half \in cur.left
           /\ cur'.op = cur.op /\ cur'.block = cur.block /\ cur'.n = cur.n
           /\ cur'.upd = cur.upd /\ cur'.gamma = cur.gamma
<1> DEFINE b == cur.block
<1>1. cur \in Requests /\ ctx \in [Blocks -> Contexts] /\ cur.op \in Ops
  BY DEF Base, Core, TypeOK, Requests, Contexts
<1>2. pc = "copy" /\ half \in cur.left /\ cur' = [cur EXCEPT !.left = @ \ {half}]
  BY DEF Copy
<1>3. InIoctl("set") \/ InIoctl("curve")
  BY <1>1, <1>2 DEF Base, Core, Numbered, InIoctl, Ops
<1>4. b \in Blocks
  BY <1>3 DEF Base, Core, Numbered
<1>5. cur.n \in Versions /\ cur.upd \in BOOLEAN /\ ctx[b] \in Contexts
  BY <1>1, <1>4 DEF Requests
<1>6. cur' \in Requests /\ cur'.left = cur.left \ {half}
      /\ cur'.op = cur.op /\ cur'.block = cur.block /\ cur'.n = cur.n
      /\ cur'.upd = cur.upd /\ cur'.gamma = cur.gamma
  BY <1>1, <1>2 DEF Requests
<1>7. CASE half = "lo"
  <2>1. ctx' = [ctx EXCEPT ![b] = [ctx[b] EXCEPT !.lo = cur.n, !.changed = FALSE, !.upd = cur.upd]]
    BY <1>7, <1>1, <1>4 DEF Copy
  <2> DEFINE d == [ctx[b] EXCEPT !.lo = cur.n, !.changed = FALSE, !.upd = cur.upd]
  <2>2. d \in Contexts /\ d.lo = cur.n /\ d.hi = ctx[b].hi /\ d.changed = FALSE /\ d.upd = cur.upd
    BY <1>5 DEF Contexts
  <2> HIDE DEF d
  <2>3. ctx' \in [Blocks -> Contexts] /\ ctx'[b] = d
        /\ \A c \in Blocks : c # b => ctx'[c] = ctx[c]
    BY <1>1, <1>4, <2>1, <2>2 DEF d
  <2> QED
    BY <1>2, <1>3, <1>4, <1>6, <1>7, <2>2, <2>3
<1>8. CASE half = "hi"
  <2>1. ctx' = [ctx EXCEPT ![b] = [ctx[b] EXCEPT !.hi = cur.n]]
    BY <1>8, <1>1, <1>4 DEF Copy
  <2>2. [ctx[b] EXCEPT !.hi = cur.n]
          = [lo |-> ctx[b].lo, hi |-> cur.n, changed |-> ctx[b].changed, upd |-> ctx[b].upd]
    BY <1>5 DEF Contexts
  <2>3. ctx' = [ctx EXCEPT ![b] = [lo |-> ctx[b].lo, hi |-> cur.n, changed |-> ctx[b].changed,
                                   upd |-> ctx[b].upd]]
    BY <2>1, <2>2
  <2> QED
    BY <1>1, <1>2, <1>3, <1>4, <1>5, <1>6, <1>8, <2>3 DEF Contexts
<1> QED
  BY <1>7, <1>8

\* What is written to a block's registers is what its context holds, but
\* for the half that is left out.
WrittenTo(b) ==
    /\ regs'[b] = Written(b) /\ ctx'[b] = Cleared(b)

LEMMA ControlIs ==
    ASSUME Base, Control
    PROVE  /\ cur.block \in Blocks /\ InIoctl("set") /\ cur.left = {}
           /\ ctx' \in [Blocks -> Contexts] /\ regs' \in [Blocks -> Settings]
           /\ \A c \in Blocks : c # cur.block => ctx'[c] = ctx[c] /\ regs'[c] = regs[c]
           /\ enabled => /\ regs' = regs /\ ctx'[cur.block].lo = ctx[cur.block].lo
                         /\ ctx'[cur.block].hi = ctx[cur.block].hi
                         /\ ctx'[cur.block].upd = ctx[cur.block].upd
                         /\ ctx'[cur.block].changed = TRUE
           /\ ~enabled => WrittenTo(cur.block)
           /\ cur' = NoRequest /\ pc' = "idle" /\ issued' = issued
<1> DEFINE b == cur.block
<1>1. ctx \in [Blocks -> Contexts] /\ regs \in [Blocks -> Settings]
  BY DEF Base, Core, TypeOK, Contexts
<1>2. InIoctl("set") /\ cur.left = {} /\ cur' = NoRequest /\ pc' = "idle" /\ issued' = issued
  BY DEF Control, InIoctl, Base, Core, TypeOK, Done
<1>3. b \in Blocks
  BY <1>2 DEF Base, Core, Numbered
<1>4. CASE enabled
  <2>1. ctx' = [ctx EXCEPT ![b].changed = TRUE] /\ regs' = regs
    BY <1>4 DEF Control
  <2> QED
    BY <1>1, <1>2, <1>3, <1>4, <2>1 DEF Contexts
<1>5. CASE ~enabled
  <2>1. regs' = [regs EXCEPT ![b] = Written(b)] /\ ctx' = [ctx EXCEPT ![b] = Cleared(b)]
    BY <1>5 DEF Control, WriteContext
  <2>2. Written(b) \in Settings /\ Cleared(b) \in Contexts
    BY <1>3, WrittenIs, ClearedIs DEF Base, Core
  <2> QED
    BY <1>1, <1>2, <1>3, <1>5, <2>1, <2>2 DEF WrittenTo
<1> QED
  BY <1>4, <1>5

LEMMA WriteChangedIs ==
    ASSUME Base, NEW B, WriteChanged(B)
    PROVE  /\ ctx' \in [Blocks -> Contexts] /\ regs' \in [Blocks -> Settings]
           /\ \A b \in Blocks : IF b \in B /\ ctx[b].changed THEN WrittenTo(b)
                                 ELSE ctx'[b] = ctx[b] /\ regs'[b] = regs[b]
<1>1. ctx \in [Blocks -> Contexts] /\ regs \in [Blocks -> Settings]
  BY DEF Base, Core, TypeOK, Contexts
<1>2. \A b \in Blocks : Written(b) \in Settings /\ Cleared(b) \in Contexts
  BY WrittenIs, ClearedIs DEF Base, Core
<1>3. /\ regs' = [b \in Blocks |-> IF b \in B /\ ctx[b].changed THEN Written(b) ELSE regs[b]]
      /\ ctx' = [b \in Blocks |-> IF b \in B /\ ctx[b].changed THEN Cleared(b) ELSE ctx[b]]
  BY DEF WriteChanged
<1> QED
  BY <1>1, <1>2, <1>3 DEF WrittenTo

LEMMA WriteCcIs ==
    ASSUME Base, WriteCc
    PROVE  /\ "cc" \in Blocks /\ WrittenTo("cc")
           /\ ctx' \in [Blocks -> Contexts] /\ regs' \in [Blocks -> Settings]
           /\ \A c \in Blocks : c # "cc" => ctx'[c] = ctx[c] /\ regs'[c] = regs[c]
<1>1. ctx \in [Blocks -> Contexts] /\ regs \in [Blocks -> Settings]
  BY DEF Base, Core, TypeOK, Contexts
<1>2. "cc" \in Blocks
  BY DEF WriteCc, Base, CcMarked
<1>3. Written("cc") \in Settings /\ Cleared("cc") \in Contexts
  BY <1>2, WrittenIs, ClearedIs DEF Base, Core
<1>4. regs' = [regs EXCEPT !["cc"] = Written("cc")] /\ ctx' = [ctx EXCEPT !["cc"] = Cleared("cc")]
  BY DEF WriteCc, WriteContext
<1> QED
  BY <1>1, <1>2, <1>3, <1>4 DEF WrittenTo

\* isp_ctrl written back changes, of the contexts, the ranges of cc.
LEMMA PutCtrlIs ==
    ASSUME Base, NEW c, c.n \in Versions, PutCtrl(c)
    PROVE  /\ enabled' = c.on /\ gammaOn' = c.gamma
           /\ regs' \in [Blocks -> Settings] /\ \A b \in Blocks : b # "cc" => regs'[b] = regs[b]
           /\ "cc" \in Blocks => regs'["cc"].lo = c.n /\ regs'["cc"].hi = regs["cc"].hi
<1>1. regs \in [Blocks -> Settings]
  BY DEF Base, Core, TypeOK
<1>2. CASE "cc" \in Blocks
  <2>1. regs' = [regs EXCEPT !["cc"].lo = c.n]
    BY <1>2 DEF PutCtrl
  <2>2. /\ regs' \in [Blocks -> Settings] /\ \A b \in Blocks : b # "cc" => regs'[b] = regs[b]
        /\ regs'["cc"].lo = c.n /\ regs'["cc"].hi = regs["cc"].hi
    BY <1>1, <1>2, <2>1 DEF Settings
  <2> QED
    BY <2>2 DEF PutCtrl
<1>3. CASE "cc" \notin Blocks
  BY <1>1, <1>3 DEF PutCtrl
<1> QED
  BY <1>2, <1>3

LEMMA WriteWdrCurveIs ==
    ASSUME Base, WriteWdrCurve
    PROVE  /\ "wdr" \in Blocks /\ InIoctl("curve")
           /\ regs' \in [Blocks -> Settings] /\ \A c \in Blocks : c # "wdr" => regs'[c] = regs[c]
           /\ regs'["wdr"].lo = regs["wdr"].lo /\ regs'["wdr"].hi = 0
           /\ cur' = NoRequest /\ pc' = "idle" /\ issued' = issued
           /\ UNCHANGED <<device, contexts, gammaOn, ghost, events, handler>>
<1>1. regs \in [Blocks -> Settings] /\ 0 \in Versions
  BY IdleRequest DEF Base, Core, TypeOK
<1>2. InIoctl("curve") /\ "wdr" \in Blocks
  BY DEF Base, Core, Numbered, WriteWdrCurve, InIoctl
<1>3. regs' = [regs EXCEPT !["wdr"].hi = 0]
  BY DEF WriteWdrCurve
<1>4. /\ regs' \in [Blocks -> Settings] /\ \A c \in Blocks : c # "wdr" => regs'[c] = regs[c]
      /\ regs'["wdr"].lo = regs["wdr"].lo /\ regs'["wdr"].hi = 0
  BY <1>1, <1>2, <1>3 DEF Settings
<1> QED
  BY <1>2, <1>4 DEF WriteWdrCurve, Done

LEMMA WriteCtrlIs ==
    ASSUME Base, WriteCtrl
    PROVE  /\ InIoctl("ctrl") /\ enabled' = cur.on /\ gammaOn' = cur.gamma
           /\ regs' \in [Blocks -> Settings] /\ \A c \in Blocks : c # "cc" => regs'[c] = regs[c]
           /\ "cc" \in Blocks => regs'["cc"].lo = cur.n /\ regs'["cc"].hi = regs["cc"].hi
           /\ cur' = NoRequest /\ pc' = "idle" /\ issued' = issued
           /\ UNCHANGED <<irq, contexts, ghost, events, handler>>
<1>1. cur.n \in Versions /\ PutCtrl(cur)
  BY DEF Base, Core, TypeOK, WriteCtrl
<1>2. /\ InIoctl("ctrl") /\ cur' = NoRequest /\ pc' = "idle" /\ issued' = issued
      /\ UNCHANGED <<irq, contexts, ghost, events, handler>>
  BY DEF WriteCtrl, Done, InIoctl
<1> QED
  BY <1>1, <1>2, PutCtrlIs

LEMMA IspCtrlIs ==
    ASSUME Base
    PROVE  /\ IspCtrl \in Ctrls /\ IspCtrl.on = enabled /\ IspCtrl.gamma = gammaOn
           /\ IspCtrl.n = CcRange
<1>1. CcRange \in Versions
  BY IdleRequest DEF CcRange, Base, Core, TypeOK, Settings
<1> QED
  BY <1>1 DEF IspCtrl, Ctrls, Base, Core, TypeOK

\* The handler's last write.
LEMMA WriteGammaIs ==
    ASSUME Base, WriteGamma
    PROVE  /\ enabled' = hctrl.on /\ gammaOn' = hctrl.gamma
           /\ regs' \in [Blocks -> Settings] /\ \A c \in Blocks : c # "cc" => regs'[c] = regs[c]
           /\ "cc" \in Blocks => regs'["cc"].lo = hctrl.n /\ regs'["cc"].hi = regs["cc"].hi
<1>1. hctrl.n \in Versions /\ PutCtrl(hctrl)
  BY DEF Base, Core, TypeOK, WriteGamma
<1> QED
  BY <1>1, PutCtrlIs
-----------------------------------------------------------------------------
(***************************************************************************)
(* Base: types, and what an ioctl in progress is about.                    *)
(***************************************************************************)
LEMMA SetBase ==
    ASSUME Base, NEW b \in Blocks, NEW g \in BOOLEAN, NEW u \in BOOLEAN, Set(b, g, u),
           UNCHANGED closed
    PROVE  Core'
<1>0. MaxSets \in Nat /\ b \in AllBlocks
  BY IspDeferredAssumption
<1>1. Fresh(b) \in 1 .. issued + 1 /\ issued + 1 \in Versions /\ Fresh(b) \in Versions
  <2>1. ctx[b].lo \in Versions /\ ctx[b].lo <= issued /\ issued \in Versions /\ issued < MaxSets
    BY SetIs DEF Base, Core, TypeOK, Numbered
  <2> QED
    BY <1>0, <2>1 DEF Fresh, Versions
<1>2. /\ cur' = [op |-> "set", block |-> b, n |-> Fresh(b), gamma |-> g, upd |-> u,
                 on |-> FALSE, left |-> {"lo", "hi"}]
      /\ pc' = "copy" /\ issued' = issued + 1
      /\ UNCHANGED <<device, contexts, hardware, gammaWanted, events, handler>>
  BY SetIs
<1>3. cur' \in Requests
  BY <1>0, <1>1, <1>2 DEF Requests, Ops
<1>4. Wanted(b, u) \in Settings
  BY <1>1 DEF Wanted, Settings, Base, Core, TypeOK
<1>5. wanted' \in [Blocks -> Settings] /\ asked' \in [Blocks -> SUBSET Settings]
  BY SetIs, <1>4 DEF Base, Core, TypeOK
<1>6. TypeOK'
  BY <1>1, <1>2, <1>5, <1>3
     DEF Base, Core, TypeOK, Requests, device, contexts, hardware, events, handler
<1>7. Numbered'
  <2>1. \A c \in Blocks : ctx[c].lo \in Versions /\ ctx[c].lo <= issued /\ issued \in Versions
    BY DEF Base, Core, TypeOK, Numbered
  <2>2. \A c \in Blocks : ctx'[c].lo <= issued'
    BY <1>0, <1>2, <2>1 DEF Versions, contexts
  <2> QED
    BY <1>1, <1>2, <2>2 DEF Numbered, InIoctl
<1>8. Unmasked'
  BY <1>2, SetIs DEF Base, Core, TypeOK, Unmasked, InIoctl, device, Shut
<1> QED
  BY <1>6, <1>7, <1>8 DEF Core

LEMMA CurveBase ==
    ASSUME Base, SetWdrCurve, UNCHANGED closed
    PROVE  Core'
<1>0. MaxSets \in Nat /\ "wdr" \in AllBlocks /\ "wdr" \in Blocks
  BY CurveIs, IspDeferredAssumption
<1>1. Fresh("wdr") \in 1 .. issued + 1 /\ issued + 1 \in Versions /\ Fresh("wdr") \in Versions
  <2>1. /\ ctx["wdr"].lo \in Versions /\ ctx["wdr"].lo <= issued /\ issued \in Versions
        /\ issued < MaxSets
    BY <1>0, CurveIs DEF Base, Core, TypeOK, Numbered
  <2> QED
    BY <1>0, <2>1 DEF Fresh, Versions
<1>2. /\ cur' = [op |-> "curve", block |-> "wdr", n |-> Fresh("wdr"), gamma |-> FALSE,
                 upd |-> TRUE, on |-> FALSE, left |-> {"lo", "hi"}]
      /\ pc' = "copy" /\ issued' = issued + 1
      /\ UNCHANGED <<device, contexts, hardware, ghost, events, handler>>
  BY CurveIs
<1>3. cur' \in Requests
  BY <1>0, <1>1, <1>2 DEF Requests, Ops
<1>4. TypeOK'
  BY <1>1, <1>2, <1>3
     DEF Base, Core, TypeOK, Requests, device, contexts, hardware, ghost, events, handler
<1>5. Numbered'
  <2>1. \A c \in Blocks : ctx[c].lo \in Versions /\ ctx[c].lo <= issued /\ issued \in Versions
    BY DEF Base, Core, TypeOK, Numbered
  <2>2. \A c \in Blocks : ctx'[c].lo <= issued'
    BY <1>0, <1>2, <2>1 DEF Versions, contexts
  <2> QED
    BY <1>0, <1>1, <1>2, <2>2 DEF Numbered, InIoctl
<1>6. Unmasked'
  BY CurveIs DEF Base, Core, TypeOK, Unmasked, InIoctl, device, Shut
<1> QED
  BY <1>4, <1>5, <1>6 DEF Core

LEMMA CopyBase ==
    ASSUME Base, NEW half \in {"lo", "hi"}, Copy(half), UNCHANGED closed
    PROVE  Core'
<1>1. /\ pc = "copy" /\ pc' = (IF cur.left = {half} THEN "control" ELSE "copy")
      /\ UNCHANGED <<device, hardware, issued, ghost, events, handler>>
      /\ enableGamma' \in BOOLEAN /\ enable_changed' \in BOOLEAN
  BY DEF Copy, Base, Core, TypeOK
<1>2. pc' = "copy" <=> cur'.left # {}
  BY CopyIs, <1>1
<1>3. TypeOK'
  <2>1. cur' \in Requests /\ ctx' \in [Blocks -> Contexts]
    BY CopyIs
  <2> QED
    BY <1>1, <1>2, <2>1
       DEF Base, Core, TypeOK, Requests, Contexts, device, hardware, ghost, events, handler
<1>4. Numbered'
  <2>1. cur.n \in 1 .. issued /\ issued \in Nat
    <3>1. cur.n \in 1 .. issued /\ issued \in Versions
      BY CopyIs DEF Base, Core, TypeOK, Numbered
    <3> QED
      BY <3>1, IspDeferredAssumption DEF Versions
  <2>2. issued' = issued
    BY DEF Copy
  <2>3. \A c \in Blocks : ctx'[c].lo <= issued
    <3>1. /\ \A c \in Blocks : c # cur.block => ctx'[c] = ctx[c]
          /\ ctx'[cur.block].lo \in {cur.n, ctx[cur.block].lo} /\ cur.block \in Blocks
      BY CopyIs
    <3>2. \A c \in Blocks : ctx[c].lo <= issued
      BY DEF Base, Core, Numbered
    <3> QED
      BY <2>1, <3>1, <3>2
  <2> QED
    BY CopyIs, <1>1, <2>1, <2>2, <2>3 DEF Base, Core, Numbered, InIoctl
<1>5. Unmasked'
  <2>1. cur.op # "ctrl" /\ cur'.op = cur.op
    BY CopyIs DEF InIoctl
  <2> QED
    BY <1>1, <2>1 DEF Base, Core, Unmasked, InIoctl, device, Shut
<1> QED
  BY <1>3, <1>4, <1>5 DEF Core

\* The steps that leave the request and the contexts' numbers alone, or end
\* the request.
LEMMA QuietBase ==
    ASSUME Base, TypeOK', UNCHANGED issued, UNCHANGED <<pc, cur>> \/ pc' = "idle",
           \A b \in Blocks : ctx'[b].lo = ctx[b].lo, UNCHANGED <<closed, irq>>,
           Shut({"torn_ctrl"}) => UNCHANGED enabled \/ pc' = "idle"
    PROVE  Core'
BY DEF Base, Core, Numbered, Unmasked, InIoctl, Shut

LEMMA ControlBase ==
    ASSUME Base, Control, UNCHANGED closed
    PROVE  Core'
<1>1. UNCHANGED <<device, enableGamma, enable_changed, gammaOn, ghost, events, handler>>
  BY DEF Control
<1>2. /\ ctx' \in [Blocks -> Contexts] /\ regs' \in [Blocks -> Settings]
      /\ cur' = NoRequest /\ pc' = "idle" /\ issued' = issued
      /\ Shut({"torn_ctrl"}) /\ enabled => irq
  BY ControlIs DEF Base, Core, Unmasked
<1>3. TypeOK'
  BY <1>1, <1>2, IdleRequest
     DEF Base, Core, TypeOK, Requests, Contexts, device, ghost, events, handler, Shut
<1>4. \A b \in Blocks : ctx'[b].lo = ctx[b].lo
  <2>1. /\ cur.block \in Blocks
        /\ \A c \in Blocks : c # cur.block => ctx'[c] = ctx[c]
        /\ enabled => ctx'[cur.block].lo = ctx[cur.block].lo
        /\ ~enabled => ctx'[cur.block] = Cleared(cur.block)
    BY ControlIs DEF WrittenTo
  <2>2. \A b \in Blocks : Cleared(b).lo = ctx[b].lo
    BY ClearedIs DEF Base, Core
  <2> QED
    BY <2>1, <2>2
<1> QED
  BY <1>1, <1>2, <1>3, <1>4, QuietBase DEF device

LEMMA WriteWdrCurveBase ==
    ASSUME Base, WriteWdrCurve, UNCHANGED closed
    PROVE  Core'
<1>1. /\ UNCHANGED <<device, contexts, gammaOn, ghost, events, handler>>
      /\ regs' \in [Blocks -> Settings] /\ cur' = NoRequest /\ pc' = "idle" /\ issued' = issued
      /\ Shut({"torn_ctrl"}) /\ enabled => irq
  BY WriteWdrCurveIs DEF Base, Core, Unmasked
<1>2. TypeOK'
  BY <1>1, IdleRequest
     DEF Base, Core, TypeOK, Requests, device, contexts, ghost, events, handler, Shut
<1> QED
  BY <1>1, <1>2, QuietBase DEF contexts, device

LEMMA WriteCtrlBase ==
    ASSUME Base, WriteCtrl, UNCHANGED closed
    PROVE  Core'
<1>1. /\ UNCHANGED <<irq, contexts, ghost, events, handler>>
      /\ enabled' = cur.on /\ gammaOn' = cur.gamma
      /\ regs' \in [Blocks -> Settings] /\ cur' = NoRequest /\ pc' = "idle" /\ issued' = issued
      /\ Shut({"torn_ctrl"}) /\ cur.on => irq
  BY WriteCtrlIs DEF Base, Core, Unmasked
<1>2. cur.on \in BOOLEAN /\ cur.gamma \in BOOLEAN
  BY DEF Base, Core, TypeOK
<1>3. TypeOK'
  BY <1>1, <1>2, IdleRequest
     DEF Base, Core, TypeOK, Requests, contexts, ghost, events, handler, Shut
<1> QED
  BY <1>1, <1>3, QuietBase DEF contexts

LEMMA ReadCtrlBase ==
    ASSUME Base, NEW on \in BOOLEAN, NEW mask \in BOOLEAN, ReadCtrl(on, mask), UNCHANGED closed,
           Shut({"torn_ctrl"}) => (on => mask)
    PROVE  Core'
<1>1. /\ cur' = [op |-> "ctrl", block |-> "cproc", n |-> CcRange, gamma |-> gammaOn,
                 upd |-> TRUE, on |-> on, left |-> {}]
      /\ pc' = "control" /\ issued' = issued /\ irq' = mask
      /\ UNCHANGED <<enabled, contexts, hardware, ghost, events, handler>>
  BY ReadIs
<1>2. CcRange \in Versions
  BY IdleRequest DEF CcRange, Base, Core, TypeOK, Settings
<1>3. cur' \in Requests
  BY <1>1, <1>2 DEF Base, Core, TypeOK, Requests, Ops, AllBlocks
<1>4. TypeOK'
  BY <1>1, <1>3 DEF Base, Core, TypeOK, Requests, contexts, hardware, ghost, events, handler
<1>5. Numbered' /\ Unmasked'
  BY <1>1 DEF Base, Core, Numbered, Unmasked, InIoctl, contexts, Shut
<1> QED
  BY <1>4, <1>5 DEF Core

LEMMA FrameEndBase ==
    ASSUME Base, FrameEnd, UNCHANGED closed
    PROVE  Core'
<1>1. /\ UNCHANGED <<device, enableGamma, enable_changed, gammaOn, ioctl, ghost, events>>
      /\ isr' \in {"cc", "rest"} /\ WriteChanged({"cproc"})
      /\ hctrl' \in {hctrl, IspCtrl}
  BY DEF FrameEnd
<1>2. ctx' \in [Blocks -> Contexts] /\ regs' \in [Blocks -> Settings]
  BY <1>1, WriteChangedIs
<1>3. hctrl' \in Ctrls
  BY <1>1, IspCtrlIs DEF Base, Core, TypeOK, Ctrls
<1>4. TypeOK'
  BY <1>1, <1>2, <1>3 DEF Base, Core, TypeOK, Contexts, Ctrls, device, ioctl, ghost, events, Shut
<1>5. \A b \in Blocks : ctx'[b].lo = ctx[b].lo
  BY <1>1, WriteChangedIs, ClearedIs DEF WrittenTo, Base, Core
<1> QED
  BY <1>1, <1>4, <1>5, QuietBase DEF ioctl, device

LEMMA WriteCcBase ==
    ASSUME Base, WriteCc, UNCHANGED closed
    PROVE  Core'
<1>1. /\ UNCHANGED <<irq, enableGamma, enable_changed, ioctl, ghost, events>>
      /\ isr = "cc" /\ isr' = "rest" /\ hctrl' = NoCtrl
      /\ enabled' = hctrl.on /\ gammaOn' = hctrl.gamma
  BY DEF WriteCc
<1>2. /\ ctx' \in [Blocks -> Contexts] /\ regs' \in [Blocks -> Settings]
      /\ enabled' \in BOOLEAN /\ gammaOn' \in BOOLEAN /\ NoCtrl \in Ctrls
  BY <1>1, WriteCcIs, IdleRequest DEF Base, Core, TypeOK, NoCtrl, Ctrls
<1>3. Shut({"torn_ctrl"}) => UNCHANGED enabled
  BY <1>1 DEF Base, Held
<1>4. TypeOK'
  BY <1>1, <1>2, <1>3 DEF Base, Core, TypeOK, Contexts, Ctrls, ioctl, ghost, events, Shut
<1>5. \A b \in Blocks : ctx'[b].lo = ctx[b].lo
  BY WriteCcIs, ClearedIs DEF WrittenTo, Base, Core
<1> QED
  BY <1>1, <1>3, <1>4, <1>5, QuietBase DEF ioctl

LEMMA WriteRestBase ==
    ASSUME Base, WriteRest, UNCHANGED closed
    PROVE  Core'
<1>1. /\ UNCHANGED <<device, enableGamma, gammaOn, ioctl, ghost, events>>
      /\ WriteChanged({"awb", "flt", "wdr", "gamma"}) /\ enable_changed' = enable_changed
      /\ isr' \in {"gamma", "post", "idle"}
      /\ hctrl' \in {hctrl, [IspCtrl EXCEPT !.gamma = enableGamma]}
  BY DEF WriteRest, ReadGammaEnable, Leave
<1>2. ctx' \in [Blocks -> Contexts] /\ regs' \in [Blocks -> Settings]
  BY <1>1, WriteChangedIs
<1>3. hctrl' \in Ctrls
  <2>1. IspCtrl \in Ctrls /\ enableGamma \in BOOLEAN /\ hctrl \in Ctrls
    BY IspCtrlIs DEF Base, Core, TypeOK, Ctrls
  <2>2. [IspCtrl EXCEPT !.gamma = enableGamma] \in Ctrls
    BY <2>1 DEF Ctrls
  <2> QED
    BY <1>1, <2>1, <2>2
<1>4. TypeOK'
  BY <1>1, <1>2, <1>3 DEF Base, Core, TypeOK, Contexts, Ctrls, device, ioctl, ghost, events, Shut
<1>5. \A b \in Blocks : ctx'[b].lo = ctx[b].lo
  BY <1>1, WriteChangedIs, ClearedIs DEF WrittenTo, Base, Core
<1> QED
  BY <1>1, <1>4, <1>5, QuietBase DEF ioctl, device

LEMMA WriteGammaBase ==
    ASSUME Base, WriteGamma, UNCHANGED closed
    PROVE  Core'
<1>1. /\ UNCHANGED <<irq, ctx, enableGamma, ioctl, ghost, events>>
      /\ isr = "gamma" /\ isr' \in {"post", "idle"} /\ hctrl' = NoCtrl /\ enable_changed' = FALSE
  BY DEF WriteGamma, Leave
<1>2. /\ regs' \in [Blocks -> Settings] /\ enabled' = hctrl.on
      /\ enabled' \in BOOLEAN /\ gammaOn' \in BOOLEAN /\ NoCtrl \in Ctrls
  BY <1>1, WriteGammaIs, IdleRequest DEF Base, Core, TypeOK, NoCtrl, Ctrls
<1>3. Shut({"torn_ctrl"}) => UNCHANGED enabled
  BY <1>1, <1>2 DEF Base, Held
<1>4. TypeOK'
  <2>1. (Shut({"torn_ctrl"}) /\ enabled /\ pc = "idle" => irq)'
    BY <1>1, <1>3 DEF Base, Core, TypeOK, ioctl, Shut
  <2>2. isr' \in {"idle", "frame", "cc", "rest", "gamma", "post"} /\ enable_changed' \in BOOLEAN
    BY <1>1
  <2> QED
    BY <1>1, <1>2, <2>1, <2>2 DEF Base, Core, TypeOK, Ctrls, ioctl, ghost, events
<1> QED
  BY <1>1, <1>3, <1>4, QuietBase DEF ioctl

\* Whatever happens, types and numbers are kept, and whoever sets ISP_ENABLE has
\* the interrupts.
LEMMA CoreStep ==
    ASSUME Base, Step, UNCHANGED closed
    PROVE  Core'
<1>1. ASSUME NEW b \in Blocks, NEW g \in BOOLEAN, NEW u \in BOOLEAN, Set(b, g, u) PROVE Core'
  BY <1>1, SetBase
<1>2. ASSUME NEW half \in {"lo", "hi"}, Copy(half) PROVE Core'
  BY <1>2, CopyBase
<1>3. ASSUME NEW v \in BOOLEAN, EnableGammaOut(v) PROVE Core'
  <2>1. issued' = issued + 1 /\ issued \in Nat /\ issued' \in Versions
    BY <1>3, IspDeferredAssumption DEF EnableGammaOut, Base, Core, TypeOK, Versions
  <2>2. UNCHANGED <<device, ctx, regs, pc, cur, wanted, asked, events, handler>>
    BY <1>3 DEF EnableGammaOut
  <2>3. enableGamma' \in BOOLEAN /\ enable_changed' \in BOOLEAN /\ gammaOn' \in BOOLEAN
        /\ gammaWanted' \in BOOLEAN
    BY <1>3 DEF EnableGammaOut, Base, Core, TypeOK
  <2>4. TypeOK'
    BY <2>1, <2>2, <2>3 DEF Base, Core, TypeOK, device, events, handler, Shut
  <2>5. \A b \in Blocks : ctx[b].lo \in Nat
    BY DEF Base, Core, TypeOK, Versions
  <2>6. Numbered'
    BY <1>3, <2>1, <2>2, <2>5 DEF EnableGammaOut, Base, Core, Numbered, InIoctl
  <2>7. Unmasked'
    BY <2>2 DEF Base, Core, Unmasked, InIoctl, device, Shut
  <2> QED
    BY <2>4, <2>6, <2>7 DEF Base, Core
<1>4. CASE Enable
  BY <1>4, ReadCtrlBase DEF Enable
<1>5. CASE Disable
  BY <1>5, ReadCtrlBase DEF Disable, Base, Core, TypeOK
<1>6. CASE StopStream
  BY <1>6, ReadCtrlBase DEF StopStream
<1>7. CASE ChangeCtrl
  <2>1. irq \in BOOLEAN /\ (Shut({"torn_ctrl"}) => irq)
    BY <1>7 DEF ChangeCtrl, ReadCtrl, Base, Core, TypeOK
  <2> QED
    BY <1>7, <2>1, ReadCtrlBase DEF ChangeCtrl
<1>8. CASE Frame \/ PostEvent
  <2>1. /\ isr' \in {"idle", "frame", "post"} /\ fault' \in BOOLEAN
        /\ UNCHANGED <<device, contexts, hardware, ioctl, ghost, subs, post_event, spc, hctrl>>
    <3>1. fault \in BOOLEAN /\ post_event \in BOOLEAN
      BY DEF Base, Core, TypeOK
    <3> QED
      BY <1>8, <3>1 DEF Frame, PostEvent, events
  <2>2. TypeOK'
    BY <2>1 DEF Base, Core, TypeOK, device, contexts, hardware, ioctl, ghost, Shut
  <2> QED
    BY <1>8, <2>2, QuietBase DEF Frame, PostEvent, device, contexts, ioctl
<1>9. ASSUME NEW s \in Subscribers,
             Subscribe(s) \/ Subscribed(s) \/ Unsubscribe(s) \/ Unsubscribed(s)
      PROVE  Core'
  <2>1. /\ subs' \in SUBSET Subscribers /\ post_event' \in BOOLEAN
        /\ spc' \in [Subscribers -> {"idle", "subscribe", "unsubscribe"}]
        /\ UNCHANGED <<device, contexts, hardware, ioctl, ghost, fault, handler>>
    BY <1>9 DEF Subscribe, Subscribed, Unsubscribe, Unsubscribed, Base, Core, TypeOK
  <2>2. TypeOK'
    BY <2>1 DEF Base, Core, TypeOK, device, contexts, hardware, ioctl, ghost, handler, Shut
  <2> QED
    BY <1>9, <2>2, QuietBase DEF Subscribe, Subscribed, Unsubscribe, Unsubscribed,
                                 device, contexts, ioctl
<1> QED
  BY <1>1, <1>2, <1>3, <1>4, <1>5, <1>6, <1>7, <1>8, <1>9, CurveBase, ControlBase,
     WriteWdrCurveBase, WriteCtrlBase, FrameEndBase, WriteCcBase, WriteRestBase, WriteGammaBase
     DEF Step, Ioctl, Handler
\* The handler's isp_ctrl, once read, stays what the register holds; and the cc
\* it writes is marked.
LEMMA HeldStep ==
    ASSUME Base, Step, UNCHANGED closed
    PROVE  CcMarked' /\ Held'
<1> USE DEF CcMarked, Held
<1>0. CcMarked /\ Held /\ (pc = "copy" => cur.op # "ctrl")
  BY DEF Base, Core, Numbered
<1>1. ASSUME NEW b \in Blocks, NEW g \in BOOLEAN, NEW u \in BOOLEAN, Set(b, g, u)
      PROVE  CcMarked' /\ Held'
  <2>1. pc = "idle" /\ cur'.op = "set" /\ UNCHANGED <<device, contexts, handler>>
    BY <1>1, SetIs
  <2> QED
    BY <1>0, <2>1 DEF BeingSet, InIoctl, device, contexts, handler, Shut
<1>2. CASE SetWdrCurve
  <2>1. pc = "idle" /\ cur'.op = "curve" /\ UNCHANGED <<device, contexts, handler>>
    BY <1>2, CurveIs
  <2> QED
    BY <1>0, <2>1 DEF BeingSet, InIoctl, device, contexts, handler, Shut
<1>3. ASSUME NEW half \in {"lo", "hi"}, Copy(half) PROVE CcMarked' /\ Held'
  <2>1. /\ pc = "copy" /\ pc' # "idle" /\ UNCHANGED <<device, handler>>
    BY <1>3 DEF Copy
  <2>2. /\ InIoctl("set") \/ InIoctl("curve")
        /\ cur.block # "cc" /\ "cc" \in Blocks => ctx'["cc"] = ctx["cc"]
        /\ cur.block = "cc" /\ half = "hi" => ctx'["cc"].changed = ctx["cc"].changed
        /\ cur'.left = cur.left \ {half} /\ cur'.op = cur.op /\ cur'.block = cur.block
    BY <1>3, CopyIs
  <2>3. InIoctl("curve") => cur.block = "wdr"
    BY DEF Base, Core, Numbered
  <2>4. Held'
    BY <1>0, <2>1, <2>2 DEF InIoctl, device, handler, Shut
  <2>5. CASE cur.block # "cc"
    BY <1>0, <2>1, <2>2, <2>4, <2>5 DEF BeingSet, handler
  <2>6. CASE cur.block = "cc"
    <3>1. BeingSet("cc") /\ BeingSet("cc")'
      BY <2>1, <2>2, <2>3, <2>6 DEF BeingSet, InIoctl
    <3>2. half = "lo" => "lo" \notin cur'.left
      BY <2>2
    <3> QED
      BY <1>0, <2>1, <2>2, <2>4, <2>6, <3>1, <3>2 DEF handler
  <2> QED
    BY <2>5, <2>6
<1>4. CASE Control
  BY <1>4 DEF Control, IrqLocked, handler
<1>5. ASSUME NEW v \in BOOLEAN, EnableGammaOut(v) PROVE CcMarked' /\ Held'
  BY <1>5 DEF EnableGammaOut, IrqLocked, handler
<1>6. CASE WriteWdrCurve
  <2>1. InIoctl("curve") /\ pc' = "idle" /\ UNCHANGED <<device, contexts, handler>>
    BY <1>6, WriteWdrCurveIs
  <2> QED
    BY <1>0, <2>1 DEF BeingSet, InIoctl, device, contexts, handler, Shut
<1>7. CASE WriteCtrl
  <2>1. InIoctl("ctrl") /\ pc' = "idle" /\ UNCHANGED <<contexts, handler>>
    BY <1>7, WriteCtrlIs
  <2> QED
    BY <1>0, <2>1 DEF BeingSet, InIoctl, contexts, handler, Shut
<1>8. ASSUME NEW on, NEW mask, ReadCtrl(on, mask) PROVE CcMarked' /\ Held'
  <2>1. pc = "idle" /\ UNCHANGED <<contexts, handler>>
    BY <1>8, ReadIs
  <2>2. Shut({"torn_ctrl"}) => isr \notin {"cc", "gamma"}
    BY <1>8 DEF ReadCtrl, Shut
  <2> QED
    BY <1>0, <2>1, <2>2 DEF BeingSet, InIoctl, contexts, handler, Shut
<1>9. CASE FrameEnd
  <2>1. UNCHANGED <<device, ioctl>>
    BY <1>9 DEF FrameEnd
  <2>2. isr' = "rest" \/ (/\ "cc" \in Blocks /\ ctx["cc"].changed /\ hctrl' = IspCtrl
                          /\ Shut({"torn_ctrl"}) => cur.op # "ctrl")
    BY <1>9 DEF FrameEnd, Shut
  <2>3. "cc" \in Blocks => ctx'["cc"] = ctx["cc"]
    BY <1>9, WriteChangedIs DEF FrameEnd
  <2> QED
    BY <2>1, <2>2, <2>3, IspCtrlIs DEF device, ioctl, InIoctl, Shut
<1>10. CASE WriteCc
  BY <1>10 DEF WriteCc
<1>11. CASE WriteRest
  <2>1. UNCHANGED <<device, ioctl>> /\ isr' # "cc"
    BY <1>11 DEF WriteRest, ReadGammaEnable, Leave
  <2>2. isr' = "gamma" => /\ hctrl' = [IspCtrl EXCEPT !.gamma = enableGamma]
                          /\ Shut({"torn_ctrl"}) => cur.op # "ctrl"
    BY <1>11 DEF WriteRest, ReadGammaEnable, Leave, Shut
  <2>3. [IspCtrl EXCEPT !.gamma = enableGamma].on = enabled
    BY DEF IspCtrl
  <2> QED
    BY <2>1, <2>2, <2>3 DEF device, ioctl, InIoctl, Shut
<1>12. CASE WriteGamma
  BY <1>12 DEF WriteGamma, Leave
<1>13. CASE Frame \/ PostEvent
  BY <1>13 DEF Frame, PostEvent
<1>14. ASSUME NEW s \in Subscribers,
              Subscribe(s) \/ Subscribed(s) \/ Unsubscribe(s) \/ Unsubscribed(s)
       PROVE  CcMarked' /\ Held'
  <2>1. UNCHANGED <<device, contexts, ioctl, handler>>
    BY <1>14 DEF Subscribe, Subscribed, Unsubscribe, Unsubscribed
  <2> QED
    BY <1>0, <2>1 DEF BeingSet, InIoctl, device, contexts, ioctl, handler, Shut
<1>15. CASE Enable \/ Disable \/ StopStream \/ ChangeCtrl
  BY <1>8, <1>15 DEF Enable, Disable, StopStream, ChangeCtrl
<1> QED
  BY <1>1, <1>2, <1>3, <1>4, <1>5, <1>6, <1>7, <1>9, <1>10, <1>11, <1>12, <1>13, <1>14, <1>15
     DEF Step, Ioctl, Handler

\* A context that is copied is not written meanwhile.
LEMMA NoCopyStep ==
    ASSUME Inv, Step, UNCHANGED closed, Shut({"frame_in_copy"})
    PROVE  NoCopy'
<1> USE DEF NoCopy, IrqLocked
<1>0. Base /\ NoCopy
  BY DEF Inv, Base, Core
<1>1. CASE (\E b \in Blocks, g, u \in BOOLEAN : Set(b, g, u)) \/ SetWdrCurve
  BY <1>1 DEF Set, SetWdrCurve, Shut, handler
<1>2. CASE \E half \in {"lo", "hi"} : Copy(half)
  BY <1>0, <1>2 DEF Copy, handler
<1>3. CASE Control \/ WriteWdrCurve \/ WriteCtrl \/ \E v \in BOOLEAN : EnableGammaOut(v)
  BY <1>3 DEF Control, WriteWdrCurve, WriteCtrl, Done, EnableGammaOut
<1>4. CASE Enable \/ Disable \/ StopStream \/ ChangeCtrl
  BY <1>4 DEF Enable, Disable, StopStream, ChangeCtrl, ReadCtrl
<1>5. CASE FrameEnd
  BY <1>5 DEF FrameEnd, Shut, ioctl
<1>6. CASE WriteCc \/ WriteRest \/ WriteGamma
  BY <1>0, <1>6 DEF WriteCc, WriteRest, WriteGamma, ioctl
<1>7. CASE Frame \/ PostEvent
  BY <1>7 DEF Frame, PostEvent
<1>8. CASE \E s \in Subscribers : Subscribe(s) \/ Subscribed(s) \/ Unsubscribe(s) \/ Unsubscribed(s)
  BY <1>0, <1>8 DEF Subscribe, Subscribed, Unsubscribe, Unsubscribed, ioctl, handler
<1> QED
  BY <1>1, <1>2, <1>3, <1>4, <1>5, <1>6, <1>7, <1>8 DEF Step, Ioctl, Handler
-----------------------------------------------------------------------------
(***************************************************************************)
(* Events, isp_ctrl and gamma.                                             *)
(***************************************************************************)
LEMMA EventsStep ==
    ASSUME Inv, Step, UNCHANGED closed
    PROVE  /\ Shut({"other_leaves"}) => Told'
           /\ Shut({"late_call"}) => Safe'
<1> USE DEF Told, Safe, Shut
<1>1. CASE UNCHANGED <<events, isr>>
  BY <1>1 DEF events, Inv
<1>2. CASE Frame \/ PostEvent
  BY <1>2 DEF Frame, PostEvent, events, Inv, TypeOK
<1>3. CASE Handler
  <2>1. UNCHANGED events /\ (isr' = "post" => post_event)
    BY <1>3 DEF Handler, FrameEnd, WriteCc, WriteRest, WriteGamma, ReadGammaEnable, Leave
  <2> QED
    BY <2>1 DEF events, Inv
<1>4. ASSUME NEW s \in Subscribers, Subscribe(s) \/ Subscribed(s)
      PROVE  /\ Shut({"other_leaves"}) => Told'
             /\ Shut({"late_call"}) => Safe'
  BY <1>4 DEF Subscribe, Subscribed, handler, Inv, TypeOK
<1>5. ASSUME NEW s \in Subscribers, Unsubscribe(s) \/ Unsubscribed(s)
      PROVE  /\ Shut({"other_leaves"}) => Told'
             /\ Shut({"late_call"}) => Safe'
  BY <1>5 DEF Unsubscribe, Unsubscribed, handler, Inv, TypeOK
<1> QED
  BY <1>1, <1>2, <1>3, <1>4, <1>5 DEF Step, Ioctl, Set, SetWdrCurve, Copy, Control,
     WriteWdrCurve, EnableGammaOut, Enable, Disable, StopStream, ChangeCtrl, ReadCtrl, WriteCtrl,
     handler

\* Whoever changes isp_ctrl has read what it still holds.
LEMMA CtrlStep ==
    ASSUME Inv, Step, UNCHANGED closed, Shut({"torn_ctrl"})
    PROVE  CtrlHeld'
<1>0. Base /\ CtrlHeld /\ Held
  BY DEF Inv, Base, Core
<1>1. ASSUME UNCHANGED <<hardware, handler>>,
             UNCHANGED <<pc, cur>> \/ pc' = "idle" \/ cur'.op # "ctrl"
      PROVE  CtrlHeld'
  BY <1>0, <1>1 DEF CtrlHeld, InIoctl, CcRange, hardware, handler
<1>2. ASSUME UNCHANGED handler, pc' = "idle", isr \notin {"cc", "gamma"} PROVE CtrlHeld'
  BY <1>2 DEF CtrlHeld, InIoctl, handler
<1>3. ASSUME NEW b \in Blocks, NEW g \in BOOLEAN, NEW u \in BOOLEAN, Set(b, g, u)
      PROVE  CtrlHeld'
  <2>1. cur'.op = "set" /\ UNCHANGED <<hardware, handler>>
    BY <1>3, SetIs
  <2> QED
    BY <1>1, <2>1
<1>4. CASE SetWdrCurve
  <2>1. cur'.op = "curve" /\ UNCHANGED <<hardware, handler>>
    BY <1>4, CurveIs
  <2> QED
    BY <1>1, <2>1
<1>5. ASSUME NEW half \in {"lo", "hi"}, Copy(half) PROVE CtrlHeld'
  <2>1. cur'.op # "ctrl" /\ UNCHANGED <<hardware, handler>>
    BY <1>0, <1>5, CopyIs DEF Copy, InIoctl
  <2> QED
    BY <1>1, <2>1
<1>6. CASE Control \/ \E v \in BOOLEAN : EnableGammaOut(v)
  BY <1>2, <1>6 DEF Control, EnableGammaOut, Done, IrqLocked
<1>7. CASE WriteWdrCurve
  <2>1. CcRange' = CcRange /\ pc' = "idle" /\ UNCHANGED <<gammaOn, handler>>
    BY <1>0, <1>7, WriteWdrCurveIs DEF CcRange
  <2> QED
    BY <1>0, <2>1 DEF CtrlHeld, InIoctl, handler
<1>8. CASE WriteCtrl
  <2>1. InIoctl("ctrl") /\ pc' = "idle" /\ UNCHANGED handler
    BY <1>0, <1>8, WriteCtrlIs
  <2> QED
    BY <1>0, <1>2, <2>1 DEF Held
<1>9. ASSUME NEW on, NEW mask, ReadCtrl(on, mask) PROVE CtrlHeld'
  <2>1. cur'.n = CcRange /\ cur'.gamma = gammaOn /\ UNCHANGED <<hardware, handler>>
    BY <1>9, ReadIs
  <2> QED
    BY <1>0, <2>1 DEF CtrlHeld, CcRange, hardware, handler
<1>10. CASE FrameEnd \/ WriteRest
  <2>1. UNCHANGED <<gammaOn, ioctl>> /\ (isr' = "cc" => hctrl' = IspCtrl)
    BY <1>10 DEF FrameEnd, WriteRest, ReadGammaEnable, Leave
  <2>2. isr' = "gamma" => hctrl' = [IspCtrl EXCEPT !.gamma = enableGamma]
    BY <1>10 DEF FrameEnd, WriteRest, ReadGammaEnable, Leave
  <2>3. CcRange' = CcRange
    BY <1>0, <1>10, WriteChangedIs DEF FrameEnd, WriteRest, CcRange
  <2>4. [IspCtrl EXCEPT !.gamma = enableGamma].n = CcRange
    BY DEF IspCtrl
  <2> QED
    BY <1>0, <2>1, <2>2, <2>3, <2>4, IspCtrlIs DEF CtrlHeld, InIoctl, ioctl
<1>11. CASE WriteCc \/ WriteGamma
  <2>1. /\ isr \in {"cc", "gamma"} /\ isr' \notin {"cc", "gamma"} /\ UNCHANGED ioctl
    BY <1>11 DEF WriteCc, WriteGamma, Leave
  <2> QED
    BY <1>0, <2>1 DEF CtrlHeld, Held, InIoctl, ioctl
<1>12. CASE Frame \/ PostEvent
  <2>1. isr' \notin {"cc", "gamma"} /\ UNCHANGED <<hardware, ioctl>>
    BY <1>12 DEF Frame, PostEvent
  <2> QED
    BY <1>0, <2>1 DEF CtrlHeld, InIoctl, CcRange, hardware, ioctl
<1>13. CASE \E s \in Subscribers : Subscribe(s) \/ Subscribed(s) \/ Unsubscribe(s) \/ Unsubscribed(s)
  BY <1>1, <1>13 DEF Subscribe, Subscribed, Unsubscribe, Unsubscribed, ioctl
<1>14. CASE Enable \/ Disable \/ StopStream \/ ChangeCtrl
  BY <1>9, <1>14 DEF Enable, Disable, StopStream, ChangeCtrl
<1> QED
  BY <1>3, <1>4, <1>5, <1>6, <1>7, <1>8, <1>10, <1>11, <1>12, <1>13, <1>14
     DEF Step, Ioctl, Handler

LEMMA GammaStep ==
    ASSUME Inv, Step, UNCHANGED closed, Shut({"torn_ctrl", "gamma_enable"})
    PROVE  GammaKept'
<1>0. Base /\ GammaKept /\ CtrlHeld
  BY DEF Inv, Base, Core, Shut
<1>1. ASSUME UNCHANGED <<enableGamma, enable_changed, gammaOn, gammaWanted, handler>>,
             BeingSet("gamma")' => BeingSet("gamma") \/ ~enable_changed
      PROVE  GammaKept'
  BY <1>0, <1>1 DEF GammaKept, handler
<1>2. ASSUME NEW b \in Blocks, NEW g \in BOOLEAN, NEW u \in BOOLEAN, Set(b, g, u)
      PROVE  GammaKept'
  <2>1. cur'.block = b /\ UNCHANGED <<contexts, hardware, gammaWanted, handler>>
    BY <1>2, SetIs
  <2>2. b = "gamma" => ~enable_changed
    BY <1>2 DEF Set, Shut
  <2> QED
    BY <1>1, <2>1, <2>2 DEF contexts, hardware, BeingSet
<1>3. CASE SetWdrCurve
  <2>1. cur'.op = "curve" /\ UNCHANGED <<contexts, hardware, ghost, handler>>
    BY <1>3, CurveIs
  <2> QED
    BY <1>1, <2>1 DEF contexts, hardware, ghost, BeingSet, InIoctl
<1>4. ASSUME NEW half \in {"lo", "hi"}, Copy(half) PROVE GammaKept'
  <2>1. /\ cur'.op = cur.op /\ cur'.block = cur.block /\ pc = "copy"
        /\ InIoctl("set") \/ InIoctl("curve")
        /\ UNCHANGED <<gammaOn, gammaWanted, handler>>
        /\ UNCHANGED <<enableGamma, enable_changed>> \/ (cur.block = "gamma" /\ ~enable_changed')
    BY <1>0, <1>4, CopyIs DEF Copy, hardware, ghost
  <2>2. cur.block = "gamma" => BeingSet("gamma") /\ ~enable_changed
    BY <1>0, <2>1 DEF Base, Core, Numbered, BeingSet, GammaKept
  <2>3. BeingSet("gamma")' => BeingSet("gamma")
    BY <2>1 DEF BeingSet, InIoctl
  <2>4. CASE UNCHANGED <<enableGamma, enable_changed>>
    BY <1>1, <2>1, <2>3, <2>4
  <2>5. CASE cur.block = "gamma" /\ ~enable_changed'
    BY <1>0, <2>1, <2>2, <2>5 DEF GammaKept, handler
  <2> QED
    BY <2>1, <2>4, <2>5
<1>5. CASE Control \/ WriteWdrCurve
  BY <1>1, <1>5 DEF Control, WriteWdrCurve, Done, contexts, ghost, BeingSet, InIoctl
<1>6. CASE WriteCtrl
  <2>1. /\ InIoctl("ctrl") /\ gammaOn' = cur.gamma /\ pc' = "idle"
        /\ UNCHANGED <<contexts, ghost, handler>>
    BY <1>0, <1>6, WriteCtrlIs
  <2> QED
    BY <1>0, <1>1, <2>1 DEF contexts, ghost, CtrlHeld, BeingSet, InIoctl
<1>7. ASSUME NEW v \in BOOLEAN, EnableGammaOut(v) PROVE GammaKept'
  BY <1>7 DEF EnableGammaOut, GammaKept, BeingSet, InIoctl, IrqLocked, handler
<1>8. ASSUME NEW on, NEW mask, ReadCtrl(on, mask) PROVE GammaKept'
  <2>1. cur'.op = "ctrl" /\ UNCHANGED <<contexts, hardware, ghost, handler>>
    BY <1>8, ReadIs
  <2> QED
    BY <1>1, <2>1 DEF contexts, hardware, ghost, BeingSet, InIoctl
<1>9. CASE FrameEnd \/ WriteCc
  <2>1. /\ isr' # "gamma" /\ UNCHANGED <<enableGamma, enable_changed, ioctl, ghost>>
        /\ UNCHANGED gammaOn \/ (isr = "cc" /\ gammaOn' = hctrl.gamma)
    BY <1>9 DEF FrameEnd, WriteCc
  <2> QED
    BY <1>0, <2>1 DEF GammaKept, CtrlHeld, BeingSet, InIoctl, ioctl, ghost
<1>10. CASE WriteRest
  <2>1. /\ UNCHANGED <<enableGamma, enable_changed, gammaOn, ioctl, ghost>>
        /\ isr' = "gamma" => enable_changed /\ hctrl' = [IspCtrl EXCEPT !.gamma = enableGamma]
    BY <1>10 DEF WriteRest, ReadGammaEnable, Leave
  <2>2. [IspCtrl EXCEPT !.gamma = enableGamma].gamma = enableGamma
    BY DEF IspCtrl
  <2> QED
    BY <1>0, <2>1, <2>2 DEF GammaKept, BeingSet, InIoctl, ioctl, ghost
<1>11. CASE WriteGamma
  <2>1. /\ isr = "gamma" /\ isr' # "gamma" /\ gammaOn' = hctrl.gamma /\ enable_changed' = FALSE
        /\ UNCHANGED <<enableGamma, ghost>>
    BY <1>0, <1>11, WriteGammaIs DEF WriteGamma, Leave
  <2> QED
    BY <1>0, <2>1 DEF GammaKept, ghost
<1>12. CASE Frame \/ PostEvent
  <2>1. isr' # "gamma" /\ UNCHANGED <<contexts, hardware, ioctl, ghost>>
    BY <1>12 DEF Frame, PostEvent
  <2> QED
    BY <1>0, <2>1 DEF GammaKept, BeingSet, InIoctl, contexts, hardware, ioctl, ghost
<1>13. ASSUME NEW s \in Subscribers,
              Subscribe(s) \/ Subscribed(s) \/ Unsubscribe(s) \/ Unsubscribed(s)
       PROVE  GammaKept'
  <2>1. UNCHANGED <<contexts, hardware, ioctl, ghost, handler>>
    BY <1>13 DEF Subscribe, Subscribed, Unsubscribe, Unsubscribed
  <2> QED
    BY <1>1, <2>1 DEF BeingSet, InIoctl, contexts, hardware, ioctl, ghost
<1>14. CASE Enable \/ Disable \/ StopStream \/ ChangeCtrl
  BY <1>8, <1>14 DEF Enable, Disable, StopStream, ChangeCtrl
<1> QED
  BY <1>2, <1>3, <1>4, <1>5, <1>6, <1>7, <1>9, <1>10, <1>11, <1>12, <1>13, <1>14
     DEF Step, Ioctl, Handler
-----------------------------------------------------------------------------
(***************************************************************************)
(* Settings on their way to the registers.                                 *)
(***************************************************************************)
\* The registers of a block change to what is wanted, if at all.
Moves(b) == regs'[b] \in {regs[b], wanted[b]}

\* What KeptAt reads of a block is the same: so is KeptAt.
LEMMA SameKept ==
    ASSUME NEW b, KeptAt(b), BeingSet(b)' <=> BeingSet(b), BeingSet(b) => UNCHANGED cur,
           ctx'[b] = ctx[b], regs'[b] = regs[b], wanted'[b] = wanted[b]
    PROVE  KeptAt(b)' /\ Moves(b)
BY DEF KeptAt, BeingSet, InIoctl, Copied, Marked, Moves

\* Steps that touch no block.
LEMMA RestKeeps ==
    ASSUME NEW b, KeptAt(b), UNCHANGED <<ctx, regs, wanted>>,
           UNCHANGED <<pc, cur>> \/ (pc = "idle" /\ cur'.op # "set")
    PROVE  KeptAt(b)' /\ Moves(b)
<1>1. (BeingSet(b)' <=> BeingSet(b)) /\ (BeingSet(b) => UNCHANGED cur)
  BY DEF BeingSet, InIoctl
<1> QED
  BY <1>1, SameKept

\* Ioctls that set no block end.
LEMMA EndKeeps ==
    ASSUME NEW b, KeptAt(b), ~InIoctl("set"), pc' = "idle",
           ctx'[b] = ctx[b], regs'[b] = regs[b], wanted'[b] = wanted[b]
    PROVE  KeptAt(b)' /\ Moves(b)
<1>1. ~BeingSet(b)' /\ ~BeingSet(b)
  BY DEF BeingSet, InIoctl
<1> QED
  BY <1>1, SameKept

\* S_WDR_CURVE before any WDR_CONFIG finds the registers as after reset.
LEMMA CurveKeeps ==
    ASSUME Base, CurveAlone, NEW b \in Blocks, KeptAt(b), WriteWdrCurve
    PROVE  KeptAt(b)' /\ Moves(b)
<1>1. /\ "wdr" \in Blocks /\ InIoctl("curve")
      /\ regs' \in [Blocks -> Settings] /\ \A c \in Blocks : c # "wdr" => regs'[c] = regs[c]
      /\ regs'["wdr"].lo = regs["wdr"].lo /\ regs'["wdr"].hi = 0 /\ pc' = "idle"
      /\ UNCHANGED <<contexts, ghost>>
  BY WriteWdrCurveIs
<1>2. ~InIoctl("set") /\ wanted["wdr"] = Reset0
  BY <1>1 DEF InIoctl, CurveAlone
<1>3. b = "wdr" => regs'[b] = regs[b]
  <2> SUFFICES ASSUME b = "wdr" PROVE regs'[b] = regs[b]
    OBVIOUS
  <2>1. wanted[b].lo = 0 /\ ~BeingSet(b)
    BY <1>2 DEF Reset0, BeingSet
  <2>2. regs[b] = Reset0
    BY <1>2, <2>1 DEF KeptAt, Marked
  <2>3. regs[b].hi = 0 /\ regs[b] \in Settings /\ regs'[b] \in Settings
    BY <1>1, <2>2 DEF Reset0, Base, Core, TypeOK
  <2> QED
    BY <1>1, <2>3, SameSetting
<1>4. ctx'[b] = ctx[b] /\ regs'[b] = regs[b] /\ wanted'[b] = wanted[b]
  BY <1>1, <1>3 DEF contexts, ghost
<1> QED
  BY <1>1, <1>2, <1>4, EndKeeps

\* isp_ctrl is written back with the ranges of cc it held.
LEMMA CtrlKeeps ==
    ASSUME Base, NEW b \in Blocks, KeptAt(b), b = "cc" => CtrlHeld, WriteCtrl
    PROVE  KeptAt(b)' /\ Moves(b)
<1>1. /\ InIoctl("ctrl") /\ regs' \in [Blocks -> Settings]
      /\ \A c \in Blocks : c # "cc" => regs'[c] = regs[c]
      /\ "cc" \in Blocks => regs'["cc"].lo = cur.n /\ regs'["cc"].hi = regs["cc"].hi
      /\ pc' = "idle" /\ UNCHANGED <<contexts, ghost>>
  BY WriteCtrlIs
<1>2. regs \in [Blocks -> Settings] /\ (b = "cc" => cur.n = regs["cc"].lo)
  BY <1>1 DEF Base, Core, TypeOK, CtrlHeld, CcRange
<1>3. regs'[b] = regs[b]
  BY <1>1, <1>2, SameSetting
<1> QED
  BY <1>1, <1>3, EndKeeps DEF contexts, ghost, InIoctl

LEMMA WriteGammaKeeps ==
    ASSUME Base, NEW b \in Blocks, KeptAt(b), b = "cc" => CtrlHeld, WriteGamma
    PROVE  KeptAt(b)' /\ Moves(b)
<1>1. /\ regs' \in [Blocks -> Settings]
      /\ \A c \in Blocks : c # "cc" => regs'[c] = regs[c]
      /\ "cc" \in Blocks => regs'["cc"].lo = hctrl.n /\ regs'["cc"].hi = regs["cc"].hi
      /\ isr = "gamma" /\ UNCHANGED <<ctx, pc, cur, wanted>>
  BY WriteGammaIs DEF WriteGamma, ioctl, ghost
<1>2. regs \in [Blocks -> Settings] /\ (b = "cc" => hctrl.n = regs["cc"].lo)
  BY <1>1 DEF Base, Core, TypeOK, CtrlHeld, CcRange
<1>3. regs'[b] = regs[b]
  BY <1>1, <1>2, SameSetting
<1> QED
  BY <1>1, <1>3, SameKept DEF BeingSet, InIoctl

\* Control writes or marks what the copy brought.
LEMMA ControlKeeps ==
    ASSUME Base, NEW b \in Blocks, KeptAt(b), Control
    PROVE  KeptAt(b)' /\ Moves(b)
<1>1. /\ InIoctl("set") /\ cur.left = {} /\ pc' = "idle" /\ regs' \in [Blocks -> Settings]
      /\ b # cur.block => ctx'[b] = ctx[b] /\ regs'[b] = regs[b]
  BY ControlIs
<1>2. wanted' = wanted /\ wanted \in [Blocks -> Settings] /\ ~BeingSet(b)'
  BY <1>1 DEF Control, ghost, Base, Core, TypeOK, BeingSet, InIoctl
<1>3. CASE b # cur.block
  BY <1>1, <1>2, <1>3, SameKept DEF BeingSet
<1>4. CASE b = cur.block
  <2>1. /\ wanted[b].lo = cur.n /\ ctx[b].lo = cur.n /\ ctx[b].hi = cur.n /\ ~ctx[b].changed
        /\ ctx[b].upd = cur.upd
        /\ IF cur.upd THEN wanted[b].hi = cur.n ELSE wanted[b].hi = regs[b].hi
        /\ cur.n # 0
    BY <1>1, <1>4 DEF KeptAt, BeingSet, Copied, Base, Core, Numbered
  <2>2. CASE enabled
    <3>1. /\ regs' = regs /\ ctx'[b].lo = ctx[b].lo /\ ctx'[b].hi = ctx[b].hi
          /\ ctx'[b].upd = ctx[b].upd /\ ctx'[b].changed = TRUE
      BY <1>4, <2>2, ControlIs
    <3> QED
      BY <1>2, <2>1, <3>1 DEF KeptAt, Marked, Moves
  <2>3. CASE ~enabled
    <3>1. regs'[b] = Written(b) /\ ctx'[b] = Cleared(b)
      BY <1>4, <2>3, ControlIs DEF WrittenTo
    <3>2. Written(b).lo = wanted[b].lo /\ Written(b).hi = wanted[b].hi /\ Written(b) \in Settings
      BY <2>1, WrittenIs DEF Base, Core
    <3>3. regs'[b] = wanted[b]
      BY <1>2, <3>1, <3>2, SameSetting
    <3>4. ~ctx'[b].changed
      BY <2>1, <3>1, ClearedIs DEF Base, Core
    <3> QED
      BY <1>2, <3>3, <3>4 DEF KeptAt, Marked, Moves
  <2> QED
    BY <2>2, <2>3
<1> QED
  BY <1>3, <1>4

LEMMA SetKeeps ==
    ASSUME Base, Shut({"partial_cc"}), NEW c \in Blocks, KeptAt(c), NEW b \in Blocks,
           NEW g \in BOOLEAN, NEW u \in BOOLEAN, Set(b, g, u)
    PROVE  KeptAt(c)' /\ Moves(c)
<1>1. /\ cur'.op = "set" /\ cur'.block = b /\ cur'.n = Fresh(b) /\ cur'.upd = u
      /\ cur'.left = {"lo", "hi"} /\ pc = "idle" /\ pc' = "copy"
      /\ wanted' = [wanted EXCEPT ![b] = Wanted(b, u)]
      /\ UNCHANGED <<ctx, regs>>
  BY SetIs DEF contexts, hardware
<1>2. wanted \in [Blocks -> Settings] /\ Fresh(b) # 0
  BY DEF Base, Core, TypeOK, Versions, Fresh
<1>3. /\ wanted'[b].lo = Fresh(b)
      /\ wanted'[b].hi = IF u THEN Fresh(b) ELSE wanted[b].hi
      /\ c # b => wanted'[c] = wanted[c]
  BY <1>1, <1>2 DEF Wanted
<1>4. ~BeingSet(c) /\ Marked(c) /\ (BeingSet(c)' <=> c = b)
  BY <1>1 DEF KeptAt, BeingSet, InIoctl
<1>5. CASE c # b
  BY <1>1, <1>3, <1>4, <1>5, SameKept
<1>6. CASE c = b
  <2>1. ~u => ~(ctx[c].changed /\ ctx[c].upd)
    BY <1>6 DEF Set, Shut
  <2>2. ~u => wanted[c].hi = regs[c].hi
    BY <1>4, <2>1 DEF Marked
  <2>3. Copied(c)'
    BY <1>1, <1>3, <1>6, <2>1, <2>2 DEF Copied
  <2> QED
    BY <1>1, <1>2, <1>3, <1>4, <1>6, <2>3 DEF KeptAt, Moves
<1> QED
  BY <1>5, <1>6

LEMMA CopyKeeps ==
    ASSUME Base, CurveAlone, NEW b \in Blocks, KeptAt(b), NEW half \in {"lo", "hi"}, Copy(half)
    PROVE  KeptAt(b)' /\ Moves(b)
<1>1. /\ InIoctl("set") \/ InIoctl("curve")
      /\ b # cur.block => ctx'[b] = ctx[b]
      /\ cur'.left = cur.left \ {half}
      /\ cur'.op = cur.op /\ cur'.block = cur.block /\ cur'.n = cur.n /\ cur'.upd = cur.upd
      /\ pc = "copy" /\ pc' # "idle" /\ UNCHANGED <<regs, wanted>>
  BY CopyIs DEF Copy, hardware, ghost
<1>2. b = cur.block =>
        /\ half = "lo" => /\ ctx'[b].lo = cur.n /\ ctx'[b].changed = FALSE
                          /\ ctx'[b].upd = cur.upd /\ ctx'[b].hi = ctx[b].hi
        /\ half = "hi" => /\ ctx'[b].hi = cur.n /\ ctx'[b].lo = ctx[b].lo
                          /\ ctx'[b].changed = ctx[b].changed /\ ctx'[b].upd = ctx[b].upd
  BY CopyIs
<1>3. BeingSet(b)' <=> BeingSet(b)
  BY <1>1 DEF BeingSet, InIoctl
<1>4. CASE b # cur.block
  BY <1>1, <1>3, <1>4, SameKept DEF BeingSet
<1>5. CASE b = cur.block /\ InIoctl("set")
  <2>1. BeingSet(b) /\ Copied(b) /\ (ctx[b].changed => wanted[b].lo # 0)
    BY <1>5 DEF BeingSet, KeptAt
  <2>2. Copied(b)'
    BY <1>1, <1>2, <1>5, <2>1 DEF Copied
  <2>3. ctx'[b].changed => wanted'[b].lo # 0
    BY <1>1, <1>2, <1>5, <2>1
  <2> QED
    BY <1>1, <1>3, <2>1, <2>2, <2>3 DEF KeptAt, Moves
<1>6. CASE b = cur.block /\ InIoctl("curve")
  <2>1. ~BeingSet(b) /\ wanted[b] = Reset0
    BY <1>6 DEF BeingSet, InIoctl, CurveAlone, Base, Core, Numbered
  <2>2. ~ctx[b].changed /\ regs[b] = wanted[b]
    BY <2>1 DEF KeptAt, Marked, Reset0
  <2>3. ~ctx'[b].changed
    BY <1>2, <1>6, <2>2
  <2> QED
    BY <1>1, <1>3, <2>1, <2>2, <2>3 DEF KeptAt, Marked, Moves
<1> QED
  BY <1>1, <1>4, <1>5, <1>6

\* The handler writes a context, also one that is being set; and if it is not
\* being copied, the registers are as wanted.
LEMMA HandlerWrites ==
    ASSUME Base, NEW b \in Blocks, KeptAt(b), WrittenTo(b), regs' \in [Blocks -> Settings],
           UNCHANGED <<pc, cur, wanted>>,
           ctx[b].changed \/ (BeingSet(b) /\ "lo" \notin cur.left)
    PROVE  KeptAt(b)' /\ (pc # "copy" => Moves(b))
<1>1. /\ regs'[b].lo = ctx[b].lo
      /\ regs'[b].hi = IF ctx[b].upd THEN ctx[b].hi ELSE regs[b].hi
      /\ ctx'[b].lo = ctx[b].lo /\ ctx'[b].hi = ctx[b].hi /\ ctx'[b].upd = ctx[b].upd
      /\ ctx'[b].changed => ctx[b].changed
  BY WrittenIs, ClearedIs DEF Base, Core, WrittenTo
<1>2. wanted[b] \in Settings /\ regs'[b] \in Settings /\ (BeingSet(b)' <=> BeingSet(b))
  BY DEF Base, Core, TypeOK, BeingSet, InIoctl
<1>3. ctx'[b].changed => wanted'[b].lo # 0
  BY <1>1 DEF KeptAt
<1>4. CASE BeingSet(b)
  <2>1. Copied(b)
    BY <1>4 DEF KeptAt
  <2>2. Copied(b)'
    BY <1>1, <1>4, <2>1 DEF Copied
  <2>3. pc # "copy" => regs'[b] = wanted[b]
    <3> SUFFICES ASSUME pc # "copy" PROVE regs'[b] = wanted[b]
      OBVIOUS
    <3>1. cur.left = {}
      BY DEF Base, Core, TypeOK
    <3>2. regs'[b].lo = wanted[b].lo /\ regs'[b].hi = wanted[b].hi
      BY <1>1, <2>1, <3>1 DEF Copied
    <3> QED
      BY <1>2, <3>2, SameSetting
  <2> QED
    BY <1>2, <1>3, <1>4, <2>2, <2>3 DEF KeptAt, Moves
<1>5. CASE ~BeingSet(b)
  <2>1. Marked(b) /\ ctx[b].changed
    BY <1>5 DEF KeptAt
  <2>2. regs'[b].lo = wanted[b].lo /\ regs'[b].hi = wanted[b].hi
    BY <1>1, <2>1 DEF Marked
  <2>3. regs'[b] = wanted[b]
    BY <1>2, <2>2, SameSetting
  <2>4. Marked(b)'
    BY <1>1, <2>1, <2>3 DEF Marked
  <2> QED
    BY <1>2, <1>3, <1>5, <2>3, <2>4 DEF KeptAt, Moves
<1> QED
  BY <1>4, <1>5

LEMMA HandlerKeeps ==
    ASSUME Base, NEW b \in Blocks, KeptAt(b), b = "cc" => CtrlHeld, Handler
    PROVE  KeptAt(b)' /\ (pc # "copy" => Moves(b))
<1>1. ASSUME NEW B, WriteChanged(B), UNCHANGED <<pc, cur, wanted>>
      PROVE  KeptAt(b)' /\ (pc # "copy" => Moves(b))
  <2>1. /\ regs' \in [Blocks -> Settings]
        /\ IF b \in B /\ ctx[b].changed THEN WrittenTo(b)
                                        ELSE ctx'[b] = ctx[b] /\ regs'[b] = regs[b]
    BY <1>1, WriteChangedIs
  <2>2. CASE b \in B /\ ctx[b].changed
    BY <1>1, <2>1, <2>2, HandlerWrites
  <2>3. CASE ~(b \in B /\ ctx[b].changed)
    BY <1>1, <2>1, <2>3, SameKept DEF BeingSet, InIoctl
  <2> QED
    BY <2>2, <2>3
<1>2. CASE FrameEnd
  BY <1>1, <1>2 DEF FrameEnd, ioctl, ghost
<1>3. CASE WriteRest
  BY <1>1, <1>3 DEF WriteRest, ioctl, ghost
<1>4. CASE WriteCc
  <2>1. /\ WrittenTo("cc") /\ regs' \in [Blocks -> Settings]
        /\ b # "cc" => ctx'[b] = ctx[b] /\ regs'[b] = regs[b]
        /\ UNCHANGED <<pc, cur, wanted>>
    BY <1>4, WriteCcIs DEF WriteCc, ioctl, ghost
  <2>2. CASE b = "cc"
    <3>1. ctx[b].changed \/ (BeingSet(b) /\ "lo" \notin cur.left)
      BY <1>4, <2>2 DEF WriteCc, Base, CcMarked
    <3>2. WrittenTo(b)
      BY <2>1, <2>2
    <3> QED
      BY <2>1, <3>1, <3>2, HandlerWrites
  <2>3. CASE b # "cc"
    BY <2>1, <2>3, SameKept DEF BeingSet, InIoctl
  <2> QED
    BY <2>2, <2>3
<1>5. CASE WriteGamma
  BY <1>5, WriteGammaKeeps
<1> QED
  BY <1>2, <1>3, <1>4, <1>5 DEF Handler

\* What a step does for one block.
LEMMA KeptAtStep ==
    ASSUME Base, CurveAlone, Shut({"partial_cc", "curve"}), NEW b \in Blocks, KeptAt(b),
           b = "cc" => CtrlHeld, Step, UNCHANGED closed
    PROVE  KeptAt(b)' /\ ((Handler => pc # "copy") => Moves(b))
<1>1. ASSUME NEW c \in Blocks, NEW g \in BOOLEAN, NEW u \in BOOLEAN, Set(c, g, u)
      PROVE  KeptAt(b)' /\ Moves(b)
  <2>1. Shut({"partial_cc"})
    BY DEF Shut
  <2> QED
    BY <1>1, <2>1, SetKeeps
<1>2. CASE SetWdrCurve
  <2>1. cur'.op = "curve" /\ pc = "idle" /\ UNCHANGED <<ctx, regs, wanted>>
    BY <1>2, CurveIs DEF contexts, hardware, ghost
  <2> QED
    BY <2>1, RestKeeps
<1>3. ASSUME NEW half \in {"lo", "hi"}, Copy(half) PROVE KeptAt(b)' /\ Moves(b)
  BY <1>3, CopyKeeps
<1>4. ASSUME NEW v \in BOOLEAN, EnableGammaOut(v) PROVE KeptAt(b)' /\ Moves(b)
  BY <1>4, RestKeeps DEF EnableGammaOut
<1>5. ASSUME NEW on, NEW mask, ReadCtrl(on, mask) PROVE KeptAt(b)' /\ Moves(b)
  <2>1. UNCHANGED <<ctx, regs, wanted>> /\ pc = "idle" /\ cur'.op = "ctrl"
    BY <1>5, ReadIs DEF contexts, hardware, ghost
  <2> QED
    BY <2>1, RestKeeps
<1>6. CASE Frame \/ PostEvent \/ \E s \in Subscribers :
              Subscribe(s) \/ Subscribed(s) \/ Unsubscribe(s) \/ Unsubscribed(s)
  <2>1. UNCHANGED <<ctx, regs, wanted, pc, cur>>
    BY <1>6 DEF Frame, PostEvent, Subscribe, Subscribed, Unsubscribe, Unsubscribed,
                contexts, hardware, ghost, ioctl
  <2> QED
    BY <2>1, RestKeeps
<1>7. CASE Enable \/ Disable \/ StopStream \/ ChangeCtrl
  BY <1>5, <1>7 DEF Enable, Disable, StopStream, ChangeCtrl
<1>8. CASE Handler
  BY <1>8, HandlerKeeps
<1> QED
  BY <1>1, <1>2, <1>3, <1>4, <1>6, <1>7, <1>8, ControlKeeps, CurveKeeps, CtrlKeeps
     DEF Step, Ioctl

\* S_WDR_CURVE asks for a curve only while no WDR_CONFIG did.
LEMMA CurveAloneStep ==
    ASSUME CurveAlone, Step, UNCHANGED closed, Shut({"curve"})
    PROVE  CurveAlone'
<1> USE DEF CurveAlone, InIoctl
<1>1. ASSUME NEW c \in Blocks, NEW g \in BOOLEAN, NEW u \in BOOLEAN, Set(c, g, u)
      PROVE  CurveAlone'
  <2>1. cur'.op = "set"
    BY <1>1, SetIs
  <2> QED
    BY <2>1
<1>2. CASE SetWdrCurve
  BY <1>2 DEF SetWdrCurve, Shut, ghost
<1>3. ASSUME NEW half \in {"lo", "hi"}, Copy(half) PROVE CurveAlone'
  <2>1. pc = "copy" /\ UNCHANGED wanted /\ cur' = [cur EXCEPT !.left = @ \ {half}]
    BY <1>3 DEF Copy, ghost
  <2>2. cur'.op = "curve" => cur.op = "curve"
    BY <2>1
  <2> QED
    BY <2>1, <2>2
<1>4. CASE Control \/ WriteWdrCurve \/ WriteCtrl
  BY <1>4 DEF Control, WriteWdrCurve, WriteCtrl, Done
<1>5. ASSUME NEW on, NEW mask, ReadCtrl(on, mask) PROVE CurveAlone'
  <2>1. cur'.op = "ctrl"
    BY <1>5, ReadIs
  <2> QED
    BY <2>1
<1>6. CASE UNCHANGED <<pc, cur, wanted>>
  BY <1>6
<1>7. CASE Enable \/ Disable \/ StopStream \/ ChangeCtrl
  BY <1>5, <1>7 DEF Enable, Disable, StopStream, ChangeCtrl
<1> QED
  BY <1>1, <1>2, <1>3, <1>4, <1>6, <1>7 DEF Step, Ioctl, Handler, EnableGammaOut, Frame,
     FrameEnd, WriteCc, WriteRest, WriteGamma, PostEvent, Subscribe, Subscribed, Unsubscribe,
     Unsubscribed, ioctl, ghost

\* What is wanted has been asked for, and what was asked for stays so.
LEMMA AskedStep ==
    ASSUME Inv, Step, UNCHANGED closed
    PROVE  \A b \in Blocks : wanted'[b] \in asked'[b] /\ asked[b] \subseteq asked'[b]
<1>0. /\ wanted \in [Blocks -> Settings] /\ asked \in [Blocks -> SUBSET Settings]
      /\ \A b \in Blocks : wanted[b] \in asked[b]
  BY DEF Inv, TypeOK
<1>1. ASSUME NEW b \in Blocks, NEW g \in BOOLEAN, NEW u \in BOOLEAN, Set(b, g, u)
      PROVE  \A c \in Blocks : wanted'[c] \in asked'[c] /\ asked[c] \subseteq asked'[c]
  <2>1. /\ wanted' = [wanted EXCEPT ![b] = Wanted(b, u)]
        /\ asked' = [asked EXCEPT ![b] = @ \cup {Wanted(b, u)}]
    BY <1>1, SetIs
  <2> QED
    BY <1>0, <2>1
<1>2. CASE UNCHANGED <<wanted, asked>>
  BY <1>0, <1>2
<1> QED
  BY <1>1, <1>2 DEF Step, Ioctl, Handler, SetWdrCurve, Copy, Control, WriteWdrCurve,
     EnableGammaOut, Enable, Disable, StopStream, ChangeCtrl, ReadCtrl, WriteCtrl, Frame,
     FrameEnd, WriteCc, WriteRest, WriteGamma, PostEvent, Subscribe, Subscribed, Unsubscribe,
     Unsubscribed, ghost

\* The registers only ever get what is wanted, which was asked for.
LEMMA OnlyAskedStep ==
    ASSUME Inv, Step, UNCHANGED closed, Shut({"frame_in_copy", "partial_cc", "curve"}),
           NEW b \in Blocks, Untorn(b)
    PROVE  regs'[b] \in asked'[b]
<1>1. Shut({"frame_in_copy"}) /\ Shut({"partial_cc", "curve"})
  BY DEF Shut
<1>2. Base /\ CurveAlone /\ KeptAt(b) /\ (b = "cc" => CtrlHeld) /\ NoCopy
  BY <1>1 DEF Inv, Base, Core, Kept, Untorn
<1>3. Handler => pc # "copy"
  BY <1>1, <1>2
     DEF Handler, FrameEnd, WriteCc, WriteRest, WriteGamma, NoCopy, IrqLocked, Shut
<1>4. regs'[b] \in {regs[b], wanted[b]}
  BY <1>1, <1>2, <1>3, KeptAtStep DEF Moves
<1>5. regs[b] \in asked[b] /\ wanted[b] \in asked[b]
  BY DEF Inv
<1> QED
  BY <1>4, <1>5, AskedStep

LEMMA KeptStep ==
    ASSUME Inv, Step, UNCHANGED closed, Shut({"partial_cc", "curve"})
    PROVE  Kept' /\ CurveAlone'
<1>1. Base /\ Kept /\ CurveAlone /\ (Shut({"torn_ctrl"}) => CtrlHeld) /\ Shut({"curve"})
  BY DEF Inv, Base, Core, Shut
<1>2. ASSUME NEW b \in Blocks, Untorn(b)' PROVE KeptAt(b)'
  <2>1. KeptAt(b) /\ (b = "cc" => CtrlHeld)
    BY <1>1, <1>2 DEF Kept, Untorn, Shut
  <2> QED
    BY <1>1, <2>1, KeptAtStep
<1> QED
  BY <1>1, <1>2, CurveAloneStep DEF Kept

LEMMA StepInv == Inv /\ [Next]_vars => Inv'
<1>1. ASSUME Inv, Step, UNCHANGED closed PROVE Inv'
  <2>1. Base /\ \A W : Shut(W)' <=> Shut(W)
    BY <1>1 DEF Inv, Base, Core, Shut
  <2>2. Core' /\ CcMarked' /\ Held'
    BY <1>1, <2>1, CoreStep, HeldStep
  <2>3. \A b \in Blocks : wanted'[b] \in asked'[b]
    BY <1>1, AskedStep
  <2>4. /\ Shut({"torn_ctrl"}) => CtrlHeld'
        /\ Shut({"frame_in_copy"}) => NoCopy'
        /\ Shut({"partial_cc", "curve"}) => Kept' /\ CurveAlone'
        /\ Shut({"torn_ctrl", "gamma_enable"}) => GammaKept'
        /\ Shut({"other_leaves"}) => Told'
        /\ Shut({"late_call"}) => Safe'
    BY <1>1, CtrlStep, NoCopyStep, KeptStep, GammaStep, EventsStep
  <2>5. Shut({"frame_in_copy", "partial_cc", "curve"}) =>
          \A b \in Blocks : Untorn(b)' => regs'[b] \in asked'[b]
    BY <1>1, <2>1, OnlyAskedStep DEF Untorn
  <2> QED
    BY <2>1, <2>2, <2>3, <2>4, <2>5 DEF Inv, Core
<1>2. CASE UNCHANGED vars
  <2>1. UNCHANGED <<closed, enabled, irq, ctx, enableGamma, enable_changed, regs, gammaOn, pc, cur,
                    issued, wanted, gammaWanted, asked, subs, post_event, spc, isr, hctrl, fault>>
    BY <1>2 DEF vars, device, contexts, hardware, ioctl, ghost, events, handler
  <2> QED
    BY <2>1 DEF Inv, TypeOK, Numbered, Unmasked, CcMarked, Held, InIoctl, CtrlHeld, CcRange, Kept,
       KeptAt, Untorn, BeingSet, Copied, Marked, CurveAlone, GammaKept, NoCopy, IrqLocked, Told,
       Safe, Shut
<1> QED
  BY <1>1, <1>2 DEF Next
-----------------------------------------------------------------------------
(***************************************************************************)
(* The theorems.                                                           *)
(***************************************************************************)
LEMMA Invariance == Spec => []Inv
BY InitInv, StepInv, PTL DEF Spec

\* Contexts, registers, subscriptions, the ioctl and the handler keep their types;
\* and between ioctls an enabled ISP has its frame interrupts, unless the handler
\* and an ioctl change isp_ctrl at the same time (isp_s_cc or isp_enable_gamma_out
\* against isp_stop_stream, of which only the former hold irqlock).
THEOREM TypeCorrect == Spec => []TypeOK
<1>1. Inv => TypeOK
  BY DEF Inv
<1> QED
  BY <1>1, Invariance, PTL

\* A block's registers hold a setting user space asked for, if no frame ends
\* while a context is copied; those of cc also need isp_ctrl untorn.
THEOREM OnlyAskedSettings == Spec => []AskedSettings
<1>1. Inv => AskedSettings
  BY DEF Inv, AskedSettings
<1> QED
  BY <1>1, Invariance, PTL

\* A setting is in the registers or marked for them between ioctls, also if
\* frames end while it is copied; for cc, and for gamma's enable, if isp_ctrl is
\* not torn.
THEOREM NothingLost == Spec => []NoLostSetting
<1>1. Inv => NoLostSetting
  <2> SUFFICES ASSUME Inv, pc = "idle", Shut({"partial_cc", "curve"})
               PROVE  /\ \A b \in Blocks : Untorn(b) => ctx[b].changed \/ regs[b] = wanted[b]
                      /\ Shut({"torn_ctrl", "gamma_enable"}) =>
                           enable_changed \/ gammaOn = gammaWanted
    BY DEF NoLostSetting
  <2>1. Kept /\ (Shut({"torn_ctrl", "gamma_enable"}) => GammaKept)
    BY DEF Inv
  <2> QED
    BY <2>1 DEF Kept, KeptAt, Marked, BeingSet, InIoctl, GammaKept
<1> QED
  BY <1>1, Invariance, PTL

\* Whoever is subscribed is told, unless another one leaves, and the handler
\* calls no null pointer, unless one leaves meanwhile.
THEOREM EventsSound == Spec => []PostEventSound
<1>1. Inv => PostEventSound
  BY DEF Inv, PostEventSound, Told, Safe, TypeOK
<1> QED
  BY <1>1, Invariance, PTL
=============================================================================

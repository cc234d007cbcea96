----------------------------- MODULE DweProofs -----------------------------
(***************************************************************************)
(* Proofs about Dwe for any number of buffers, of handles and of           *)
(* environments, with one subdevice or two.                                *)
(***************************************************************************)
EXTENDS Dwe, VvBufProofs, FiniteSetTheorems, WellFoundedInduction, TLAPS

(***************************************************************************)
(* The steps left to the holder of core->mutex.                            *)
(***************************************************************************)

\* The plans of the ioctls and of close, and what is left of them: START, the
\* first step of STOP, the rest of the last STOP, the close of one subdevice,
\* the close of the last one.
SetPlan(d) == <<<<"set_driver", d>>>>
ClearPlan(d) == <<<<"clear_driver", d>>>>
Stop1(d) == <<<<"set_idle", d>>>>
Stop2(d) == <<<<"clean", d>>, <<"set_idle", d>>>>
Stop3(d) == <<<<"hw_stop", d>>, <<"clean", d>>, <<"set_idle", d>>>>
Leave1(d) == <<<<"flush", d>>>>
Leave2(d) == <<<<"zero_state", d>>, <<"flush", d>>>>
Close1(d) == <<<<"clean", d>>>>
Close2(d) == <<<<"free_irq", d>>, <<"clean", d>>>>
Close3(d) == <<<<"hw_stop", d>>, <<"free_irq", d>>, <<"clean", d>>>>
Close4(d) == <<<<"flush", d>>, <<"hw_stop", d>>, <<"free_irq", d>>, <<"clean", d>>>>
Close5(d) == <<<<"zero_state", d>>, <<"flush", d>>, <<"hw_stop", d>>,
               <<"free_irq", d>>, <<"clean", d>>>>

Plans(d) == {<<>>, SetPlan(d), ClearPlan(d), Stop1(d), Stop2(d), Stop3(d), Leave1(d),
             Leave2(d), Close1(d), Close2(d), Close3(d), Close4(d), Close5(d)}

\* The next step of a plan, its subdevice, its last step: with the first and
\* the third a plan is known.
Hd(t) == IF t = <<>> THEN "none" ELSE Head(t)[1]
Dev(t) == Head(t)[2]
End(t) == IF t = <<>> THEN "none" ELSE t[Len(t)][1]

\* The last handle of both subdevices is being closed, the last started
\* subdevice being stopped; the engine is stopped already.
Closing(t) == End(t) = "clean"
Stopping(t) == End(t) = "set_idle"
Stopped(t) == Hd(t) \in {"clean", "free_irq", "set_idle"}

Planned == \E d \in Devs : todo \in Plans(d)

(***************************************************************************)
(* The inductive invariant.                                                *)
(***************************************************************************)

\* dwe_src_buf_notify holds a buffer from its start to the push, and the
\* tasklet one from its first pull to the second.
Held ==
    /\ \A d \in Devs : IF npc[d] = "push" THEN nbuf[d] # NULL /\ DevOf(nbuf[d]) = d
                                          ELSE nbuf[d] = NULL
    /\ tpc = "dst" => src # NULL /\ DevOf(src) = index

Typed == TypeOK /\ Planned /\ Held

\* The places a source buffer can be in exclude one another.
SrcApart ==
    /\ Distinct(sink)
    /\ \A b \in isp : ~OnList(sink, b) /\ b # src /\ nbuf[DevOf(b)] # b
    /\ src # NULL => ~OnList(sink, src) /\ nbuf[DevOf(src)] # src
    /\ \A d \in Devs : nbuf[d] # NULL => ~OnList(sink, nbuf[d])

\* A destination queue holds buffers of its subdevice, each once; `index' is
\* the subdevice of the destination in work.
DstPlaced ==
    /\ \A d \in Devs : /\ Distinct(srcq[d])
                       /\ \A b \in DstBufs : OnList(srcq[d], b) => DevOf(b) = d
    /\ oops = "none" /\ dst # NULL /\ tpc # "dst" => DevOf(dst) = index
DstApart == Shut({"early_requeue"}) /\ dst # NULL => ~OnList(srcq[DevOf(dst)], dst)

\* The started subdevices.
Drivers == {d \in Devs : "driver" \in state[d]}
Started == Cardinality(Drivers) + (IF Hd(todo) = "set_driver" THEN 1 ELSE 0)

\* What is written to `state' was read from it, a started subdevice is open,
\* and core.state counts at least the started subdevices: the engine is
\* stopped when none is left.
WholeState ==
    /\ \A d \in Devs : spc[d] \in {"set", "clear"} => sreg[d] = state[d]
    /\ Hd(todo) \in {"set_driver", "clear_driver"} =>
          /\ dreg = state[Dev(todo)] /\ spc[Dev(todo)] \notin {"set", "clear"}
          /\ refcnt[Dev(todo)] > 0
          /\ Dev(todo) \in Drivers <=> Hd(todo) = "clear_driver"
    /\ \A d \in Drivers : refcnt[d] > 0 \/ (Hd(todo) = "zero_state" /\ Dev(todo) = d)
    /\ Closing(todo) => \A d \in Devs : refcnt[d] = 0
    /\ Hd(todo) \in {"zero_state", "flush"} =>
          Closing(todo) \/ \E d \in Devs : refcnt[d] # 0
    /\ Stopping(todo) => Drivers = {}
    /\ core >= Started
    /\ "close_started" \in closed => /\ core <= Started
                                     /\ Hd(todo) = "zero_state" => Dev(todo) \notin Drivers
Counted == Shut({"torn_state"}) => WholeState

\* Nobody is about to start the engine, nor to handle its interrupt.
Still == /\ ~tasklet /\ tpc = "idle" /\ ~irqEn /\ isr = "idle"
         /\ \A d \in Devs : npc[d] # "busy"
Unopened == Hd(todo) = "none" /\ \A d \in Devs : refcnt[d] = 0

\* There is one at a time: a notification about to start the tasklet, the
\* tasklet, the engine with its interrupt enabled, the interrupt handler; and
\* none once the engine is stopped, until it is started again.
OneAtWork ==
    /\ hardware_status = "idle" => ~tasklet /\ tpc = "idle" /\ ~irqEn /\ isr = "idle"
    /\ \A d \in Devs : npc[d] = "busy" =>
          hardware_status = "idle" /\ \A e \in Devs : npc[e] = "busy" => e = d
    /\ tasklet => tpc = "idle" /\ ~irqEn /\ isr = "idle"
    /\ tpc # "idle" => ~irqEn /\ isr = "idle"
    /\ isr # "idle" => ~irqEn
    /\ Stopped(todo) \/ Unopened => Still
Exclusive == Shut({"torn_state", "double_start", "late_tasklet"}) => OneAtWork

\* Buffers in work wait for the tasklet, the engine, the interrupt handler or
\* for the clean-up.
Carries ==
    /\ src # NULL => \/ tpc = "dst" \/ irqEn \/ isr # "idle"
                     \/ Hd(todo) \in {"clean", "free_irq"}
    /\ dst # NULL => irqEn \/ isr # "idle" \/ Hd(todo) \in {"clean", "free_irq"}

\* No source buffer is forgotten.
AllThere == \A b \in SrcBufs : \/ b \in isp \/ OnList(sink, b) \/ src = b
                               \/ nbuf[DevOf(b)] = b
Carried ==
    Shut({"torn_state", "double_start", "idle_in_flight", "late_tasklet"}) =>
        Carries /\ AllThere

\* What the engine works on, or has finished, is the frame in work.
OnTarget ==
    /\ isr # "error" /\ ris \subseteq {"done"}
    /\ job # NULL => irqEn /\ ris = {} /\ job = <<src, dst>>
    /\ ris # {} => irqEn /\ made = <<src, dst>>
    /\ isr = "done" => made = <<src, dst>>
    /\ (job # NULL \/ ris # {} \/ isr = "done") => DevOf(src) = DevOf(dst)
Aimed == Shut({"torn_state", "double_start", "late_tasklet", "hw_error"}) => OnTarget

\* The tasklet takes no frame once the last subdevice is stopped; an engine
\* marked busy then has the tasklet or the interrupt handler on its way.
Woken ==
    /\ Drivers = {} /\ ~(Stopping(todo) /\ Hd(todo) # "set_idle") => tpc # "dst"
    /\ oops = "none" /\ hardware_status = "busy" =>
          IF Drivers = {} THEN Stopping(todo) \/ tasklet \/ tpc # "idle" \/ isr # "idle"
                          ELSE Working
Watched == Shut({"torn_state", "idle_in_flight", "close_started"}) => Woken

IInv == Typed /\ SrcApart /\ DstPlaced /\ DstApart /\ Counted /\ Exclusive /\ Carried
        /\ NoFault /\ Aimed /\ Watched
-----------------------------------------------------------------------------
(***************************************************************************)
(* The loop of dwe_isr_tasklet over the source queue.                      *)
(***************************************************************************)

\* Induction, from the least number that is not in T.
LEMMA SetInduction ==
    ASSUME NEW T, T \subseteq Nat, 0 \in T, \A n \in T : n + 1 \in T
    PROVE  T = Nat
<1> DEFINE R == {ss \in Nat \X Nat : ss[1] < ss[2]}
           U == Nat \ T
<1>1. IsWellFoundedOn(R, Nat)
  BY NatLessThanWellFounded DEF OpToRel
<1>2. ASSUME U # {} PROVE \E x \in U : \A y \in U : <<y, x>> \notin R
  <2> HIDE DEF R
  <2> QED
    BY <1>1, <1>2, WFMin
<1>3. ASSUME NEW x \in U, \A y \in U : <<y, x>> \notin R PROVE FALSE
  <2>1. x # 0 /\ x - 1 \in Nat
    OBVIOUS
  <2>2. <<x - 1, x>> \in R
    BY <2>1
  <2>3. x - 1 \in T
    BY <1>3, <2>1, <2>2
  <2> QED
    BY <2>1, <2>3
<1> QED
  BY <1>2, <1>3

\* Only the entries of subdevice d leave the queue.
LEMMA WithoutDevFacts ==
    ASSUME NEW d, sink \in Seq(SrcBufs)
    PROVE  /\ WithoutDev(d) \in Seq(SrcBufs)
           /\ \A c : OnList(WithoutDev(d), c) <=> OnList(sink, c) /\ DevOf(c) # d
           /\ Distinct(sink) => Distinct(WithoutDev(d))
<1> DEFINE Step(f, n) == IF n = 0 THEN <<>>
                         ELSE IF DevOf(sink[n]) = d THEN f[n - 1]
                                                    ELSE Append(f[n - 1], sink[n])
           Rec(f, m) == f = [n \in 0 .. m |-> Step(f, n)]
<1>0. /\ Len(sink) \in Nat /\ DOMAIN sink = 1 .. Len(sink)
      /\ \A n \in 1 .. Len(sink) : sink[n] \in SrcBufs
  OBVIOUS
<1>1. \A m \in Nat : \E f : Rec(f, m)
  <2> DEFINE T == {m \in Nat : \E f : Rec(f, m)}
  <2>1. 0 \in T
    <3>1. Rec([n \in 0 .. 0 |-> <<>>], 0)
      OBVIOUS
    <3> QED
      BY <3>1
  <2>2. ASSUME NEW m \in T PROVE m + 1 \in T
    <3>1. PICK f : Rec(f, m)
      OBVIOUS
    <3>0. \A n \in 0 .. m : f[n] = Step(f, n)
      BY <3>1
    <3> DEFINE g == [n \in 0 .. (m + 1) |-> IF n = m + 1 THEN Step(f, n) ELSE f[n]]
    <3>2. ASSUME NEW n \in 0 .. (m + 1) PROVE g[n] = Step(g, n)
      <4>1. n # 0 => n - 1 \in 0 .. m /\ g[n - 1] = f[n - 1]
        OBVIOUS
      <4>2. g[n] = Step(f, n)
        BY <3>0
      <4> QED
        BY <4>1, <4>2
    <3>3. Rec(g, m + 1)
      BY <3>2
    <3> HIDE DEF Rec, g
    <3> QED
      BY <3>3
  <2>3. T = Nat
    <3> HIDE DEF T
    <3>1. T \subseteq Nat
      BY DEF T
    <3> QED
      BY <2>1, <2>2, <3>1, SetInduction
  <2> QED
    BY <2>3
<1>2. PICK left : Rec(left, Len(sink)) /\ WithoutDev(d) = left[Len(sink)]
  BY <1>0, <1>1 DEF WithoutDev
<1>5. \A n \in 0 .. Len(sink) : left[n] = Step(left, n)
  BY <1>0, <1>2
<1> HIDE DEF Rec
<1> DEFINE Good(n) == /\ left[n] \in Seq(SrcBufs)
                      /\ \A c : OnList(left[n], c) <=>
                            \E k \in 1 .. n : sink[k] = c /\ DevOf(c) # d
                      /\ Distinct(sink) => Distinct(left[n])
<1>3. \A n \in 0 .. Len(sink) : Good(n)
  <2> DEFINE T == {n \in Nat : n <= Len(sink) => Good(n)}
  <2>1. 0 \in T
    <3>1. left[0] = <<>>
      BY <1>0, <1>5
    <3>2. Good(0)
      BY <3>1, NoEntry
    <3> HIDE DEF Good
    <3> QED
      BY <3>2
  <2>2. ASSUME NEW n \in T PROVE n + 1 \in T
    <3> SUFFICES ASSUME n + 1 <= Len(sink) PROVE Good(n + 1)
      OBVIOUS
    <3>1. n \in 0 .. Len(sink) /\ n + 1 \in 1 .. Len(sink) /\ Good(n)
      BY <1>0
    <3> DEFINE b == sink[n + 1]
    <3>2. left[n + 1] = IF DevOf(b) = d THEN left[n] ELSE Append(left[n], b)
      BY <1>0, <1>5, <3>1
    <3>3. b \in SrcBufs
      BY <1>0, <3>1
    <3>4. CASE DevOf(b) = d
      BY <3>1, <3>2, <3>4
    <3>5. CASE DevOf(b) # d
      <4>1. left[n + 1] = PushBuf(left[n], b)
        BY <3>2, <3>5 DEF PushBuf
      <4>2. Distinct(sink) => ~OnList(left[n], b)
        BY <1>0, <3>1 DEF Distinct
      <4> HIDE DEF b
      <4>3. /\ left[n + 1] \in Seq(SrcBufs)
            /\ \A c : OnList(left[n + 1], c) <=> OnList(left[n], c) \/ c = b
            /\ Distinct(sink) => Distinct(left[n + 1])
        BY <3>1, <3>3, <4>1, <4>2, PushBufFacts
      <4>4. ASSUME NEW c
            PROVE  OnList(left[n + 1], c) <=>
                     \E k \in 1 .. (n + 1) : sink[k] = c /\ DevOf(c) # d
        BY <3>1, <3>5, <4>3 DEF b
      <4> QED
        BY <4>3, <4>4
    <3> QED
      BY <3>4, <3>5
  <2>3. T = Nat
    <3> HIDE DEF T
    <3>1. T \subseteq Nat
      BY DEF T
    <3> QED
      BY <2>1, <2>2, <3>1, SetInduction
  <2> HIDE DEF Good
  <2> QED
    BY <1>0, <2>3
<1>4. Good(Len(sink))
  <2> HIDE DEF Good
  <2> QED
    BY <1>0, <1>3
<1> QED
  BY <1>0, <1>2, <1>4 DEF OnList
-----------------------------------------------------------------------------
(***************************************************************************)
(* Plans.                                                                  *)
(***************************************************************************)

\* Plan t begins with step hd for subdevice d, goes on with `rest', and ends
\* with step end.
Row(t, hd, end, d, rest) ==
    t # <<>> /\ Head(t) = <<hd, d>> /\ Hd(t) = hd /\ End(t) = end /\ Tail(t) = rest

LEMMA PlanTable ==
    ASSUME NEW d
    PROVE  /\ Row(SetPlan(d), "set_driver", "set_driver", d, <<>>)
           /\ Row(ClearPlan(d), "clear_driver", "clear_driver", d, <<>>)
           /\ Row(Stop1(d), "set_idle", "set_idle", d, <<>>)
           /\ Row(Stop2(d), "clean", "set_idle", d, Stop1(d))
           /\ Row(Stop3(d), "hw_stop", "set_idle", d, Stop2(d))
           /\ Row(Leave1(d), "flush", "flush", d, <<>>)
           /\ Row(Leave2(d), "zero_state", "flush", d, Leave1(d))
           /\ Row(Close1(d), "clean", "clean", d, <<>>)
           /\ Row(Close2(d), "free_irq", "clean", d, Close1(d))
           /\ Row(Close3(d), "hw_stop", "clean", d, Close2(d))
           /\ Row(Close4(d), "flush", "clean", d, Close3(d))
           /\ Row(Close5(d), "zero_state", "clean", d, Close4(d))
<1> USE DEF Row, Hd, End
<1>1. Row(SetPlan(d), "set_driver", "set_driver", d, <<>>)
  BY DEF SetPlan
<1>2. Row(ClearPlan(d), "clear_driver", "clear_driver", d, <<>>)
  BY DEF ClearPlan
<1>3. Row(Stop1(d), "set_idle", "set_idle", d, <<>>)
  BY DEF Stop1
<1>4. Row(Stop2(d), "clean", "set_idle", d, Stop1(d))
  BY DEF Stop2, Stop1
<1>5. Row(Stop3(d), "hw_stop", "set_idle", d, Stop2(d))
  BY DEF Stop3, Stop2
<1>6. Row(Leave1(d), "flush", "flush", d, <<>>)
  BY DEF Leave1
<1>7. Row(Leave2(d), "zero_state", "flush", d, Leave1(d))
  BY DEF Leave2, Leave1
<1>8. Row(Close1(d), "clean", "clean", d, <<>>)
  BY DEF Close1
<1>9. Row(Close2(d), "free_irq", "clean", d, Close1(d))
  BY DEF Close2, Close1
<1>10. Row(Close3(d), "hw_stop", "clean", d, Close2(d))
  BY DEF Close3, Close2
<1>11. Row(Close4(d), "flush", "clean", d, Close3(d))
  BY DEF Close4, Close3
<1>12. Row(Close5(d), "zero_state", "clean", d, Close4(d))
  BY DEF Close5, Close4
<1> QED
  BY <1>1, <1>2, <1>3, <1>4, <1>5, <1>6, <1>7, <1>8, <1>9, <1>10, <1>11, <1>12

\* A step of a plan, and what comes after it.
LEMMA PlanStep ==
    ASSUME NEW d \in Devs, NEW t \in Plans(d), t # <<>>
    PROVE  /\ Head(t) = <<Hd(t), d>> /\ Dev(t) = d /\ Hd(t) # "none"
           /\ Tail(t) \in Plans(d)
           /\ Tail(t) # <<>> => End(Tail(t)) = End(t) /\ Dev(Tail(t)) = d
           /\ Hd(t) \in {"set_driver", "clear_driver", "set_idle"} =>
                 End(t) = Hd(t) /\ Tail(t) = <<>>
           /\ Hd(t) = "hw_stop" =>
                 \/ Stopping(t) /\ Hd(Tail(t)) = "clean" /\ Tail(t) # <<>>
                 \/ Closing(t) /\ Hd(Tail(t)) = "free_irq" /\ Tail(t) # <<>>
           /\ Hd(t) = "clean" =>
                 \/ Stopping(t) /\ Hd(Tail(t)) = "set_idle" /\ Tail(t) # <<>>
                 \/ Closing(t) /\ Tail(t) = <<>>
           /\ Hd(t) = "free_irq" => Closing(t) /\ Hd(Tail(t)) = "clean" /\ Tail(t) # <<>>
           /\ Hd(t) = "zero_state" =>
                 (Closing(t) \/ End(t) = "flush") /\ Hd(Tail(t)) = "flush" /\ Tail(t) # <<>>
           /\ Hd(t) = "flush" =>
                 \/ Closing(t) /\ Hd(Tail(t)) = "hw_stop" /\ Tail(t) # <<>>
                 \/ End(t) = "flush" /\ Tail(t) = <<>>
           /\ Closing(t) => Hd(t) \in {"zero_state", "flush", "hw_stop", "free_irq", "clean"}
           /\ Stopping(t) => Hd(t) \in {"hw_stop", "clean", "set_idle"}
<1> DEFINE Is(hd, end, rest) == Row(t, hd, end, d, rest)
<1>1. \/ Is("set_driver", "set_driver", <<>>)
      \/ Is("clear_driver", "clear_driver", <<>>)
      \/ Is("set_idle", "set_idle", <<>>)
      \/ Is("clean", "set_idle", Stop1(d))
      \/ Is("hw_stop", "set_idle", Stop2(d))
      \/ Is("flush", "flush", <<>>)
      \/ Is("zero_state", "flush", Leave1(d))
      \/ Is("clean", "clean", <<>>)
      \/ Is("free_irq", "clean", Close1(d))
      \/ Is("hw_stop", "clean", Close2(d))
      \/ Is("flush", "clean", Close3(d))
      \/ Is("zero_state", "clean", Close4(d))
  <2> HIDE DEF Row
  <2> QED
    BY PlanTable DEF Plans
<1>2. Head(t) = <<Hd(t), d>> /\ Dev(t) = d /\ Hd(t) # "none"
  BY <1>1 DEF Row, Dev
<1>3. Tail(t) \in Plans(d)
  BY <1>1 DEF Row, Plans
<1>4. /\ \A p \in {Stop1(d), Stop2(d), Leave1(d), Close1(d), Close2(d), Close3(d), Close4(d)} :
            p # <<>> /\ Dev(p) = d
      /\ Hd(Stop1(d)) = "set_idle" /\ Hd(Stop2(d)) = "clean" /\ Hd(Leave1(d)) = "flush"
      /\ Hd(Close1(d)) = "clean" /\ Hd(Close2(d)) = "free_irq"
      /\ Hd(Close3(d)) = "hw_stop" /\ Hd(Close4(d)) = "flush"
      /\ End(Stop1(d)) = "set_idle" /\ End(Stop2(d)) = "set_idle"
      /\ End(Leave1(d)) = "flush" /\ End(Close1(d)) = "clean"
      /\ End(Close2(d)) = "clean" /\ End(Close3(d)) = "clean" /\ End(Close4(d)) = "clean"
  BY PlanTable DEF Row, Dev
<1>5. /\ Hd(t) \in {"set_driver", "clear_driver", "set_idle"} =>
            End(t) = Hd(t) /\ Tail(t) = <<>>
      /\ Closing(t) => Hd(t) \in {"zero_state", "flush", "hw_stop", "free_irq", "clean"}
      /\ Stopping(t) => Hd(t) \in {"hw_stop", "clean", "set_idle"}
  BY <1>1 DEF Row, Stopping, Closing
<1>6. Tail(t) # <<>> => End(Tail(t)) = End(t) /\ Dev(Tail(t)) = d
  BY <1>1, <1>4 DEF Row
<1>7. Tail(t) # <<>> =>
        /\ Hd(t) = "hw_stop" => \/ Stopping(t) /\ Hd(Tail(t)) = "clean"
                                \/ Closing(t) /\ Hd(Tail(t)) = "free_irq"
        /\ Hd(t) = "clean" => Stopping(t) /\ Hd(Tail(t)) = "set_idle"
        /\ Hd(t) = "free_irq" => Closing(t) /\ Hd(Tail(t)) = "clean"
        /\ Hd(t) = "zero_state" => (Closing(t) \/ End(t) = "flush") /\ Hd(Tail(t)) = "flush"
        /\ Hd(t) = "flush" => Closing(t) /\ Hd(Tail(t)) = "hw_stop"
  BY <1>1, <1>4 DEF Row, Stopping, Closing
<1>8. Tail(t) = <<>> =>
        /\ Hd(t) \in {"set_driver", "clear_driver", "set_idle", "flush", "clean"}
        /\ Hd(t) = "clean" => Closing(t)
        /\ Hd(t) = "flush" => End(t) = "flush"
  BY <1>1, <1>4 DEF Row, Closing
<1> QED
  BY <1>2, <1>3, <1>5, <1>6, <1>7, <1>8

\* The plans are sequences of labels, each with its subdevice.
LEMMA PlanType ==
    ASSUME NEW d \in Devs PROVE Plans(d) \subseteq Seq(StepLabels \X Devs)
BY DEF Plans, StepLabels, SetPlan, ClearPlan, Stop1, Stop2, Stop3, Leave1, Leave2, Close1,
       Close2, Close3, Close4, Close5

\* The plans the ioctls make.
LEMMA NewPlans ==
    ASSUME NEW d \in Devs
    PROVE  /\ Steps(d, <<"set_driver">>) = SetPlan(d)
           /\ Steps(d, <<"clear_driver">>) = ClearPlan(d)
           /\ Steps(d, <<"hw_stop", "clean", "set_idle">>) = Stop3(d)
           /\ Steps(d, <<>> \o <<>>) = <<>>
           /\ Steps(d, <<"zero_state", "flush">> \o <<>>) = Leave2(d)
           /\ Steps(d, <<"zero_state", "flush">> \o <<"hw_stop", "free_irq", "clean">>)
                = Close5(d)
BY DEF Steps, SetPlan, ClearPlan, Stop3, Leave2, Close5
-----------------------------------------------------------------------------
(***************************************************************************)
(* Types.                                                                  *)
(***************************************************************************)

\* The windows a behaviour keeps closed never change.
LEMMA ClosedFixed == [Next]_vars => closed' = closed
BY DEF Next, vars

\* Every buffer belongs to a subdevice, and none is the null pointer.
LEMMA BufFacts ==
    /\ \A b \in SrcBufs : DevOf(b) \in Devs /\ b # NULL
    /\ \A b \in DstBufs : DevOf(b) \in Devs /\ b # NULL
    /\ NULL \notin SrcBufs \X DstBufs
    /\ 0 \in Devs
<1>1. Devs \subseteq 0 .. 1 /\ 0 \in Devs
  BY DweAssumption DEF Devs
<1>2. \A b \in SrcBufs \cup DstBufs : DevOf(b) \in Devs /\ b \in (0 .. 1) \X Nat
  <2>1. (1 .. NSrc) \subseteq Nat /\ (1 .. NDst) \subseteq Nat
    BY DweAssumption
  <2>2. SrcBufs \cup DstBufs \subseteq Devs \X Nat
    BY <2>1 DEF SrcBufs, DstBufs
  <2> QED
    BY <1>1, <2>2 DEF DevOf
<1>3. \A j \in SrcBufs \X DstBufs : j \in ((0 .. 1) \X Nat) \X ((0 .. 1) \X Nat)
  BY <1>2
<1> QED
  BY <1>1, <1>2, <1>3, DweAssumption

\* The empty plan.
LEMMA NoPlan == Hd(<<>>) = "none" /\ End(<<>>) = "none"
BY DEF Hd, End

\* What is known of the plan in progress.
LEMMA TodoFacts ==
    ASSUME Planned, todo # <<>>
    PROVE  /\ Who \in Devs /\ todo \in Plans(Who) /\ Dev(todo) = Who
           /\ Head(todo) = <<Hd(todo), Who>> /\ Hd(todo) # "none"
           /\ Tail(todo) \in Plans(Who)
BY PlanStep DEF Planned, Who

\* The plan close makes.
LEMMA ClosePlan ==
    ASSUME TypeOK, NEW d \in Devs, Close(d)
    PROVE  \/ refcnt[d] # 1 /\ todo' = <<>> /\ \E e \in Devs : refcnt'[e] # 0
           \/ refcnt[d] = 1 /\ todo' = Leave2(d) /\ \E e \in Devs : refcnt'[e] # 0
           \/ refcnt[d] = 1 /\ todo' = Close5(d) /\ \A e \in Devs : refcnt'[e] = 0
<1>1. refcnt[d] \in Nat /\ refcnt'[d] = refcnt[d] - 1
  BY DEF TypeOK, Close
<1>2. (\A e \in Devs : refcnt'[e] = 0) => refcnt[d] = 1
  BY <1>1
<1>3. todo' = Steps(d, (IF refcnt[d] = 1 THEN <<"zero_state", "flush">> ELSE <<>>)
                \o (IF \A e \in Devs : refcnt'[e] = 0
                      THEN <<"hw_stop", "free_irq", "clean">> ELSE <<>>))
  BY DEF Close
<1>4. CASE refcnt[d] # 1
  BY <1>2, <1>3, <1>4, NewPlans
<1>5. CASE refcnt[d] = 1 /\ \A e \in Devs : refcnt'[e] = 0
  BY <1>3, <1>5, NewPlans
<1>6. CASE refcnt[d] = 1 /\ \E e \in Devs : refcnt'[e] # 0
  BY <1>3, <1>6, NewPlans
<1> QED
  BY <1>4, <1>5, <1>6

\* What is left of a plan is a sequence of labels.
LEMMA TodoType ==
    ASSUME Planned, todo # <<>> PROVE Tail(todo) \in Seq(StepLabels \X Devs)
BY TodoFacts, PlanType

\* Every operation keeps the type of every variable.
LEMMA TypeOKStep ==
    ASSUME TypeOK, Planned, Held, [Next]_vars
    PROVE  TypeOK'
<1>1. CASE FrameDone /\ UNCHANGED closed
  BY <1>1 DEF FrameDone, TypeOK, Flags, dev, bufs, hw, notify, proc, stream
<1>2. CASE FrameError /\ UNCHANGED closed
  BY <1>2 DEF FrameError, TypeOK, Flags, dev, bufs, hw, notify, proc, stream
<1>3. CASE HwIsr /\ UNCHANGED closed
  BY <1>3 DEF HwIsr, TypeOK, Flags, dev, bufs, hw, notify, proc, stream
<1>4. CASE IsrDone /\ UNCHANGED closed
  BY <1>4 DEF IsrDone, TypeOK, Flags, dev, bufs, hw, notify, proc, stream
<1>5. CASE IsrError /\ UNCHANGED closed
  <2>1. ASSUME dst # NULL PROVE PushBuf(srcq[index], dst) \in Seq(DstBufs)
    BY <2>1, PushBufFacts DEF TypeOK
  <2>2. srcq \in [Devs -> Seq(DstBufs)] /\ oops \in {"none", "double_add", "null_deref"}
    BY DEF TypeOK
  <2>3. srcq' \in [Devs -> Seq(DstBufs)] /\ oops' \in {"none", "double_add", "null_deref"}
    BY <1>5, <2>1, <2>2 DEF IsrError
  <2> QED
    BY <1>5, <2>3 DEF IsrError, TypeOK, dev, bufs, hw, notify, proc, stream
<1>6. CASE TaskletStart /\ UNCHANGED closed
  BY <1>6 DEF TaskletStart, TypeOK, Flags, dev, bufs, hw, notify, proc, stream
<1>7. CASE TaskletPull /\ UNCHANGED closed
  <2>1. sink' \in Seq(SrcBufs) /\ index' \in Devs /\ src' \in SrcBufs \cup {NULL}
    BY <1>7, BufFacts, PullBufFacts, WithoutDevFacts DEF TaskletPull, TypeOK
  <2>2. isp' \in SUBSET SrcBufs
    BY <1>7, EntriesFacts DEF TaskletPull, TypeOK
  <2> QED
    BY <1>7, <2>1, <2>2 DEF TaskletPull, Continue, TypeOK, dev, bufs, hw, notify, proc, stream
<1>8. CASE TaskletDst /\ UNCHANGED closed
  <2>1. src \in SrcBufs
    BY <1>8 DEF TaskletDst, Held, TypeOK
  <2>2. CASE lut[index] /\ Pullable(srcq[index])
    <3>1. PullBuf(srcq[index]) \in Seq(DstBufs) /\ TryDqbuf(srcq[index]) \in DstBufs
      BY <2>2, PullBufFacts DEF TypeOK
    <3>2. srcq \in [Devs -> Seq(DstBufs)]
      BY DEF TypeOK
    <3>3. srcq' \in [Devs -> Seq(DstBufs)]
      BY <1>8, <2>2, <3>1, <3>2 DEF TaskletDst
    <3>4. dst' \in DstBufs /\ job' \in SrcBufs \X DstBufs
      BY <1>8, <2>1, <2>2, <3>1 DEF TaskletDst
    <3> QED
      BY <1>8, <2>2, <3>3, <3>4 DEF TaskletDst, TypeOK, dev, bufs, hw, notify, proc, stream
  <2>3. CASE ~(lut[index] /\ Pullable(srcq[index]))
    <3>1. dst' \in DstBufs \cup {NULL}
      BY <1>8, <2>3 DEF TaskletDst, TypeOK
    <3> QED
      BY <1>8, <2>1, <2>3, <3>1 DEF TaskletDst, Continue, TypeOK, dev, bufs, hw, notify, proc,
         stream
  <2> QED
    BY <2>2, <2>3
<1>9. CASE TaskletIdle /\ UNCHANGED closed
  BY <1>9 DEF TaskletIdle, TypeOK, Flags, dev, bufs, hw, notify, proc, stream
<1>10. CASE SetDriver /\ UNCHANGED closed
  <2>1. todo' \in Seq(StepLabels \X Devs)
    BY <1>10, TodoType DEF SetDriver, At
  <2>2. state' \in [Devs -> SUBSET Flags]
    BY <1>10 DEF SetDriver, TypeOK, Flags
  <2> QED
    BY <1>10, <2>1, <2>2 DEF SetDriver, TypeOK, dev, bufs, hw, notify, proc, stream
<1>11. CASE ClearDriver /\ UNCHANGED closed
  <2>1. todo' \in Seq(StepLabels \X Devs)
    <3>1. Who \in Devs
      BY <1>11, TodoFacts DEF ClearDriver, At
    <3>2. todo' \in {Stop3(Who), <<>>}
      BY <1>11, <3>1, NewPlans DEF ClearDriver
    <3>3. todo' \in Plans(Who)
      BY <3>2 DEF Plans
    <3> QED
      BY <3>1, <3>3, PlanType
  <2>2. core' \in -MaxCore .. MaxCore
    BY <1>11, DweAssumption DEF ClearDriver, TypeOK
  <2>3. state' \in [Devs -> SUBSET Flags]
    BY <1>11 DEF ClearDriver, TypeOK, Flags
  <2> QED
    BY <1>11, <2>1, <2>2, <2>3 DEF ClearDriver, TypeOK, dev, bufs, hw, notify, proc, stream
<1>12. CASE HwStop /\ UNCHANGED closed
  <2>1. todo' \in Seq(StepLabels \X Devs)
    BY <1>12, TodoType DEF HwStop, At
  <2>2. /\ job' \in (SrcBufs \X DstBufs) \cup {NULL} /\ made' \in (SrcBufs \X DstBufs) \cup {NULL}
        /\ ris' \in SUBSET {"done", "error"} /\ irqEn' \in BOOLEAN
    BY <1>12 DEF HwStop
  <2>3. UNCHANGED <<closed, dev, bufs, index, hardware_status, isr, tasklet, tpc, notify, dreg,
                    stream, oops>>
    BY <1>12 DEF HwStop
  <2> QED
    BY <2>1, <2>2, <2>3 DEF TypeOK, dev, bufs, hw, notify, proc, stream
<1>13. CASE Clean /\ UNCHANGED closed
  <2>1. todo' \in Seq(StepLabels \X Devs)
    BY <1>13, TodoType DEF Clean, At
  <2>2. isp' \in SUBSET SrcBufs
    BY <1>13, EntriesFacts DEF Clean, Reclaimed, TypeOK
  <2> QED
    BY <1>13, <2>1, <2>2 DEF Clean, TypeOK, dev, bufs, hw, notify, proc, stream
<1>14. CASE SetIdle /\ UNCHANGED closed
  <2>1. todo' \in Seq(StepLabels \X Devs)
    BY <1>14, TodoType DEF SetIdle, At
  <2> QED
    BY <1>14, <2>1 DEF SetIdle, TypeOK, Flags, dev, bufs, hw, notify, proc, stream
<1>15. CASE ZeroState /\ UNCHANGED closed
  <2>1. todo' \in Seq(StepLabels \X Devs)
    BY <1>15, TodoType DEF ZeroState, At
  <2>2. state' \in [Devs -> SUBSET Flags]
    BY <1>15 DEF ZeroState, TypeOK
  <2> QED
    BY <1>15, <2>1, <2>2 DEF ZeroState, TypeOK, dev, bufs, hw, notify, proc, stream
<1>16. CASE Flush /\ UNCHANGED closed
  <2>1. todo' \in Seq(StepLabels \X Devs)
    BY <1>16, TodoType DEF Flush, At
  <2>2. srcq \in [Devs -> Seq(DstBufs)]
    BY DEF TypeOK
  <2>3. srcq' \in [Devs -> Seq(DstBufs)]
    BY <1>16, <2>2, <<>> \in Seq(DstBufs) DEF Flush
  <2> QED
    BY <1>16, <2>1, <2>3 DEF Flush, TypeOK, dev, bufs, hw, notify, proc, stream
<1>17. CASE FreeIrq /\ UNCHANGED closed
  <2>1. todo' \in Seq(StepLabels \X Devs)
    BY <1>17, TodoType DEF FreeIrq, At
  <2>2. core' \in -MaxCore .. MaxCore
    BY <1>17, DweAssumption DEF FreeIrq
  <2> QED
    BY <1>17, <2>1, <2>2 DEF FreeIrq, TypeOK, dev, bufs, hw, notify, proc, stream
<1>18. ASSUME NEW d \in Devs, NotifyPush(d), UNCHANGED closed PROVE TypeOK'
  <2>1. sink' \in Seq(SrcBufs)
    <3>1. nbuf[d] \in SrcBufs
      BY <1>18 DEF NotifyPush, TypeOK, Held
    <3> QED
      BY <1>18, <3>1, PushBufFacts DEF NotifyPush, TypeOK
  <2> QED
    BY <1>18, <2>1 DEF NotifyPush, TypeOK, dev, bufs, hw, notify, proc, stream
<1>19. ASSUME NEW d \in Devs, NotifyCheck(d), UNCHANGED closed PROVE TypeOK'
  BY <1>19 DEF NotifyCheck, TypeOK, Flags, dev, bufs, hw, notify, proc, stream
<1>20. ASSUME NEW d \in Devs, NotifyBusy(d), UNCHANGED closed PROVE TypeOK'
  BY <1>20 DEF NotifyBusy, TypeOK, Flags, dev, bufs, hw, notify, proc, stream
<1>21. ASSUME NEW d \in Devs, Open(d), UNCHANGED closed PROVE TypeOK'
  <2>1. refcnt' \in [Devs -> 0 .. MaxOpen]
    BY <1>21, DweAssumption DEF Open, TypeOK
  <2>2. ris' \in SUBSET {"done", "error"} /\ irqEn' \in BOOLEAN /\ irqOn' \in BOOLEAN
    BY <1>21 DEF Open, TypeOK
  <2> QED
    BY <1>21, <2>1, <2>2 DEF Open, TypeOK, dev, bufs, hw, notify, proc, stream
<1>22. ASSUME NEW d \in Devs, Close(d), UNCHANGED closed PROVE TypeOK'
  <2>1. refcnt' \in [Devs -> 0 .. MaxOpen]
    BY <1>22, DweAssumption DEF Close, TypeOK
  <2>2. todo' \in Plans(d)
    BY <1>22, ClosePlan DEF Plans
  <2>3. todo' \in Seq(StepLabels \X Devs)
    BY <2>2, PlanType
  <2> QED
    BY <1>22, <2>1, <2>3 DEF Close, TypeOK, dev, bufs, hw, notify, proc, stream
<1>23. ASSUME NEW d \in Devs, Start(d), UNCHANGED closed PROVE TypeOK'
  <2>1. core' \in -MaxCore .. MaxCore
    BY <1>23, DweAssumption DEF Start, TypeOK
  <2>2. todo' \in Plans(d)
    BY <1>23, NewPlans DEF Start, Plans
  <2>3. todo' \in Seq(StepLabels \X Devs)
    BY <2>2, PlanType
  <2>4. job' \in (SrcBufs \X DstBufs) \cup {NULL} /\ dreg' \in SUBSET Flags
    BY <1>23 DEF Start, TypeOK
  <2> QED
    BY <1>23, <2>1, <2>3, <2>4 DEF Start, TypeOK, dev, bufs, hw, notify, proc, stream
<1>24. ASSUME NEW d \in Devs, Stop(d), UNCHANGED closed PROVE TypeOK'
  <2>2. todo' \in Plans(d)
    BY <1>24, NewPlans DEF Stop, Plans
  <2>3. todo' \in Seq(StepLabels \X Devs)
    BY <2>2, PlanType
  <2> QED
    BY <1>24, <2>3 DEF Stop, TypeOK, dev, bufs, hw, notify, proc, stream
<1>25. ASSUME NEW d \in Devs, SetLut(d), UNCHANGED closed PROVE TypeOK'
  BY <1>25 DEF SetLut, TypeOK, Flags, dev, bufs, hw, notify, proc, stream
<1>26. ASSUME NEW d \in Devs, SetStream(d), UNCHANGED closed PROVE TypeOK'
  BY <1>26 DEF SetStream, TypeOK, Flags, dev, bufs, hw, notify, proc, stream
<1>27. ASSUME NEW d \in Devs, StreamWrite(d), UNCHANGED closed PROVE TypeOK'
  BY <1>27 DEF StreamWrite, TypeOK, Flags, dev, bufs, hw, notify, proc, stream
<1>28. ASSUME NEW d \in Devs, StreamFlush(d), UNCHANGED closed PROVE TypeOK'
  BY <1>28 DEF StreamFlush, TypeOK, Flags, dev, bufs, hw, notify, proc, stream
<1>29. ASSUME NEW d \in Devs, ReturnAll(d), UNCHANGED closed PROVE TypeOK'
  BY <1>29 DEF ReturnAll, TypeOK, Flags, dev, bufs, hw, notify, proc, stream
<1>30. ASSUME NEW b \in SrcBufs, NotifySrc(b), UNCHANGED closed PROVE TypeOK'
  <2>1. nbuf' \in [Devs -> SrcBufs \cup {NULL}]
    BY <1>30, BufFacts DEF NotifySrc, TypeOK
  <2>2. npc' \in [Devs -> {"idle", "push", "check", "busy"}]
    BY <1>30, BufFacts DEF NotifySrc, TypeOK
  <2> QED
    BY <1>30, <2>1, <2>2 DEF NotifySrc, TypeOK, dev, bufs, hw, notify, proc, stream
<1>31. ASSUME NEW b \in DstBufs, QueueDst(b), UNCHANGED closed PROVE TypeOK'
  <2>1. DevOf(b) \in Devs
    BY BufFacts
  <2>2. PushBuf(srcq[DevOf(b)], b) \in Seq(DstBufs)
    BY <2>1, PushBufFacts DEF TypeOK
  <2>3. srcq \in [Devs -> Seq(DstBufs)] /\ oops \in {"none", "double_add", "null_deref"}
    BY DEF TypeOK
  <2>4. srcq' \in [Devs -> Seq(DstBufs)] /\ oops' \in {"none", "double_add", "null_deref"}
    BY <1>31, <2>1, <2>2, <2>3 DEF QueueDst
  <2> QED
    BY <1>31, <2>4 DEF QueueDst, TypeOK, dev, bufs, hw, notify, proc, stream
<1>32. CASE UNCHANGED vars
  BY <1>32 DEF vars, TypeOK, dev, bufs, hw, notify, proc, stream
<1> QED
  BY <1>1, <1>2, <1>3, <1>4, <1>5, <1>6, <1>7, <1>8, <1>9, <1>10, <1>11, <1>12, <1>13,
     <1>14, <1>15, <1>16, <1>17, <1>18, <1>19, <1>20, <1>21, <1>22, <1>23, <1>24, <1>25,
     <1>26, <1>27, <1>28, <1>29, <1>30, <1>31, <1>32
     DEF Next, IsrStep, TaskletStep, IoctlStep, NotifyStep, Ioctl, StreamStep

\* What is left of a plan is a plan.
LEMMA PlannedStep ==
    ASSUME TypeOK, Planned, [Next]_vars
    PROVE  Planned'
<1>a. ASSUME todo' = todo PROVE Planned'
  BY <1>a DEF Planned
<1>b. ASSUME NEW d \in Devs, todo' \in Plans(d) PROVE Planned'
  BY <1>b DEF Planned, Plans, SetPlan, ClearPlan, Stop1, Stop2, Stop3, Leave1, Leave2, Close1,
     Close2, Close3, Close4, Close5
<1>1. CASE SetDriver /\ UNCHANGED closed
  BY <1>1, <1>b, TodoFacts DEF SetDriver, At
<1>2. CASE ClearDriver /\ UNCHANGED closed
  <2>1. Who \in Devs
    BY <1>2, TodoFacts DEF ClearDriver, At
  <2>2. todo' \in {Stop3(Who), <<>>}
    BY <1>2, <2>1, NewPlans DEF ClearDriver
  <2>3. todo' \in Plans(Who)
    BY <2>2 DEF Plans
  <2> QED
    BY <1>b, <2>1, <2>3
<1>3. CASE HwStop /\ UNCHANGED closed
  BY <1>3, <1>b, TodoFacts DEF HwStop, At
<1>4. CASE Clean /\ UNCHANGED closed
  BY <1>4, <1>b, TodoFacts DEF Clean, At
<1>5. CASE SetIdle /\ UNCHANGED closed
  BY <1>5, <1>b, TodoFacts DEF SetIdle, At
<1>6. CASE ZeroState /\ UNCHANGED closed
  BY <1>6, <1>b, TodoFacts DEF ZeroState, At
<1>7. CASE Flush /\ UNCHANGED closed
  BY <1>7, <1>b, TodoFacts DEF Flush, At
<1>8. CASE FreeIrq /\ UNCHANGED closed
  BY <1>8, <1>b, TodoFacts DEF FreeIrq, At
<1>9. ASSUME NEW d \in Devs, Close(d), UNCHANGED closed PROVE Planned'
  BY <1>9, <1>b, ClosePlan DEF Plans
<1>10. ASSUME NEW d \in Devs, Start(d), UNCHANGED closed PROVE Planned'
  BY <1>10, <1>b, NewPlans DEF Start, Plans
<1>11. ASSUME NEW d \in Devs, Stop(d), UNCHANGED closed PROVE Planned'
  BY <1>11, <1>b, NewPlans DEF Stop, Plans
<1>12. CASE \/ FrameDone \/ FrameError \/ HwIsr \/ IsrDone \/ IsrError \/ TaskletStart
            \/ TaskletPull \/ TaskletDst \/ TaskletIdle
            \/ \E d \in Devs : \/ NotifyPush(d) \/ NotifyCheck(d) \/ NotifyBusy(d) \/ Open(d) \/ SetLut(d)
                             \/ SetStream(d) \/ StreamWrite(d) \/ StreamFlush(d) \/ ReturnAll(d)
            \/ \E b \in SrcBufs : NotifySrc(b)
            \/ \E b \in DstBufs : QueueDst(b)
            \/ UNCHANGED vars
  <2>1. UNCHANGED <<todo>>
    BY <1>12, ClosedFixed DEF FrameDone, FrameError, HwIsr, IsrDone, IsrError, TaskletStart,
       TaskletPull, TaskletDst, TaskletIdle, NotifyPush, NotifyCheck, NotifyBusy, Open,
       SetLut, SetStream, StreamWrite, StreamFlush, ReturnAll, NotifySrc, QueueDst, vars,
       dev, bufs, hw, notify, proc, stream
  <2> QED
    BY <2>1, <1>a
<1> QED
  BY <1>1, <1>2, <1>3, <1>4, <1>5, <1>6, <1>7, <1>8, <1>9, <1>10, <1>11, <1>12
     DEF Next, IsrStep, TaskletStep, IoctlStep, NotifyStep, Ioctl, StreamStep

\* What is held by the ISP's interrupt handlers and the tasklet.
LEMMA HeldStep ==
    ASSUME TypeOK, Held, [Next]_vars
    PROVE  Held'
<1>a. ASSUME UNCHANGED <<npc, nbuf, tpc, src, index>>
      PROVE  Held'
  BY <1>a DEF Held
<1>1. CASE IsrDone /\ UNCHANGED closed
  BY <1>1 DEF IsrDone, Locked, Held, notify
<1>2. CASE IsrError /\ UNCHANGED closed
  BY <1>2 DEF IsrError, Locked, Held, notify
<1>3. CASE TaskletStart /\ UNCHANGED closed
  BY <1>3 DEF TaskletStart, TypeOK, Held, dev, bufs, hw, notify, proc, stream
<1>4. CASE TaskletPull /\ UNCHANGED closed
  <2>1. Pullable(sink) => TryDqbuf(sink) \in SrcBufs
    BY PullBufFacts DEF TypeOK
  <2>2. tpc' = "dst" => src' # NULL /\ DevOf(src') = index'
    BY <1>4, <2>1, BufFacts DEF TaskletPull, Continue
  <2> QED
    BY <1>4, <2>2 DEF TaskletPull, Held, notify
<1>5. CASE TaskletDst /\ UNCHANGED closed
  BY <1>5 DEF TaskletDst, Continue, Held, notify
<1>6. CASE TaskletIdle /\ UNCHANGED closed
  BY <1>6 DEF TaskletIdle, TypeOK, Held, dev, bufs, hw, notify, proc, stream
<1>7. CASE Clean /\ UNCHANGED closed
  BY <1>7 DEF Clean, Locked, Held, notify
<1>8. ASSUME NEW d \in Devs, NotifyPush(d), UNCHANGED closed PROVE Held'
  BY <1>8 DEF NotifyPush, TypeOK, Held, dev, bufs, hw, notify, proc, stream
<1>9. ASSUME NEW d \in Devs, NotifyCheck(d), UNCHANGED closed PROVE Held'
  BY <1>9 DEF NotifyCheck, TypeOK, Held, dev, bufs, hw, notify, proc, stream
<1>10. ASSUME NEW d \in Devs, NotifyBusy(d), UNCHANGED closed PROVE Held'
  BY <1>10 DEF NotifyBusy, TypeOK, Held, dev, bufs, hw, notify, proc, stream
<1>11. ASSUME NEW b \in SrcBufs, NotifySrc(b), UNCHANGED closed PROVE Held'
  <2>1. DevOf(b) \in Devs /\ b # NULL
    BY BufFacts
  <2>2. npc \in [Devs -> {"idle", "push", "check", "busy"}] /\ nbuf \in [Devs -> SrcBufs \cup {NULL}]
    BY DEF TypeOK
  <2> QED
    BY <1>11, <2>1, <2>2 DEF NotifySrc, Held
<1>12. CASE \/ FrameDone \/ FrameError \/ HwIsr \/ SetDriver \/ ClearDriver \/ HwStop
            \/ SetIdle \/ ZeroState \/ Flush \/ FreeIrq
            \/ \E d \in Devs : \/ Open(d) \/ Close(d) \/ Start(d) \/ Stop(d) \/ SetLut(d) \/ SetStream(d)
                             \/ StreamWrite(d) \/ StreamFlush(d) \/ ReturnAll(d)
            \/ \E b \in DstBufs : QueueDst(b)
            \/ UNCHANGED vars
  <2>1. UNCHANGED <<npc, nbuf, tpc, src, index>>
    BY <1>12, ClosedFixed DEF FrameDone, FrameError, HwIsr, SetDriver, ClearDriver, HwStop,
       SetIdle, ZeroState, Flush, FreeIrq, Open, Close, Start, Stop, SetLut, SetStream,
       StreamWrite, StreamFlush, ReturnAll, QueueDst, vars, dev, bufs, hw, notify, proc,
       stream
  <2> QED
    BY <2>1, <1>a
<1> QED
  BY <1>1, <1>2, <1>3, <1>4, <1>5, <1>6, <1>7, <1>8, <1>9, <1>10, <1>11, <1>12
     DEF Next, IsrStep, TaskletStep, IoctlStep, NotifyStep, Ioctl, StreamStep

-----------------------------------------------------------------------------
(***************************************************************************)
(* The roles of the buffers.                                               *)
(***************************************************************************)

\* A source buffer keeps its one place.
LEMMA SrcApartStep ==
    ASSUME TypeOK, Held, SrcApart, [Next]_vars
    PROVE  SrcApart'
<1>a. ASSUME UNCHANGED <<sink, isp, src, nbuf>>
      PROVE  SrcApart'
  BY <1>a DEF SrcApart
<1>1. CASE IsrDone /\ UNCHANGED closed
  BY <1>1, BufFacts DEF IsrDone, TypeOK, SrcApart, notify
<1>2. CASE IsrError /\ UNCHANGED closed
  BY <1>2, BufFacts DEF IsrError, TypeOK, SrcApart, notify
<1>3. CASE TaskletPull /\ UNCHANGED closed
  <2>1. CASE ~Pullable(sink)
    <3>1. src' = NULL /\ UNCHANGED <<sink, isp, nbuf>>
      BY <1>3, <2>1 DEF TaskletPull, notify
    <3> QED
      BY <3>1, BufFacts DEF SrcApart, TypeOK
  <2>2. CASE Pullable(sink) /\ Active(DevOf(TryDqbuf(sink)))
    <3>1. /\ src' = TryDqbuf(sink) /\ sink' = PullBuf(sink)
          /\ UNCHANGED <<isp, nbuf>>
      BY <1>3, <2>2 DEF TaskletPull, notify
    <3>2. /\ TryDqbuf(sink) \in SrcBufs
          /\ \A c : OnList(sink, c) <=> OnList(sink', c) \/ c = src'
          /\ Distinct(sink') /\ ~OnList(sink', src')
      BY <2>2, <3>1, PullBufFacts DEF TypeOK, SrcApart
    <3> QED
      BY <3>1, <3>2, BufFacts DEF SrcApart
  <2>3. CASE Pullable(sink) /\ ~Active(DevOf(TryDqbuf(sink)))
    <3> DEFINE d == DevOf(TryDqbuf(sink))
    <3>1. /\ src' = NULL /\ sink' = WithoutDev(d)
          /\ isp' = isp \cup {c \in Entries(sink) : DevOf(c) = d}
          /\ UNCHANGED nbuf
      BY <1>3, <2>3 DEF TaskletPull, notify
    <3>2. /\ \A c : OnList(sink', c) <=> OnList(sink, c) /\ DevOf(c) # d
          /\ Distinct(sink')
      BY <3>1, WithoutDevFacts DEF TypeOK, SrcApart
    <3>3. \A c \in isp' : c \in SrcBufs /\ (c \in isp \/ (OnList(sink, c) /\ DevOf(c) = d))
      BY <3>1, EntriesFacts DEF TypeOK
    <3> HIDE DEF d
    <3> QED
      BY <3>1, <3>2, <3>3, BufFacts DEF SrcApart
  <2> QED
    BY <2>1, <2>2, <2>3
<1>4. CASE TaskletDst /\ UNCHANGED closed
  <2>1. src # NULL
    BY <1>4 DEF TaskletDst, Held
  <2> QED
    BY <1>4, <2>1, BufFacts DEF TaskletDst, TypeOK, SrcApart, notify
<1>5. CASE Clean /\ UNCHANGED closed
  <2>1. /\ UNCHANGED nbuf /\ sink' = <<>> /\ src' = NULL /\ isp' = isp \cup Reclaimed
    BY <1>5 DEF Clean, notify
  <2>2. \A b \in isp' : b \in SrcBufs /\ (b \in isp \/ OnList(sink, b) \/ (b = src /\ b # NULL))
    BY <2>1, EntriesFacts DEF Reclaimed, TypeOK
  <2> QED
    BY <2>1, <2>2, NoEntry, BufFacts DEF SrcApart
<1>6. ASSUME NEW d \in Devs, NotifyPush(d), UNCHANGED closed PROVE SrcApart'
  <2>1. nbuf[d] \in SrcBufs /\ nbuf \in [Devs -> SrcBufs \cup {NULL}] /\ DevOf(nbuf[d]) = d
    BY <1>6 DEF NotifyPush, TypeOK, Held
  <2>2. /\ UNCHANGED <<isp, src>> /\ sink' = PushBuf(sink, nbuf[d])
        /\ nbuf' = [nbuf EXCEPT ![d] = NULL]
    BY <1>6 DEF NotifyPush
  <2>3. /\ \A c : OnList(sink', c) <=> OnList(sink, c) \/ c = nbuf[d]
        /\ Distinct(sink')
    <3>1. Distinct(sink) /\ ~OnList(sink, nbuf[d])
      BY <2>1, BufFacts DEF SrcApart
    <3>2. sink \in Seq(SrcBufs)
      BY DEF TypeOK
    <3> QED
      BY <2>1, <2>2, <3>1, <3>2, PushBufFacts
  <2>4. \A e \in Devs : e # d /\ nbuf[e] # NULL => DevOf(nbuf[e]) = e
    BY DEF Held
  <2> QED
    BY <2>1, <2>2, <2>3, <2>4, BufFacts DEF SrcApart, TypeOK
<1>7. ASSUME NEW b \in SrcBufs, NotifySrc(b), UNCHANGED closed PROVE SrcApart'
  <2>1. /\ DevOf(b) \in Devs /\ b # NULL /\ nbuf \in [Devs -> SrcBufs \cup {NULL}]
        /\ isp \subseteq SrcBufs
    BY BufFacts DEF TypeOK
  <2>2. /\ UNCHANGED <<sink, src>> /\ isp' = isp \ {b} /\ b \in isp
        /\ nbuf' = [nbuf EXCEPT ![DevOf(b)] = b]
    BY <1>7 DEF NotifySrc
  <2>3. src \in SrcBufs \cup {NULL}
    BY DEF TypeOK
  <2> QED
    BY <2>1, <2>2, <2>3, BufFacts DEF SrcApart
<1>8. CASE \/ FrameDone \/ FrameError \/ HwIsr \/ TaskletStart \/ TaskletIdle
           \/ SetDriver \/ ClearDriver \/ HwStop \/ SetIdle \/ ZeroState \/ Flush
           \/ FreeIrq
           \/ \E d \in Devs : \/ NotifyCheck(d) \/ NotifyBusy(d) \/ Open(d) \/ Close(d) \/ Start(d)
                             \/ Stop(d) \/ SetLut(d) \/ SetStream(d) \/ StreamWrite(d) \/ StreamFlush(d)
                             \/ ReturnAll(d)
           \/ \E b \in DstBufs : QueueDst(b)
           \/ UNCHANGED vars
  <2>1. UNCHANGED <<sink, isp, src, nbuf>>
    BY <1>8, ClosedFixed DEF FrameDone, FrameError, HwIsr, TaskletStart, TaskletIdle,
       SetDriver, ClearDriver, HwStop, SetIdle, ZeroState, Flush, FreeIrq, NotifyCheck,
       NotifyBusy, Open, Close, Start, Stop, SetLut, SetStream, StreamWrite, StreamFlush,
       ReturnAll, QueueDst, vars, dev, bufs, hw, notify, proc, stream
  <2> QED
    BY <2>1, <1>a
<1> QED
  BY <1>1, <1>2, <1>3, <1>4, <1>5, <1>6, <1>7, <1>8
     DEF Next, IsrStep, TaskletStep, IoctlStep, NotifyStep, Ioctl, StreamStep

\* A destination buffer stays with its subdevice.
LEMMA DstPlacedStep ==
    ASSUME TypeOK, Held, DstPlaced, [Next]_vars
    PROVE  DstPlaced'
<1>a. ASSUME UNCHANGED <<srcq, dst, index, tpc, oops>>
      PROVE  DstPlaced'
  BY <1>a DEF DstPlaced
<1>1. CASE IsrDone /\ UNCHANGED closed /\ oops = "none"
  BY <1>1 DEF IsrDone, DstPlaced, bufs
<1>2. CASE IsrError /\ UNCHANGED closed /\ oops = "none"
  <2>1. /\ dst # NULL => dst \in DstBufs /\ DevOf(dst) = index
        /\ srcq \in [Devs -> Seq(DstBufs)] /\ index \in Devs
    BY <1>2 DEF IsrError, Locked, TypeOK, DstPlaced
  <2>2. CASE UNCHANGED srcq
    BY <1>2, <2>2 DEF IsrError, DstPlaced
  <2>3. CASE /\ dst # NULL /\ ~OnList(srcq[index], dst)
             /\ srcq' = [srcq EXCEPT ![index] = PushBuf(@, dst)]
    <3>1. /\ \A c : OnList(srcq'[index], c) <=> OnList(srcq[index], c) \/ c = dst
          /\ Distinct(srcq'[index])
      BY <2>1, <2>3, PushBufFacts DEF DstPlaced
    <3>2. \A d \in Devs : d # index => srcq'[d] = srcq[d]
      BY <2>1, <2>3
    <3>3. dst' = NULL
      BY <1>2 DEF IsrError
    <3> QED
      BY <2>1, <2>3, <3>1, <3>2, <3>3 DEF DstPlaced
  <2> QED
    BY <1>2, <2>2, <2>3 DEF IsrError
<1>3. CASE TaskletStart /\ UNCHANGED closed /\ oops = "none"
  BY <1>3 DEF TaskletStart, DstPlaced, bufs
<1>4. CASE TaskletPull /\ UNCHANGED closed /\ oops = "none"
  <2>1. /\ UNCHANGED <<srcq, dst>>
        /\ oops' = "none" /\ dst # NULL /\ tpc' # "dst" => index' = index
    BY <1>4 DEF TaskletPull, Continue
  <2>2. tpc = "pull"
    BY <1>4 DEF TaskletPull
  <2> QED
    BY <1>4, <2>1, <2>2 DEF DstPlaced
<1>5. CASE TaskletDst /\ UNCHANGED closed /\ oops = "none"
  <2>1. index \in Devs /\ srcq \in [Devs -> Seq(DstBufs)]
    BY DEF TypeOK
  <2>2. CASE lut[index] /\ Pullable(srcq[index])
    <3>1. /\ dst' = TryDqbuf(srcq[index]) /\ srcq' = [srcq EXCEPT ![index] = PullBuf(@)]
          /\ UNCHANGED index
      BY <1>5, <2>2 DEF TaskletDst
    <3>2. /\ \A c : OnList(srcq[index], c) <=> OnList(srcq'[index], c) \/ c = dst'
          /\ Distinct(srcq'[index]) /\ dst' \in DstBufs
      BY <2>1, <2>2, <3>1, PullBufFacts DEF DstPlaced
    <3>3. \A d \in Devs : d # index => srcq'[d] = srcq[d]
      BY <2>1, <3>1
    <3> QED
      BY <2>1, <3>1, <3>2, <3>3 DEF DstPlaced
  <2>3. CASE ~(lut[index] /\ Pullable(srcq[index]))
    <3>1. UNCHANGED srcq /\ (oops' = "none" => dst' = NULL)
      BY <1>5, <2>3 DEF TaskletDst, Continue
    <3> QED
      BY <3>1 DEF DstPlaced
  <2> QED
    BY <2>2, <2>3
<1>6. CASE TaskletIdle /\ UNCHANGED closed /\ oops = "none"
  BY <1>6 DEF TaskletIdle, DstPlaced, bufs
<1>7. CASE Clean /\ UNCHANGED closed /\ oops = "none"
  BY <1>7 DEF Clean, DstPlaced, bufs
<1>8. CASE Flush /\ UNCHANGED closed /\ oops = "none"
  <2>1. srcq' = [srcq EXCEPT ![Who] = <<>>] /\ UNCHANGED <<dst, index, tpc, oops>>
    BY <1>8 DEF Flush
  <2>2. \A e \in Devs : srcq'[e] = srcq[e] \/ srcq'[e] = <<>>
    BY <2>1 DEF TypeOK
  <2> QED
    BY <2>1, <2>2, NoEntry DEF DstPlaced
<1>9. ASSUME NEW d \in Devs, StreamFlush(d), UNCHANGED closed, oops = "none" PROVE DstPlaced'
  <2>1. srcq' = [srcq EXCEPT ![d] = <<>>] /\ UNCHANGED <<dst, index, tpc, oops>>
    BY <1>9 DEF StreamFlush
  <2>2. \A e \in Devs : srcq'[e] = srcq[e] \/ srcq'[e] = <<>>
    BY <2>1 DEF TypeOK
  <2> QED
    BY <2>1, <2>2, NoEntry DEF DstPlaced
<1>10. ASSUME NEW b \in DstBufs, QueueDst(b), UNCHANGED closed, oops = "none" PROVE DstPlaced'
  <2>1. /\ DevOf(b) \in Devs /\ srcq \in [Devs -> Seq(DstBufs)]
        /\ UNCHANGED <<dst, index, tpc>>
    BY <1>10, BufFacts DEF QueueDst, TypeOK
  <2>2. CASE UNCHANGED srcq
    BY <1>10, <2>1, <2>2 DEF DstPlaced
  <2>3. CASE ~OnList(srcq[DevOf(b)], b) /\ srcq' = [srcq EXCEPT ![DevOf(b)] = PushBuf(@, b)]
    <3>1. /\ \A c : OnList(srcq'[DevOf(b)], c) <=> OnList(srcq[DevOf(b)], c) \/ c = b
          /\ Distinct(srcq'[DevOf(b)])
      BY <2>1, <2>3, PushBufFacts DEF DstPlaced
    <3>2. \A d \in Devs : d # DevOf(b) => srcq'[d] = srcq[d]
      BY <2>1, <2>3
    <3> QED
      BY <1>10, <2>1, <3>1, <3>2 DEF DstPlaced
  <2> QED
    BY <1>10, <2>2, <2>3 DEF QueueDst
<1>11. CASE \/ FrameDone \/ FrameError \/ HwIsr \/ SetDriver \/ ClearDriver \/ HwStop
            \/ SetIdle \/ ZeroState \/ FreeIrq
            \/ \E d \in Devs : \/ NotifyPush(d) \/ NotifyCheck(d) \/ NotifyBusy(d) \/ Open(d) \/ Close(d)
                             \/ Start(d) \/ Stop(d) \/ SetLut(d) \/ SetStream(d) \/ StreamWrite(d)
                             \/ ReturnAll(d)
            \/ \E b \in SrcBufs : NotifySrc(b)
            \/ UNCHANGED vars
  <2>1. UNCHANGED <<srcq, dst, index, tpc, oops>>
    BY <1>11, ClosedFixed DEF FrameDone, FrameError, HwIsr, SetDriver, ClearDriver, HwStop,
       SetIdle, ZeroState, FreeIrq, NotifyPush, NotifyCheck, NotifyBusy, Open, Close, Start,
       Stop, SetLut, SetStream, StreamWrite, ReturnAll, NotifySrc, vars, dev, bufs, hw,
       notify, proc, stream
  <2> QED
    BY <2>1, <1>a
<1> QED
  BY <1>1, <1>2, <1>3, <1>4, <1>5, <1>6, <1>7, <1>8, <1>9, <1>10, <1>11
     DEF Next, IsrStep, TaskletStep, IoctlStep, NotifyStep, Ioctl, StreamStep

\* The destination in work is queued again by a user who may only.
LEMMA DstApartStep ==
    ASSUME TypeOK, DstPlaced, DstApart, [Next]_vars
    PROVE  DstApart'
<1>a. ASSUME UNCHANGED <<srcq, dst, closed>>
      PROVE  DstApart'
  BY <1>a DEF DstApart, Shut
<1>1. CASE IsrDone /\ UNCHANGED closed /\ oops = "none"
  BY <1>1 DEF IsrDone, DstApart, Shut
<1>2. CASE IsrError /\ UNCHANGED closed /\ oops = "none"
  BY <1>2 DEF IsrError, DstApart, Shut
<1>3. CASE TaskletDst /\ UNCHANGED closed /\ oops = "none"
  <2>1. index \in Devs /\ srcq \in [Devs -> Seq(DstBufs)]
    BY DEF TypeOK
  <2>2. CASE lut[index] /\ Pullable(srcq[index])
    <3>1. dst' = TryDqbuf(srcq[index]) /\ srcq' = [srcq EXCEPT ![index] = PullBuf(@)]
      BY <1>3, <2>2 DEF TaskletDst
    <3>2. /\ OnList(srcq[index], dst') /\ ~OnList(srcq'[index], dst')
          /\ dst' \in DstBufs
      BY <2>1, <2>2, <3>1, PullBufFacts DEF DstPlaced
    <3>3. DevOf(dst') = index
      BY <2>1, <3>2 DEF DstPlaced
    <3> QED
      BY <3>2, <3>3 DEF DstApart
  <2>3. CASE ~(lut[index] /\ Pullable(srcq[index]))
    <3>1. UNCHANGED srcq /\ (dst' = NULL \/ dst' = dst)
      BY <1>3, <2>3 DEF TaskletDst
    <3> QED
      BY <1>3, <3>1 DEF DstApart, Shut
  <2> QED
    BY <2>2, <2>3
<1>4. CASE Clean /\ UNCHANGED closed /\ oops = "none"
  BY <1>4 DEF Clean, DstApart, Shut
<1>5. CASE Flush /\ UNCHANGED closed /\ oops = "none"
  <2>1. srcq' = [srcq EXCEPT ![Who] = <<>>] /\ UNCHANGED dst
    BY <1>5 DEF Flush
  <2>2. \A e \in Devs : srcq'[e] = srcq[e] \/ srcq'[e] = <<>>
    BY <2>1 DEF TypeOK
  <2>3. dst # NULL => DevOf(dst) \in Devs
    BY BufFacts DEF TypeOK
  <2> QED
    BY <1>5, <2>1, <2>2, <2>3, NoEntry DEF DstApart, Shut
<1>6. ASSUME NEW d \in Devs, StreamFlush(d), UNCHANGED closed, oops = "none" PROVE DstApart'
  <2>1. srcq' = [srcq EXCEPT ![d] = <<>>] /\ UNCHANGED dst
    BY <1>6 DEF StreamFlush
  <2>2. \A e \in Devs : srcq'[e] = srcq[e] \/ srcq'[e] = <<>>
    BY <2>1 DEF TypeOK
  <2>3. dst # NULL => DevOf(dst) \in Devs
    BY BufFacts DEF TypeOK
  <2> QED
    BY <1>6, <2>1, <2>2, <2>3, NoEntry DEF DstApart, Shut
<1>7. ASSUME NEW b \in DstBufs, QueueDst(b), UNCHANGED closed, oops = "none" PROVE DstApart'
  <2>1. DevOf(b) \in Devs /\ srcq \in [Devs -> Seq(DstBufs)] /\ UNCHANGED dst
    BY <1>7, BufFacts DEF QueueDst, TypeOK
  <2>2. Shut({"early_requeue"}) => b # dst
    BY <1>7 DEF QueueDst, InDwe, Shut
  <2>3. ASSUME Shut({"early_requeue"}), dst # NULL PROVE ~OnList(srcq'[DevOf(dst)], dst)
    <3>1. \/ srcq' = srcq
          \/ srcq' = [srcq EXCEPT ![DevOf(b)] = PushBuf(@, b)]
      BY <1>7 DEF QueueDst
    <3>2. \A c : OnList(PushBuf(srcq[DevOf(b)], b), c) <=> OnList(srcq[DevOf(b)], c) \/ c = b
      BY <2>1, PushBufFacts
    <3>3. ~OnList(srcq[DevOf(dst)], dst)
      BY <2>3 DEF DstApart
    <3>4. dst \in DstBufs /\ DevOf(dst) \in Devs
      BY <2>3, BufFacts DEF TypeOK
    <3> QED
      BY <2>1, <2>2, <2>3, <3>1, <3>2, <3>3, <3>4
  <2> QED
    BY <1>7, <2>1, <2>3 DEF DstApart, Shut
<1>8. CASE \/ FrameDone \/ FrameError \/ HwIsr \/ TaskletStart \/ TaskletPull
           \/ TaskletIdle \/ SetDriver \/ ClearDriver \/ HwStop \/ SetIdle
           \/ ZeroState \/ FreeIrq
           \/ \E d \in Devs : \/ NotifyPush(d) \/ NotifyCheck(d) \/ NotifyBusy(d) \/ Open(d) \/ Close(d)
                             \/ Start(d) \/ Stop(d) \/ SetLut(d) \/ SetStream(d) \/ StreamWrite(d)
                             \/ ReturnAll(d)
           \/ \E b \in SrcBufs : NotifySrc(b)
           \/ UNCHANGED vars
  <2>1. UNCHANGED <<srcq, dst, closed>>
    BY <1>8, ClosedFixed DEF FrameDone, FrameError, HwIsr, TaskletStart, TaskletPull,
       TaskletIdle, SetDriver, ClearDriver, HwStop, SetIdle, ZeroState, FreeIrq, NotifyPush,
       NotifyCheck, NotifyBusy, Open, Close, Start, Stop, SetLut, SetStream, StreamWrite,
       ReturnAll, NotifySrc, vars, dev, bufs, hw, notify, proc, stream
  <2> QED
    BY <2>1, <1>a
<1> QED
  BY <1>1, <1>2, <1>3, <1>4, <1>5, <1>6, <1>7, <1>8
     DEF Next, IsrStep, TaskletStep, IoctlStep, NotifyStep, Ioctl, StreamStep

\* The exclusion of the roles in numbers.
LEMMA RolesFacts == TypeOK /\ SrcApart /\ DstPlaced /\ DstApart => OneRole
<1> SUFFICES ASSUME TypeOK, SrcApart, DstPlaced, DstApart PROVE OneRole
  OBVIOUS
<1>1. ASSUME NEW b \in SrcBufs
      PROVE  Cardinality({p \in {"isp", "way", "sink", "src"} :
              \/ p = "isp" /\ b \in isp
              \/ p = "way" /\ nbuf[DevOf(b)] = b
              \/ p = "sink" /\ OnList(sink, b)
              \/ p = "src" /\ src = b}) <= 1
  <2> DEFINE Places == {p \in {"isp", "way", "sink", "src"} :
              \/ p = "isp" /\ b \in isp
              \/ p = "way" /\ nbuf[DevOf(b)] = b
              \/ p = "sink" /\ OnList(sink, b)
              \/ p = "src" /\ src = b}
  <2>1. b # NULL /\ DevOf(b) \in Devs
    BY BufFacts
  <2>2. \A p, q \in Places : p = q
    BY <2>1 DEF SrcApart
  <2> HIDE DEF Places
  <2>3. Places = {} => Cardinality(Places) = 0
    BY FS_EmptySet
  <2>4. ASSUME NEW p \in Places PROVE Cardinality(Places) = 1
    <3>1. Places = {p}
      BY <2>2
    <3> QED
      BY <3>1, FS_Singleton
  <2>5. Cardinality(Places) <= 1
    BY <2>3, <2>4
  <2> QED
    BY <2>5 DEF Places
<1>2. ASSUME NEW d \in Devs, Shut({"early_requeue"}), dst # NULL PROVE ~OnList(srcq[d], dst)
  BY <1>2 DEF DstPlaced, DstApart, TypeOK
<1> QED
  BY <1>1, <1>2 DEF OneRole, SrcOneOwner, DstOneRole, SrcApart, DstPlaced
-----------------------------------------------------------------------------
(***************************************************************************)
(* The count of the started subdevices.                                    *)
(***************************************************************************)

\* Sets of subdevices in numbers.
LEMMA DevSets ==
    ASSUME NEW S \in SUBSET Devs
    PROVE  /\ Cardinality(S) \in Nat /\ (Cardinality(S) = 0 <=> S = {})
           /\ \A x \in Devs \ S : Cardinality(S \cup {x}) = Cardinality(S) + 1
           /\ \A x \in S : Cardinality(S \ {x}) = Cardinality(S) - 1
<1>1. IsFiniteSet(Devs)
  BY DweAssumption, FS_Interval DEF Devs
<1>2. IsFiniteSet(S)
  BY <1>1, FS_Subset
<1>3. Cardinality(S) \in Nat /\ (Cardinality(S) = 0 <=> S = {})
  BY <1>2, FS_CardinalityType, FS_EmptySet
<1>4. ASSUME NEW x \in Devs \ S PROVE Cardinality(S \cup {x}) = Cardinality(S) + 1
  BY <1>2, FS_AddElement
<1>5. ASSUME NEW x \in S PROVE Cardinality(S \ {x}) = Cardinality(S) - 1
  BY <1>2, FS_RemoveElement
<1> QED
  BY <1>3, <1>4, <1>5

\* A step of the plan, and the next one.
LEMMA TodoStep ==
    ASSUME Planned, todo # <<>>, todo' = Tail(todo)
    PROVE  /\ Hd(todo) = "hw_stop" =>
                \/ Stopping(todo) /\ Stopping(todo') /\ Hd(todo') = "clean"
                \/ Closing(todo) /\ Closing(todo') /\ Hd(todo') = "free_irq"
           /\ Hd(todo) = "clean" =>
                \/ Stopping(todo) /\ Stopping(todo') /\ Hd(todo') = "set_idle"
                \/ Closing(todo) /\ todo' = <<>>
           /\ Hd(todo) = "free_irq" => Closing(todo) /\ Closing(todo') /\ Hd(todo') = "clean"
           /\ Hd(todo) = "zero_state" => Hd(todo') = "flush"
           /\ Hd(todo) = "flush" => \/ Closing(todo) /\ Hd(todo') = "hw_stop"
                                    \/ ~Closing(todo) /\ todo' = <<>>
           /\ Hd(todo) \in {"set_driver", "clear_driver", "set_idle"} => todo' = <<>>
           /\ Hd(todo') \notin {"set_driver", "clear_driver", "zero_state"}
           /\ Closing(todo') => Closing(todo)
           /\ Stopping(todo') => Stopping(todo)
           /\ Closing(todo) /\ todo' # <<>> => Closing(todo')
           /\ Closing(todo) => Hd(todo) \in {"zero_state", "flush", "hw_stop", "free_irq", "clean"}
           /\ Stopping(todo) => Hd(todo) \in {"hw_stop", "clean", "set_idle"}
<1>1. PICK d \in Devs : todo \in Plans(d)
  BY DEF Planned
<1>2. Hd(todo) \in {"set_driver", "clear_driver", "set_idle", "clean", "hw_stop", "flush",
                    "zero_state", "free_irq"}
  BY <1>1, PlanTable DEF Plans, Row
<1>3. todo' # <<>> => End(todo') = End(todo)
  BY <1>1, PlanStep
<1>4. ~Closing(<<>>) /\ ~Stopping(<<>>) /\ Hd(<<>>) = "none"
  BY NoPlan DEF Closing, Stopping
<1>5. ~(Closing(todo) /\ Stopping(todo))
  BY DEF Closing, Stopping
<1>6. /\ Hd(todo) \in {"set_driver", "clear_driver", "set_idle"} => todo' = <<>>
      /\ Closing(todo) => Hd(todo) \in {"zero_state", "flush", "hw_stop", "free_irq", "clean"}
      /\ Stopping(todo) => Hd(todo) \in {"hw_stop", "clean", "set_idle"}
  BY <1>1, PlanStep
<1>7. /\ Closing(todo') => Closing(todo)
      /\ Stopping(todo') => Stopping(todo)
  BY <1>3, <1>4 DEF Closing, Stopping
<1>14. Closing(todo) /\ todo' # <<>> => Closing(todo')
  BY <1>3 DEF Closing
<1>8. Hd(todo) = "hw_stop" =>
        \/ Stopping(todo) /\ Stopping(todo') /\ Hd(todo') = "clean"
        \/ Closing(todo) /\ Closing(todo') /\ Hd(todo') = "free_irq"
  BY <1>1, <1>3, PlanStep DEF Closing, Stopping
<1>9. Hd(todo) = "clean" =>
        \/ Stopping(todo) /\ Stopping(todo') /\ Hd(todo') = "set_idle"
        \/ Closing(todo) /\ todo' = <<>>
  BY <1>1, <1>3, PlanStep DEF Closing, Stopping
<1>10. Hd(todo) = "free_irq" => Closing(todo) /\ Closing(todo') /\ Hd(todo') = "clean"
  BY <1>1, <1>3, PlanStep DEF Closing, Stopping
<1>11. Hd(todo) = "zero_state" => Hd(todo') = "flush"
  BY <1>1, PlanStep
<1>12. Hd(todo) = "flush" => \/ Closing(todo) /\ Hd(todo') = "hw_stop"
                             \/ ~Closing(todo) /\ todo' = <<>>
  BY <1>1, PlanStep DEF Closing
<1>13. Hd(todo') \notin {"set_driver", "clear_driver", "zero_state"}
  BY <1>2, <1>4, <1>6, <1>8, <1>9, <1>10, <1>11, <1>12
<1> QED
  BY <1>6, <1>7, <1>8, <1>9, <1>10, <1>11, <1>12, <1>13, <1>14

\* The plans the ioctls make, at their first step.
LEMMA FirstStep ==
    ASSUME NEW d \in Devs
    PROVE  /\ Hd(SetPlan(d)) = "set_driver" /\ Dev(SetPlan(d)) = d
           /\ Hd(ClearPlan(d)) = "clear_driver" /\ Dev(ClearPlan(d)) = d
           /\ Hd(Stop3(d)) = "hw_stop" /\ Dev(Stop3(d)) = d
           /\ Hd(Leave2(d)) = "zero_state" /\ Dev(Leave2(d)) = d
           /\ Hd(Close5(d)) = "zero_state" /\ Dev(Close5(d)) = d
           /\ ~Closing(SetPlan(d)) /\ ~Stopping(SetPlan(d))
           /\ ~Closing(ClearPlan(d)) /\ ~Stopping(ClearPlan(d))
           /\ ~Closing(Stop3(d)) /\ Stopping(Stop3(d))
           /\ ~Closing(Leave2(d)) /\ ~Stopping(Leave2(d))
           /\ Closing(Close5(d)) /\ ~Stopping(Close5(d))
           /\ Hd(<<>>) = "none" /\ ~Closing(<<>>) /\ ~Stopping(<<>>)
BY PlanTable, NoPlan DEF Row, Dev, Closing, Stopping

\* While no two threads update `state' together, core.state stays in step with it.
LEMMA WholeStep ==
    ASSUME TypeOK, Planned, Shut({"torn_state"}), WholeState, [Next]_vars
    PROVE  WholeState'
<1>a. ASSUME UNCHANGED <<state, refcnt, core, todo, dreg, spc, sreg, closed>>
      PROVE  WholeState'
  BY <1>a DEF WholeState, Started, Drivers
<1>1. CASE SetDriver /\ UNCHANGED closed
  <2>1. todo # <<>> /\ Hd(todo) = "set_driver" /\ Dev(todo) = Who /\ Who \in Devs
    BY <1>1, TodoFacts DEF SetDriver, At, Hd
  <2>2. /\ UNCHANGED <<refcnt, core, spc, sreg, closed>> /\ todo' = <<>>
        /\ state' = [state EXCEPT ![Who] = dreg \cup {"driver"}]
    BY <1>1, <2>1, TodoStep DEF SetDriver, dev, bufs, hw, notify, proc, stream
  <2>3. /\ Who \notin Drivers /\ refcnt[Who] > 0 /\ dreg = state[Who]
        /\ spc[Who] \notin {"set", "clear"}
    BY <2>1 DEF WholeState
  <2>4. Drivers' = Drivers \cup {Who} /\ \A d \in Devs : d # Who => state'[d] = state[d]
    BY <2>1, <2>2, <2>3 DEF Drivers, TypeOK
  <2>5. Cardinality(Drivers') = Cardinality(Drivers) + 1 /\ Cardinality(Drivers) \in Nat
    <3>1. Drivers \in SUBSET Devs
      BY DEF Drivers
    <3> QED
      BY <2>1, <2>3, <2>4, <3>1, DevSets
  <2> QED
    BY <2>1, <2>2, <2>3, <2>4, <2>5, FirstStep DEF WholeState, Started
<1>2. CASE ClearDriver /\ UNCHANGED closed
  <2>1. todo # <<>> /\ Hd(todo) = "clear_driver" /\ Dev(todo) = Who /\ Who \in Devs
    BY <1>2, TodoFacts DEF ClearDriver, At, Hd
  <2>2. /\ UNCHANGED <<refcnt, spc, sreg, closed>> /\ core' = core - 1
        /\ state' = [state EXCEPT ![Who] = dreg \ {"driver"}]
        /\ todo' = IF core = 1 THEN Stop3(Who) ELSE <<>>
    BY <1>2, <2>1, NewPlans DEF ClearDriver, dev, bufs, hw, notify, proc, stream
  <2>3. /\ Who \in Drivers /\ dreg = state[Who] /\ spc[Who] \notin {"set", "clear"}
    BY <2>1 DEF WholeState
  <2>4. Drivers' = Drivers \ {Who} /\ \A d \in Devs : d # Who => state'[d] = state[d]
    BY <2>1, <2>2, <2>3 DEF Drivers, TypeOK
  <2>5. Cardinality(Drivers') = Cardinality(Drivers) - 1 /\ Cardinality(Drivers) \in Nat
    <3>1. Drivers \in SUBSET Devs
      BY DEF Drivers
    <3> QED
      BY <2>1, <2>3, <2>4, <3>1, DevSets
  <2>6. core \in Int /\ core >= Cardinality(Drivers)
        /\ ("close_started" \in closed => core <= Cardinality(Drivers))
    BY <2>1, <2>5, DweAssumption DEF WholeState, Started, TypeOK
  <2>7. core = 1 => Drivers' = {}
    <3>1. Drivers' \in SUBSET Devs
      BY DEF Drivers
    <3> QED
      BY <2>5, <2>6, <3>1, DevSets
  <2>8. /\ Hd(todo') \in {"hw_stop", "none"} /\ ~Closing(todo')
        /\ Stopping(todo') => Drivers' = {}
    BY <2>1, <2>2, <2>7, FirstStep
  <2> QED
    BY <2>1, <2>2, <2>3, <2>4, <2>5, <2>6, <2>8 DEF WholeState, Started
<1>3. CASE HwStop /\ UNCHANGED closed
  <2>1. todo # <<>> /\ Hd(todo) = "hw_stop" /\ Dev(todo) = Who /\ Who \in Devs
    BY <1>3, TodoFacts DEF HwStop, At, Hd
  <2>2. UNCHANGED <<state, refcnt, core, spc, sreg, closed, Drivers>> /\ todo' = Tail(todo)
    BY <1>3 DEF HwStop, dev, bufs, hw, notify, proc, stream, Drivers
  <2> QED
    BY <2>1, <2>2, TodoStep, NoPlan DEF WholeState, Started
<1>4. CASE Clean /\ UNCHANGED closed
  <2>1. todo # <<>> /\ Hd(todo) = "clean" /\ Dev(todo) = Who /\ Who \in Devs
    BY <1>4, TodoFacts DEF Clean, At, Hd
  <2>2. UNCHANGED <<state, refcnt, core, spc, sreg, closed, Drivers>> /\ todo' = Tail(todo)
    BY <1>4 DEF Clean, dev, bufs, hw, notify, proc, stream, Drivers
  <2> QED
    BY <2>1, <2>2, TodoStep, NoPlan DEF WholeState, Started
<1>5. CASE SetIdle /\ UNCHANGED closed
  <2>1. todo # <<>> /\ Hd(todo) = "set_idle" /\ Dev(todo) = Who /\ Who \in Devs
    BY <1>5, TodoFacts DEF SetIdle, At, Hd
  <2>2. UNCHANGED <<state, refcnt, core, spc, sreg, closed, Drivers>> /\ todo' = Tail(todo)
    BY <1>5 DEF SetIdle, dev, bufs, hw, notify, proc, stream, Drivers
  <2> QED
    BY <2>1, <2>2, TodoStep, NoPlan DEF WholeState, Started
<1>6. CASE ZeroState /\ UNCHANGED closed
  <2>1. todo # <<>> /\ Hd(todo) = "zero_state" /\ Dev(todo) = Who /\ Who \in Devs
    BY <1>6, TodoFacts DEF ZeroState, At, Hd
  <2>2. /\ UNCHANGED <<refcnt, core, spc, sreg, closed>> /\ todo' = Tail(todo)
        /\ state' = [state EXCEPT ![Who] = {}] /\ spc[Who] \notin {"set", "clear"}
    BY <1>6 DEF ZeroState, StateFree, Shut, dev, bufs, hw, notify, proc, stream
  <2>3. /\ Hd(todo') = "flush" /\ ~Stopping(todo')
        /\ Closing(todo') <=> Closing(todo)
    BY <2>1, <2>2, TodoStep, NoPlan DEF Closing, Stopping
  <2>4. Drivers' = Drivers \ {Who} /\ \A d \in Devs : d # Who => state'[d] = state[d]
    BY <2>1, <2>2 DEF Drivers, TypeOK
  <2>5. Cardinality(Drivers') <= Cardinality(Drivers) /\ Cardinality(Drivers) \in Nat
    <3>1. Drivers \in SUBSET Devs
      BY DEF Drivers
    <3>2. CASE Who \in Drivers
      BY <2>4, <3>1, <3>2, DevSets
    <3>3. CASE Who \notin Drivers
      <4>1. Drivers' = Drivers
        BY <2>4, <3>3
      <4> QED
        BY <3>1, <4>1, DevSets
    <3> QED
      BY <3>2, <3>3
  <2>6. Who \notin Drivers => Drivers' = Drivers
    BY <2>4
  <2>7. core \in Int /\ Cardinality(Drivers') \in Nat
    <3>1. Drivers' \in SUBSET Devs
      BY DEF Drivers
    <3> QED
      BY <3>1, DevSets, DweAssumption DEF TypeOK
  <2>8. core >= Started' /\ ("close_started" \in closed => core <= Started')
    <3>1. /\ Started = Cardinality(Drivers) /\ Started' = Cardinality(Drivers')
          /\ core >= Started
          /\ "close_started" \in closed => core <= Started /\ Who \notin Drivers
      BY <2>1, <2>3, <2>5, <2>7 DEF WholeState, Started
    <3> QED
      BY <2>5, <2>6, <2>7, <3>1
  <2> QED
    BY <2>1, <2>2, <2>3, <2>4, <2>6, <2>8 DEF WholeState
<1>7. CASE Flush /\ UNCHANGED closed
  <2>1. todo # <<>> /\ Hd(todo) = "flush" /\ Dev(todo) = Who /\ Who \in Devs
    BY <1>7, TodoFacts DEF Flush, At, Hd
  <2>2. UNCHANGED <<state, refcnt, core, spc, sreg, closed, Drivers>> /\ todo' = Tail(todo)
    BY <1>7 DEF Flush, dev, bufs, hw, notify, proc, stream, Drivers
  <2> QED
    BY <2>1, <2>2, TodoStep, NoPlan DEF WholeState, Started
<1>8. CASE FreeIrq /\ UNCHANGED closed
  <2>1. todo # <<>> /\ Hd(todo) = "free_irq" /\ Dev(todo) = Who /\ Who \in Devs
    BY <1>8, TodoFacts DEF FreeIrq, At, Hd
  <2>2. UNCHANGED <<state, refcnt, spc, sreg, closed, Drivers>> /\ todo' = Tail(todo) /\ core' = 0
    BY <1>8 DEF FreeIrq, dev, bufs, hw, notify, proc, stream, Drivers
  <2>3. Closing(todo) /\ Hd(todo') = "clean" /\ Closing(todo') /\ ~Stopping(todo')
    BY <2>1, <2>2, TodoStep DEF Closing, Stopping
  <2>4. Drivers = {}
    BY <2>1, <2>3 DEF WholeState, Drivers
  <2> QED
    BY <2>1, <2>2, <2>3, <2>4, FS_EmptySet DEF WholeState, Started
<1>9. ASSUME NEW d \in Devs, Open(d), UNCHANGED closed PROVE WholeState'
  <2>1. UNCHANGED <<state, core, todo, dreg, spc, sreg, closed, Drivers>> /\ todo = <<>>
    BY <1>9 DEF Open, Idle, dev, bufs, hw, notify, proc, stream, Drivers
  <2>2. \A e \in Drivers : refcnt[e] > 0 => refcnt'[e] > 0
    BY <1>9 DEF Open, TypeOK, Drivers
  <2> QED
    BY <2>1, <2>2, FirstStep DEF WholeState, Started
<1>10. ASSUME NEW d \in Devs, Close(d), UNCHANGED closed PROVE WholeState'
  <2>1. UNCHANGED <<state, core, dreg, spc, sreg, closed, Drivers>> /\ todo = <<>>
    BY <1>10 DEF Close, Idle, dev, bufs, hw, notify, proc, stream, Drivers
  <2>2. /\ refcnt[d] \in Nat \ {0} /\ refcnt'[d] = refcnt[d] - 1
        /\ \A e \in Devs : e # d => refcnt'[e] = refcnt[e]
        /\ "close_started" \in closed /\ refcnt[d] = 1 => d \notin Drivers
    BY <1>10 DEF Close, TypeOK, Drivers
  <2>3. /\ \/ Hd(todo') = "none" /\ refcnt[d] # 1
           \/ Hd(todo') = "zero_state" /\ Dev(todo') = d /\ refcnt[d] = 1
        /\ Closing(todo') => \A e \in Devs : refcnt'[e] = 0
        /\ ~Stopping(todo') /\ (Closing(todo') \/ \E e \in Devs : refcnt'[e] # 0)
    BY <1>10, ClosePlan, FirstStep
  <2>4. \A e \in Drivers : e \in Devs /\ refcnt[e] > 0
    BY <2>1, FirstStep DEF WholeState, Drivers
  <2> QED
    BY <2>1, <2>2, <2>3, <2>4, FirstStep DEF WholeState, Started
<1>11. ASSUME NEW d \in Devs, Start(d), UNCHANGED closed PROVE WholeState'
  <2>1. /\ UNCHANGED <<state, refcnt, spc, sreg, closed, Drivers>> /\ todo = <<>>
        /\ core' = core + 1 /\ todo' = SetPlan(d) /\ dreg' = state[d]
    BY <1>11, NewPlans DEF Start, Idle, dev, bufs, hw, notify, proc, stream, Drivers
  <2>2. refcnt[d] > 0 /\ d \notin Drivers /\ spc[d] \notin {"set", "clear"}
    BY <1>11 DEF Start, StateFree, Shut, Drivers
  <2>3. core \in Int /\ Cardinality(Drivers) \in Nat
    <3>1. Drivers \in SUBSET Devs
      BY DEF Drivers
    <3> QED
      BY <3>1, DevSets, DweAssumption DEF TypeOK
  <2> QED
    BY <2>1, <2>2, <2>3, FirstStep DEF WholeState, Started
<1>12. ASSUME NEW d \in Devs, Stop(d), UNCHANGED closed PROVE WholeState'
  <2>1. /\ UNCHANGED <<state, refcnt, core, spc, sreg, closed, Drivers>> /\ todo = <<>>
        /\ todo' = ClearPlan(d) /\ dreg' = state[d]
    BY <1>12, NewPlans DEF Stop, Idle, dev, bufs, hw, notify, proc, stream, Drivers
  <2>2. refcnt[d] > 0 /\ d \in Drivers /\ spc[d] \notin {"set", "clear"}
    BY <1>12 DEF Stop, StateFree, Shut, Drivers
  <2> QED
    BY <2>1, <2>2, FirstStep DEF WholeState, Started
<1>13. ASSUME NEW d \in Devs, SetStream(d), UNCHANGED closed PROVE WholeState'
  <2>1. UNCHANGED <<state, refcnt, core, todo, dreg, closed, Drivers>>
    BY <1>13 DEF SetStream, dev, bufs, hw, notify, proc, stream, Drivers
  <2>2. Hd(todo) \in {"set_driver", "clear_driver"} => Dev(todo) # d /\ Dev(todo) \in Devs
    BY <1>13, TodoFacts, NoPlan DEF SetStream, Shut
  <2>3. /\ \A e \in Devs : e # d => spc'[e] = spc[e] /\ sreg'[e] = sreg[e]
        /\ sreg'[d] = state[d]
    BY <1>13 DEF SetStream, TypeOK
  <2> QED
    BY <2>1, <2>2, <2>3 DEF WholeState, Started
<1>14. ASSUME NEW d \in Devs, StreamWrite(d), UNCHANGED closed PROVE WholeState'
  <2>1. UNCHANGED <<refcnt, core, todo, dreg, closed>>
    BY <1>14 DEF StreamWrite, dev, bufs, hw, notify, proc, stream
  <2>2. /\ \A e \in Devs : e # d => UNCHANGED <<state[e], spc[e], sreg[e]>>
        /\ spc'[d] \in {"on", "flush"}
        /\ state'[d] \in {state[d] \cup {"stream"}, state[d] \ {"stream"}}
    BY <1>14 DEF StreamWrite, TypeOK, WholeState
  <2>3. Drivers' = Drivers
    BY <2>2 DEF Drivers
  <2>4. Hd(todo) \in {"set_driver", "clear_driver"} => Dev(todo) # d /\ Dev(todo) \in Devs
    BY <1>14, TodoFacts, NoPlan DEF StreamWrite, WholeState
  <2> QED
    BY <2>1, <2>2, <2>3, <2>4 DEF WholeState, Started
<1>15. ASSUME NEW d \in Devs, StreamFlush(d), UNCHANGED closed PROVE WholeState'
  <2>1. UNCHANGED <<state, refcnt, core, todo, dreg, sreg, closed, Drivers>>
    BY <1>15 DEF StreamFlush, dev, bufs, hw, notify, proc, stream, Drivers
  <2>2. \A e \in Devs : spc'[e] = spc[e] \/ spc'[e] = "return"
    BY <1>15 DEF StreamFlush, TypeOK
  <2>3. Hd(todo) \in {"set_driver", "clear_driver"} => Dev(todo) \in Devs
    BY TodoFacts, NoPlan
  <2> QED
    BY <2>1, <2>2, <2>3 DEF WholeState, Started
<1>16. ASSUME NEW d \in Devs, ReturnAll(d), UNCHANGED closed PROVE WholeState'
  <2>1. UNCHANGED <<state, refcnt, core, todo, dreg, sreg, closed, Drivers>>
    BY <1>16 DEF ReturnAll, dev, bufs, hw, notify, proc, stream, Drivers
  <2>2. \A e \in Devs : spc'[e] = spc[e] \/ spc'[e] = "off"
    BY <1>16 DEF ReturnAll, TypeOK
  <2>3. Hd(todo) \in {"set_driver", "clear_driver"} => Dev(todo) \in Devs
    BY TodoFacts, NoPlan
  <2> QED
    BY <2>1, <2>2, <2>3 DEF WholeState, Started
<1>17. CASE \/ FrameDone \/ FrameError \/ HwIsr \/ IsrDone \/ IsrError \/ TaskletStart
            \/ TaskletPull \/ TaskletDst \/ TaskletIdle
            \/ \E d \in Devs : NotifyPush(d) \/ NotifyCheck(d) \/ NotifyBusy(d) \/ SetLut(d)
            \/ \E b \in SrcBufs : NotifySrc(b)
            \/ \E b \in DstBufs : QueueDst(b)
            \/ UNCHANGED vars
  <2>1. UNCHANGED <<state, refcnt, core, todo, dreg, spc, sreg, closed>>
    BY <1>17, ClosedFixed DEF FrameDone, FrameError, HwIsr, IsrDone, IsrError, TaskletStart,
       TaskletPull, TaskletDst, TaskletIdle, NotifyPush, NotifyCheck, NotifyBusy, SetLut,
       NotifySrc, QueueDst, vars, dev, bufs, hw, notify, proc, stream
  <2> QED
    BY <2>1, <1>a
<1> QED
  BY <1>1, <1>2, <1>3, <1>4, <1>5, <1>6, <1>7, <1>8, <1>9, <1>10, <1>11, <1>12, <1>13,
     <1>14, <1>15, <1>16, <1>17
     DEF Next, IsrStep, TaskletStep, IoctlStep, NotifyStep, Ioctl, StreamStep
-----------------------------------------------------------------------------
(***************************************************************************)
(* Taking turns.                                                           *)
(***************************************************************************)

\* Once the engine is stopped, or no handle is open, no subdevice is started.
LEMMA NoneStarted ==
    ASSUME Planned, WholeState, Stopped(todo) \/ Unopened PROVE Drivers = {}
<1>1. CASE Stopped(todo)
  <2>1. Hd(todo) # "zero_state" /\ todo # <<>>
    BY <1>1, NoPlan DEF Stopped
  <2>2. Stopping(todo) \/ Closing(todo)
    <3>1. PICK d \in Devs : todo \in Plans(d)
      BY DEF Planned
    <3> QED
      BY <1>1, <2>1, <3>1, PlanStep DEF Stopped, Stopping
  <2> QED
    BY <2>1, <2>2 DEF WholeState, Drivers
<1>2. CASE Unopened
  BY <1>2 DEF Unopened, WholeState, Drivers
<1> QED
  BY <1>1, <1>2

\* With nobody starting the tasklet for a busy engine, nor stopping the engine with
\* the tasklet at work, the parts take turns.
LEMMA OneAtWorkStep ==
    ASSUME TypeOK, Planned, Shut({"torn_state", "double_start", "late_tasklet"}),
           WholeState, OneAtWork, [Next]_vars
    PROVE  OneAtWork'
<1>a. ASSUME UNCHANGED <<tasklet, tpc, irqEn, isr, npc, hardware_status, todo, refcnt>>
      PROVE  OneAtWork'
  BY <1>a DEF OneAtWork, Still, Unopened
<1>1. CASE HwIsr /\ UNCHANGED closed
  BY <1>1 DEF HwIsr, OneAtWork, Still, Unopened, dev, bufs, hw, notify, proc, stream
<1>2. CASE IsrDone /\ UNCHANGED closed
  BY <1>2 DEF IsrDone, Locked, OneAtWork, Still, Unopened, dev, bufs, hw, notify, proc, stream
<1>3. CASE IsrError /\ UNCHANGED closed
  BY <1>3 DEF IsrError, Locked, OneAtWork, Still, Unopened, dev, bufs, hw, notify, proc, stream
<1>4. CASE TaskletStart /\ UNCHANGED closed
  BY <1>4 DEF TaskletStart, OneAtWork, Still, Unopened, dev, bufs, hw, notify, proc, stream
<1>5. CASE TaskletPull /\ UNCHANGED closed
  BY <1>5 DEF TaskletPull, Continue, OneAtWork, Still, Unopened, dev, bufs, hw, notify, proc,
     stream
<1>6. CASE TaskletDst /\ UNCHANGED closed
  BY <1>6 DEF TaskletDst, Continue, OneAtWork, Still, Unopened, dev, bufs, hw, notify, proc,
     stream
<1>7. CASE TaskletIdle /\ UNCHANGED closed
  BY <1>7 DEF TaskletIdle, OneAtWork, Still, Unopened, dev, bufs, hw, notify, proc, stream
<1>8. CASE SetDriver /\ UNCHANGED closed
  <2>1. todo # <<>> /\ Hd(todo) = "set_driver" /\ Dev(todo) = Who /\ Who \in Devs
    BY <1>8, TodoFacts DEF SetDriver, At, Hd
  <2>2. UNCHANGED <<tasklet, tpc, irqEn, isr, npc, hardware_status, refcnt>> /\ todo' = <<>>
    BY <1>8, <2>1, TodoStep DEF SetDriver, dev, bufs, hw, notify, proc, stream
  <2>3. ~Stopped(todo') /\ ~Unopened'
    BY <2>1, <2>2, NoPlan DEF Stopped, Unopened, WholeState
  <2> QED
    BY <2>2, <2>3 DEF OneAtWork
<1>9. CASE ClearDriver /\ UNCHANGED closed
  <2>1. todo # <<>> /\ Hd(todo) = "clear_driver" /\ Dev(todo) = Who /\ Who \in Devs
    BY <1>9, TodoFacts DEF ClearDriver, At, Hd
  <2>2. /\ UNCHANGED <<tasklet, tpc, irqEn, isr, npc, hardware_status, refcnt>>
        /\ todo' \in {Stop3(Who), <<>>}
    BY <1>9, <2>1, NewPlans DEF ClearDriver, dev, bufs, hw, notify, proc, stream
  <2>3. ~Stopped(todo') /\ ~Unopened'
    BY <2>1, <2>2, FirstStep DEF Stopped, Unopened, WholeState
  <2> QED
    BY <2>2, <2>3 DEF OneAtWork
<1>10. CASE HwStop /\ UNCHANGED closed
  <2>1. /\ UNCHANGED <<tasklet, tpc, isr, npc, hardware_status>> /\ ~irqEn' /\ Quiet
    BY <1>10 DEF HwStop, Shut, dev, bufs, hw, notify, proc, stream
  <2> QED
    BY <2>1 DEF OneAtWork, Still, Unopened, Quiet, Locked
<1>11. CASE Clean /\ UNCHANGED closed
  <2>1. Hd(todo) = "clean"
    BY <1>11, TodoFacts DEF Clean, At, Hd
  <2>2. UNCHANGED <<tasklet, tpc, irqEn, isr, npc, hardware_status>>
    BY <1>11 DEF Clean, dev, bufs, hw, notify, proc, stream
  <2>3. Still
    BY <2>1 DEF OneAtWork, Stopped
  <2> QED
    BY <2>2, <2>3 DEF OneAtWork, Still
<1>12. CASE SetIdle /\ UNCHANGED closed
  <2>1. Hd(todo) = "set_idle"
    BY <1>12, TodoFacts DEF SetIdle, At, Hd
  <2>2. UNCHANGED <<tasklet, tpc, irqEn, isr, npc>> /\ hardware_status' = "idle"
    BY <1>12 DEF SetIdle, dev, bufs, hw, notify, proc, stream
  <2>3. Still
    BY <2>1 DEF OneAtWork, Stopped
  <2> QED
    BY <2>2, <2>3 DEF OneAtWork, Still
<1>13. CASE ZeroState /\ UNCHANGED closed
  <2>1. todo # <<>> /\ Hd(todo) = "zero_state" /\ Dev(todo) = Who /\ Who \in Devs
    BY <1>13, TodoFacts DEF ZeroState, At, Hd
  <2>2. UNCHANGED <<tasklet, tpc, irqEn, isr, npc, hardware_status>> /\ todo' = Tail(todo)
    BY <1>13 DEF ZeroState, dev, bufs, hw, notify, proc, stream
  <2>3. ~Stopped(todo') /\ ~Unopened'
    BY <2>1, <2>2, TodoStep DEF Stopped, Unopened
  <2> QED
    BY <2>2, <2>3 DEF OneAtWork
<1>14. CASE Flush /\ UNCHANGED closed
  <2>1. todo # <<>> /\ Hd(todo) = "flush" /\ Dev(todo) = Who /\ Who \in Devs
    BY <1>14, TodoFacts DEF Flush, At, Hd
  <2>2. UNCHANGED <<tasklet, tpc, irqEn, isr, npc, hardware_status, refcnt>> /\ todo' = Tail(todo)
    BY <1>14 DEF Flush, dev, bufs, hw, notify, proc, stream
  <2>3. ~Stopped(todo') /\ ~Unopened'
    BY <2>1, <2>2, TodoStep, NoPlan DEF Stopped, Unopened, WholeState
  <2> QED
    BY <2>2, <2>3 DEF OneAtWork
<1>15. CASE FreeIrq /\ UNCHANGED closed
  <2>1. Hd(todo) = "free_irq"
    BY <1>15, TodoFacts DEF FreeIrq, At, Hd
  <2>2. UNCHANGED <<tasklet, tpc, isr, npc, hardware_status>> /\ ~irqEn'
    BY <1>15 DEF FreeIrq, dev, bufs, hw, notify, proc, stream
  <2>3. Still
    BY <2>1 DEF OneAtWork, Stopped
  <2> QED
    BY <2>2, <2>3 DEF OneAtWork, Still
<1>16. ASSUME NEW d \in Devs, NotifyPush(d), UNCHANGED closed PROVE OneAtWork'
  <2>1. /\ UNCHANGED <<tasklet, tpc, irqEn, isr, hardware_status, todo, refcnt>>
        /\ \A e \in Devs : npc'[e] = npc[e] \/ npc'[e] = "check"
    BY <1>16 DEF NotifyPush, TypeOK, dev, bufs, hw, notify, proc, stream
  <2> QED
    BY <2>1 DEF OneAtWork, Still, Unopened
<1>17. ASSUME NEW d \in Devs, NotifyCheck(d), UNCHANGED closed PROVE OneAtWork'
  <2>1. /\ UNCHANGED <<tasklet, tpc, irqEn, isr, hardware_status, todo, refcnt>>
        /\ \A e \in Devs : npc'[e] = "busy" => hardware_status = "idle" /\ e = d /\ Active(d)
    BY <1>17 DEF NotifyCheck, Shut, TypeOK, dev, bufs, hw, notify, proc, stream
  <2>2. Stopped(todo) \/ Unopened => ~Active(d)
    BY NoneStarted DEF Active, Drivers, Flags
  <2> QED
    BY <2>1, <2>2 DEF OneAtWork, Still, Unopened
<1>18. ASSUME NEW d \in Devs, NotifyBusy(d), UNCHANGED closed PROVE OneAtWork'
  <2>1. /\ UNCHANGED <<tpc, irqEn, isr, todo, refcnt>> /\ tasklet' /\ hardware_status' = "busy"
        /\ \A e \in Devs : npc'[e] = IF e = d THEN "idle" ELSE npc[e]
        /\ npc[d] = "busy"
    BY <1>18 DEF NotifyBusy, TypeOK, dev, bufs, hw, notify, proc, stream
  <2> QED
    BY <2>1 DEF OneAtWork, Still, Unopened
<1>19. ASSUME NEW d \in Devs, Open(d), UNCHANGED closed PROVE OneAtWork'
  <2>1. /\ UNCHANGED <<tasklet, tpc, isr, npc, hardware_status, todo>>
        /\ irqEn' => irqEn
        /\ todo = <<>> /\ refcnt'[d] # 0
    BY <1>19 DEF Open, Idle, TypeOK, dev, bufs, hw, notify, proc, stream
  <2>2. ~Stopped(todo') /\ ~Unopened'
    BY <2>1, NoPlan DEF Stopped, Unopened
  <2> QED
    BY <2>1, <2>2 DEF OneAtWork
<1>20. ASSUME NEW d \in Devs, Close(d), UNCHANGED closed PROVE OneAtWork'
  <2>1. UNCHANGED <<tasklet, tpc, irqEn, isr, npc, hardware_status>>
    BY <1>20 DEF Close, dev, bufs, hw, notify, proc, stream
  <2>2. ~Stopped(todo') /\ ~Unopened'
    BY <1>20, ClosePlan, FirstStep DEF Close, Stopped, Unopened
  <2> QED
    BY <2>1, <2>2 DEF OneAtWork
<1>21. ASSUME NEW d \in Devs, Start(d), UNCHANGED closed PROVE OneAtWork'
  <2>1. UNCHANGED <<tasklet, tpc, irqEn, isr, npc, hardware_status>>
    BY <1>21 DEF Start, dev, bufs, hw, notify, proc, stream
  <2>2. ~Stopped(todo') /\ ~Unopened'
    BY <1>21, NewPlans, FirstStep DEF Start, Stopped, Unopened
  <2> QED
    BY <2>1, <2>2 DEF OneAtWork
<1>22. ASSUME NEW d \in Devs, Stop(d), UNCHANGED closed PROVE OneAtWork'
  <2>1. UNCHANGED <<tasklet, tpc, irqEn, isr, npc, hardware_status>>
    BY <1>22 DEF Stop, dev, bufs, hw, notify, proc, stream
  <2>2. ~Stopped(todo') /\ ~Unopened'
    BY <1>22, NewPlans, FirstStep DEF Stop, Stopped, Unopened
  <2> QED
    BY <2>1, <2>2 DEF OneAtWork
<1>23. ASSUME NEW b \in SrcBufs, NotifySrc(b), UNCHANGED closed PROVE OneAtWork'
  <2>1. /\ UNCHANGED <<tasklet, tpc, irqEn, isr, hardware_status, todo, refcnt>>
        /\ \A e \in Devs : npc'[e] = npc[e] \/ npc'[e] = "push"
    BY <1>23, BufFacts DEF NotifySrc, TypeOK, dev, bufs, hw, notify, proc, stream
  <2> QED
    BY <2>1 DEF OneAtWork, Still, Unopened
<1>24. CASE \/ FrameDone \/ FrameError
            \/ \E d \in Devs : \/ SetLut(d) \/ SetStream(d) \/ StreamWrite(d) \/ StreamFlush(d)
                             \/ ReturnAll(d)
            \/ \E b \in DstBufs : QueueDst(b)
            \/ UNCHANGED vars
  <2>1. UNCHANGED <<tasklet, tpc, irqEn, isr, npc, hardware_status, todo, refcnt>>
    BY <1>24, ClosedFixed DEF FrameDone, FrameError, SetLut, SetStream, StreamWrite,
       StreamFlush, ReturnAll, QueueDst, vars, dev, bufs, hw, notify, proc, stream
  <2> QED
    BY <2>1, <1>a
<1> QED
  BY <1>1, <1>2, <1>3, <1>4, <1>5, <1>6, <1>7, <1>8, <1>9, <1>10, <1>11, <1>12, <1>13,
     <1>14, <1>15, <1>16, <1>17, <1>18, <1>19, <1>20, <1>21, <1>22, <1>23, <1>24
     DEF Next, IsrStep, TaskletStep, IoctlStep, NotifyStep, Ioctl, StreamStep

\* A frame in work goes on from the tasklet to the engine and its interrupt handler,
\* or is taken back when the engine is stopped.
LEMMA CarriesStep ==
    ASSUME TypeOK, Planned, Shut({"idle_in_flight"}), OneAtWork, Carries, [Next]_vars
    PROVE  Carries'
<1>a. ASSUME UNCHANGED <<src, dst, tpc, irqEn, isr, todo>>
      PROVE  Carries'
  BY <1>a DEF Carries
<1>b. ASSUME UNCHANGED <<src, dst, tpc, irqEn, isr>>, Hd(todo) \notin {"clean", "free_irq"}
      PROVE  Carries'
  BY <1>b DEF Carries
<1>1. CASE HwIsr /\ UNCHANGED closed
  BY <1>1 DEF HwIsr, Shut, Carries, dev, bufs, hw, notify, proc, stream
<1>2. CASE IsrDone /\ UNCHANGED closed
  BY <1>2 DEF IsrDone, Locked, Carries, OneAtWork, dev, bufs, hw, notify, proc, stream
<1>3. CASE IsrError /\ UNCHANGED closed
  BY <1>3 DEF IsrError, Locked, Carries, OneAtWork, dev, bufs, hw, notify, proc, stream
<1>4. CASE TaskletStart /\ UNCHANGED closed
  BY <1>4 DEF TaskletStart, Carries, OneAtWork, dev, bufs, hw, notify, proc, stream
<1>5. CASE TaskletPull /\ UNCHANGED closed
  BY <1>5 DEF TaskletPull, Continue, Carries, dev, bufs, hw, notify, proc, stream
<1>6. CASE TaskletDst /\ UNCHANGED closed
  <2>1. UNCHANGED <<isr, todo>> /\ (irqEn => irqEn')
    BY <1>6 DEF TaskletDst, dev, bufs, hw, notify, proc, stream
  <2>2. CASE lut[index] /\ Pullable(srcq[index])
    BY <1>6, <2>1, <2>2 DEF TaskletDst, Carries
  <2>3. CASE ~(lut[index] /\ Pullable(srcq[index]))
    <3>1. src' = NULL /\ (dst' = dst \/ dst' = NULL)
      BY <1>6, <2>3 DEF TaskletDst
    <3> QED
      BY <2>1, <3>1 DEF Carries
  <2> QED
    BY <2>2, <2>3
<1>7. CASE TaskletIdle /\ UNCHANGED closed
  BY <1>7 DEF TaskletIdle, Carries, OneAtWork, dev, bufs, hw, notify, proc, stream
<1>8. CASE SetDriver /\ UNCHANGED closed
  <2>1. Hd(todo) = "set_driver"
    BY <1>8, TodoFacts DEF SetDriver, At, Hd
  <2> QED
    BY <1>8, <2>1, <1>b DEF SetDriver, dev, bufs, hw, notify, proc, stream
<1>9. CASE ClearDriver /\ UNCHANGED closed
  <2>1. Hd(todo) = "clear_driver"
    BY <1>9, TodoFacts DEF ClearDriver, At, Hd
  <2> QED
    BY <1>9, <2>1, <1>b DEF ClearDriver, dev, bufs, hw, notify, proc, stream
<1>10. CASE HwStop /\ UNCHANGED closed
  <2>1. Hd(todo') \in {"clean", "free_irq"}
    BY <1>10, TodoFacts, TodoStep DEF HwStop, At, Hd
  <2> QED
    BY <2>1 DEF Carries
<1>11. CASE Clean /\ UNCHANGED closed
  BY <1>11 DEF Clean, Carries
<1>12. CASE SetIdle /\ UNCHANGED closed
  <2>1. Hd(todo) = "set_idle"
    BY <1>12, TodoFacts DEF SetIdle, At, Hd
  <2> QED
    BY <1>12, <2>1, <1>b DEF SetIdle, dev, bufs, hw, notify, proc, stream
<1>13. CASE ZeroState /\ UNCHANGED closed
  <2>1. Hd(todo) = "zero_state"
    BY <1>13, TodoFacts DEF ZeroState, At, Hd
  <2> QED
    BY <1>13, <2>1, <1>b DEF ZeroState, dev, bufs, hw, notify, proc, stream
<1>14. CASE Flush /\ UNCHANGED closed
  <2>1. Hd(todo) = "flush"
    BY <1>14, TodoFacts DEF Flush, At, Hd
  <2> QED
    BY <1>14, <2>1, <1>b DEF Flush, dev, bufs, hw, notify, proc, stream
<1>15. CASE FreeIrq /\ UNCHANGED closed
  <2>1. Hd(todo) = "free_irq" /\ Hd(todo') = "clean"
    BY <1>15, TodoFacts, TodoStep DEF FreeIrq, At, Hd
  <2> QED
    BY <2>1 DEF Carries
<1>16. ASSUME NEW d \in Devs, Open(d), UNCHANGED closed PROVE Carries'
  <2>1. UNCHANGED <<src, dst, tpc, isr, todo>> /\ (irqEn' # irqEn => Unopened)
    BY <1>16, NoPlan DEF Open, Idle, Unopened, dev, bufs, hw, notify, proc, stream
  <2>2. UNCHANGED irqEn
    <3>1. Unopened => ~irqEn
      BY DEF OneAtWork, Still
    <3>2. irqEn \in BOOLEAN /\ (irqEn' = irqEn \/ irqEn' = FALSE)
      BY <1>16 DEF Open, TypeOK, hw
    <3> QED
      BY <2>1, <3>1, <3>2
  <2> QED
    BY <2>1, <2>2, <1>a
<1>17. ASSUME NEW d \in Devs, Close(d), UNCHANGED closed PROVE Carries'
  BY <1>17, <1>b, NoPlan DEF Close, Idle, dev, bufs, hw, notify, proc, stream
<1>18. ASSUME NEW d \in Devs, Start(d), UNCHANGED closed PROVE Carries'
  BY <1>18, <1>b, NoPlan DEF Start, Idle, dev, bufs, hw, notify, proc, stream
<1>19. ASSUME NEW d \in Devs, Stop(d), UNCHANGED closed PROVE Carries'
  BY <1>19, <1>b, NoPlan DEF Stop, Idle, dev, bufs, hw, notify, proc, stream
<1>20. CASE \/ FrameDone \/ FrameError
            \/ \E d \in Devs : \/ NotifyPush(d) \/ NotifyCheck(d) \/ NotifyBusy(d) \/ SetLut(d)
                             \/ SetStream(d) \/ StreamWrite(d) \/ StreamFlush(d) \/ ReturnAll(d)
            \/ \E b \in SrcBufs : NotifySrc(b)
            \/ \E b \in DstBufs : QueueDst(b)
            \/ UNCHANGED vars
  <2>1. UNCHANGED <<src, dst, tpc, irqEn, isr, todo>>
    BY <1>20, ClosedFixed DEF FrameDone, FrameError, NotifyPush, NotifyCheck, NotifyBusy,
       SetLut, SetStream, StreamWrite, StreamFlush, ReturnAll, NotifySrc, QueueDst, vars,
       dev, bufs, hw, notify, proc, stream
  <2> QED
    BY <2>1, <1>a
<1> QED
  BY <1>1, <1>2, <1>3, <1>4, <1>5, <1>6, <1>7, <1>8, <1>9, <1>10, <1>11, <1>12, <1>13,
     <1>14, <1>15, <1>16, <1>17, <1>18, <1>19, <1>20
     DEF Next, IsrStep, TaskletStep, IoctlStep, NotifyStep, Ioctl, StreamStep

\* dwe_isr_tasklet overwrites src only when it is null.
LEMMA AllThereStep ==
    ASSUME TypeOK, Held, OneAtWork, Carries, AllThere, [Next]_vars
    PROVE  AllThere'
<1>a. ASSUME UNCHANGED <<sink, isp, src, nbuf>>
      PROVE  AllThere'
  BY <1>a DEF AllThere
<1>1. CASE IsrDone /\ UNCHANGED closed
  BY <1>1, BufFacts DEF IsrDone, AllThere, notify
<1>2. CASE IsrError /\ UNCHANGED closed
  BY <1>2, BufFacts DEF IsrError, AllThere, notify
<1>3. CASE TaskletPull /\ UNCHANGED closed
  <2>1. src = NULL
    BY <1>3 DEF TaskletPull, Carries, OneAtWork, Stopped, Still
  <2>2. UNCHANGED nbuf
    BY <1>3 DEF TaskletPull, notify
  <2>3. CASE ~Pullable(sink)
    BY <1>3, <2>1, <2>2, <2>3, BufFacts DEF TaskletPull, AllThere
  <2>4. CASE Pullable(sink) /\ Active(DevOf(TryDqbuf(sink)))
    <3>1. src' = TryDqbuf(sink) /\ sink' = PullBuf(sink) /\ UNCHANGED isp
      BY <1>3, <2>4 DEF TaskletPull
    <3>2. \A c : OnList(sink, c) <=> OnList(sink', c) \/ c = src'
      BY <2>4, <3>1, PullBufFacts DEF TypeOK
    <3> QED
      BY <2>1, <2>2, <3>1, <3>2, BufFacts DEF AllThere
  <2>5. CASE Pullable(sink) /\ ~Active(DevOf(TryDqbuf(sink)))
    <3> DEFINE d == DevOf(TryDqbuf(sink))
    <3>1. sink' = WithoutDev(d) /\ isp' = isp \cup {c \in Entries(sink) : DevOf(c) = d}
      BY <1>3, <2>5 DEF TaskletPull
    <3>2. \A c : OnList(sink, c) => OnList(sink', c) \/ c \in isp'
      BY <3>1, WithoutDevFacts, EntriesFacts DEF TypeOK
    <3> HIDE DEF d
    <3> QED
      BY <2>1, <2>2, <3>1, <3>2, BufFacts DEF AllThere
  <2> QED
    BY <2>3, <2>4, <2>5
<1>4. CASE TaskletDst /\ UNCHANGED closed
  <2>1. UNCHANGED <<sink, nbuf>> /\ isp \subseteq isp' /\ (src' = src \/ src \in isp')
    BY <1>4 DEF TaskletDst, notify
  <2> QED
    BY <2>1 DEF AllThere
<1>5. CASE Clean /\ UNCHANGED closed
  <2>1. /\ UNCHANGED nbuf /\ isp' = isp \cup Reclaimed
    BY <1>5 DEF Clean, notify
  <2>2. \A b \in SrcBufs : b \in isp \/ OnList(sink, b) \/ b = src => b \in isp'
    BY <2>1, EntriesFacts, BufFacts DEF Reclaimed, TypeOK
  <2> QED
    BY <2>1, <2>2 DEF AllThere
<1>6. ASSUME NEW d \in Devs, NotifyPush(d), UNCHANGED closed PROVE AllThere'
  <2>1. nbuf[d] \in SrcBufs /\ nbuf \in [Devs -> SrcBufs \cup {NULL}]
    BY <1>6 DEF NotifyPush, TypeOK, Held
  <2>2. /\ UNCHANGED <<isp, src>> /\ sink' = PushBuf(sink, nbuf[d])
        /\ nbuf' = [nbuf EXCEPT ![d] = NULL]
    BY <1>6 DEF NotifyPush
  <2>3. sink \in Seq(SrcBufs)
    BY DEF TypeOK
  <2>4. \A c : OnList(sink', c) <=> OnList(sink, c) \/ c = nbuf[d]
    BY <2>1, <2>2, <2>3, PushBufFacts
  <2> QED
    BY <2>1, <2>2, <2>4, BufFacts DEF AllThere
<1>7. ASSUME NEW b \in SrcBufs, NotifySrc(b), UNCHANGED closed PROVE AllThere'
  <2>1. DevOf(b) \in Devs /\ nbuf \in [Devs -> SrcBufs \cup {NULL}]
    BY BufFacts DEF TypeOK
  <2>2. nbuf[DevOf(b)] = NULL
    BY <1>7, <2>1 DEF NotifySrc, Held
  <2>3. UNCHANGED <<sink, src>> /\ isp' = isp \ {b} /\ nbuf' = [nbuf EXCEPT ![DevOf(b)] = b]
    BY <1>7 DEF NotifySrc
  <2> QED
    BY <2>1, <2>2, <2>3, BufFacts DEF AllThere
<1>8. CASE \/ FrameDone \/ FrameError \/ HwIsr \/ TaskletStart \/ TaskletIdle
           \/ SetDriver \/ ClearDriver \/ HwStop \/ SetIdle \/ ZeroState \/ Flush
           \/ FreeIrq
           \/ \E d \in Devs : \/ NotifyCheck(d) \/ NotifyBusy(d) \/ Open(d) \/ Close(d) \/ Start(d)
                             \/ Stop(d) \/ SetLut(d) \/ SetStream(d) \/ StreamWrite(d) \/ StreamFlush(d)
                             \/ ReturnAll(d)
           \/ \E b \in DstBufs : QueueDst(b)
           \/ UNCHANGED vars
  <2>1. UNCHANGED <<sink, isp, src, nbuf>>
    BY <1>8, ClosedFixed DEF FrameDone, FrameError, HwIsr, TaskletStart, TaskletIdle,
       SetDriver, ClearDriver, HwStop, SetIdle, ZeroState, Flush, FreeIrq, NotifyCheck,
       NotifyBusy, Open, Close, Start, Stop, SetLut, SetStream, StreamWrite, StreamFlush,
       ReturnAll, QueueDst, vars, dev, bufs, hw, notify, proc, stream
  <2> QED
    BY <2>1, <1>a
<1> QED
  BY <1>1, <1>2, <1>3, <1>4, <1>5, <1>6, <1>7, <1>8
     DEF Next, IsrStep, TaskletStep, IoctlStep, NotifyStep, Ioctl, StreamStep

\* The operations that could fault find their pointers and lists in order.
LEMMA FaultStep ==
    ASSUME TypeOK, DstPlaced, DstApart, Shut({"early_requeue"}), OneAtWork, Carries,
           oops = "none", [Next]_vars
    PROVE  oops' = "none"
<1>a. ASSUME UNCHANGED <<oops>>
      PROVE  oops' = "none"
  BY <1>a
<1>1. CASE IsrError /\ UNCHANGED closed /\ oops = "none"
  <2>1. dst # NULL => ~OnList(srcq[index], dst)
    BY <1>1 DEF IsrError, Locked, DstPlaced, DstApart
  <2> QED
    BY <1>1, <2>1 DEF IsrError
<1>2. CASE TaskletPull /\ UNCHANGED closed /\ oops = "none"
  <2>1. dst = NULL
    BY <1>2 DEF TaskletPull, Carries, OneAtWork, Stopped, Still
  <2> QED
    BY <1>2, <2>1 DEF TaskletPull, Continue
<1>3. CASE TaskletDst /\ UNCHANGED closed /\ oops = "none"
  <2>1. dst = NULL
    BY <1>3 DEF TaskletDst, Carries, OneAtWork, Stopped, Still
  <2> QED
    BY <1>3, <2>1 DEF TaskletDst, Continue
<1>4. ASSUME NEW b \in DstBufs, QueueDst(b), UNCHANGED closed, oops = "none" PROVE oops' = "none"
  BY <1>4 DEF QueueDst, InDwe, Shut
<1>5. CASE \/ FrameDone \/ FrameError \/ HwIsr \/ IsrDone \/ TaskletStart
           \/ TaskletIdle \/ SetDriver \/ ClearDriver \/ HwStop \/ Clean \/ SetIdle
           \/ ZeroState \/ Flush \/ FreeIrq
           \/ \E d \in Devs : \/ NotifyPush(d) \/ NotifyCheck(d) \/ NotifyBusy(d) \/ Open(d) \/ Close(d)
                             \/ Start(d) \/ Stop(d) \/ SetLut(d) \/ SetStream(d) \/ StreamWrite(d)
                             \/ StreamFlush(d) \/ ReturnAll(d)
           \/ \E b \in SrcBufs : NotifySrc(b)
           \/ UNCHANGED vars
  <2>1. UNCHANGED <<oops>>
    BY <1>5, ClosedFixed DEF FrameDone, FrameError, HwIsr, IsrDone, TaskletStart,
       TaskletIdle, SetDriver, ClearDriver, HwStop, Clean, SetIdle, ZeroState, Flush,
       FreeIrq, NotifyPush, NotifyCheck, NotifyBusy, Open, Close, Start, Stop, SetLut,
       SetStream, StreamWrite, StreamFlush, ReturnAll, NotifySrc, vars, dev, bufs, hw,
       notify, proc, stream
  <2> QED
    BY <2>1, <1>a
<1> QED
  BY <1>1, <1>2, <1>3, <1>4, <1>5
     DEF Next, IsrStep, TaskletStep, IoctlStep, NotifyStep, Ioctl, StreamStep

\* While the parts take turns and the engine reports no error, nobody touches the
\* frame in work until the engine is done with it.
LEMMA OnTargetStep ==
    ASSUME TypeOK, Planned, Held, DstPlaced, Shut({"late_tasklet", "hw_error"}),
           OneAtWork, OnTarget, [Next]_vars
    PROVE  OnTarget'
<1>a. ASSUME UNCHANGED <<isr, ris, job, irqEn, src, dst, made>>
      PROVE  OnTarget'
  BY <1>a DEF OnTarget
<1>1. CASE FrameDone /\ UNCHANGED closed
  BY <1>1 DEF FrameDone, OneAtWork, OnTarget, dev, bufs, hw, notify, proc, stream
<1>2. CASE FrameError /\ UNCHANGED closed
  BY <1>2 DEF FrameError, Shut, OneAtWork, OnTarget, dev, bufs, hw, notify, proc, stream
<1>3. CASE HwIsr /\ UNCHANGED closed
  <2>1. ris = {"done"} /\ job = NULL /\ irqEn /\ isr = "idle" /\ made = <<src, dst>>
    BY <1>3 DEF HwIsr, OneAtWork, OnTarget
  <2>2. /\ ris' = {} /\ irqEn' = FALSE /\ isr' \in {"done", "idle"}
        /\ UNCHANGED <<job, src, dst, made>>
    BY <1>3, <2>1 DEF HwIsr, dev, bufs, hw, notify, proc, stream
  <2> QED
    BY <2>1, <2>2 DEF OnTarget
<1>4. CASE IsrDone /\ UNCHANGED closed
  BY <1>4 DEF IsrDone, OneAtWork, OnTarget, dev, bufs, hw, notify, proc, stream
<1>5. CASE IsrError /\ UNCHANGED closed
  BY <1>5 DEF IsrError, OneAtWork, OnTarget, dev, bufs, hw, notify, proc, stream
<1>6. CASE TaskletStart /\ UNCHANGED closed
  BY <1>6 DEF TaskletStart, OneAtWork, OnTarget, dev, bufs, hw, notify, proc, stream
<1>7. CASE TaskletPull /\ UNCHANGED closed
  BY <1>7 DEF TaskletPull, OneAtWork, OnTarget, dev, bufs, hw, notify, proc, stream
<1>8. CASE TaskletDst /\ UNCHANGED closed
  <2>1. job = NULL /\ ris = {} /\ isr = "idle"
    BY <1>8 DEF TaskletDst, OneAtWork, OnTarget
  <2>2. UNCHANGED <<ris, isr>>
    BY <1>8 DEF TaskletDst, hw
  <2>3. CASE lut[index] /\ Pullable(srcq[index])
    <3>1. job' = <<src', dst'>> /\ irqEn' /\ src' = src /\ dst' = TryDqbuf(srcq[index])
      BY <1>8, <2>3 DEF TaskletDst
    <3>2. dst' \in DstBufs /\ OnList(srcq[index], dst') /\ index \in Devs
      BY <2>3, <3>1, PullBufFacts DEF TypeOK
    <3>3. DevOf(src') = index /\ DevOf(dst') = index
      BY <1>8, <3>1, <3>2 DEF TaskletDst, Held, DstPlaced
    <3> QED
      BY <2>1, <2>2, <3>1, <3>3 DEF OnTarget
  <2>4. CASE ~(lut[index] /\ Pullable(srcq[index]))
    BY <1>8, <2>1, <2>2, <2>4 DEF TaskletDst, OnTarget, hw
  <2> QED
    BY <2>3, <2>4
<1>9. CASE HwStop /\ UNCHANGED closed
  BY <1>9 DEF HwStop, Shut, Quiet, OnTarget, dev, bufs, hw, notify, proc, stream
<1>10. CASE Clean /\ UNCHANGED closed
  <2>1. Hd(todo) = "clean"
    BY <1>10, TodoFacts DEF Clean, At, Hd
  <2>2. job = NULL /\ ris = {} /\ isr = "idle"
    BY <2>1 DEF OneAtWork, Stopped, Still, OnTarget
  <2> QED
    BY <1>10, <2>2 DEF Clean, OnTarget, dev, bufs, hw, notify, proc, stream
<1>11. CASE FreeIrq /\ UNCHANGED closed
  <2>1. Hd(todo) = "free_irq"
    BY <1>11, TodoFacts DEF FreeIrq, At, Hd
  <2>2. job = NULL /\ ris = {} /\ isr = "idle"
    BY <2>1 DEF OneAtWork, Stopped, Still, OnTarget
  <2> QED
    BY <1>11, <2>2 DEF FreeIrq, OnTarget, dev, bufs, hw, notify, proc, stream
<1>12. ASSUME NEW d \in Devs, Open(d), UNCHANGED closed PROVE OnTarget'
  <2>1. UNCHANGED <<isr, job, src, dst, made>>
    BY <1>12 DEF Open, dev, bufs, hw, notify, proc, stream
  <2>2. CASE UNCHANGED <<ris, irqEn>>
    BY <2>1, <2>2, <1>a
  <2>3. CASE Unopened /\ ris' = {} /\ irqEn' = FALSE
    <3>1. job = NULL
      BY <2>3 DEF OneAtWork, Still, OnTarget
    <3> QED
      BY <2>1, <2>3, <3>1 DEF OnTarget
  <2> QED
    BY <1>12, <2>2, <2>3, NoPlan DEF Open, Idle, Unopened
<1>13. ASSUME NEW d \in Devs, Start(d), UNCHANGED closed PROVE OnTarget'
  BY <1>13 DEF Start, OneAtWork, OnTarget, dev, bufs, hw, notify, proc, stream
<1>14. CASE \/ TaskletIdle \/ SetDriver \/ ClearDriver \/ SetIdle \/ ZeroState \/ Flush
            \/ \E d \in Devs : \/ NotifyPush(d) \/ NotifyCheck(d) \/ NotifyBusy(d) \/ Close(d) \/ Stop(d)
                             \/ SetLut(d) \/ SetStream(d) \/ StreamWrite(d) \/ StreamFlush(d)
                             \/ ReturnAll(d)
            \/ \E b \in SrcBufs : NotifySrc(b)
            \/ \E b \in DstBufs : QueueDst(b)
            \/ UNCHANGED vars
  <2>1. UNCHANGED <<isr, ris, job, irqEn, src, dst, made>>
    BY <1>14, ClosedFixed DEF TaskletIdle, SetDriver, ClearDriver, SetIdle, ZeroState,
       Flush, NotifyPush, NotifyCheck, NotifyBusy, Close, Stop, SetLut, SetStream,
       StreamWrite, StreamFlush, ReturnAll, NotifySrc, QueueDst, vars, dev, bufs, hw,
       notify, proc, stream
  <2> QED
    BY <2>1, <1>a
<1> QED
  BY <1>1, <1>2, <1>3, <1>4, <1>5, <1>6, <1>7, <1>8, <1>9, <1>10, <1>11, <1>12, <1>13, <1>14
     DEF Next, IsrStep, TaskletStep, IoctlStep, NotifyStep, Ioctl, StreamStep

\* The engine is marked busy only by those who will mark it idle, or hand over to one
\* who will.
LEMMA WokenStep ==
    ASSUME TypeOK, Planned, Held, Shut({"idle_in_flight", "close_started"}), WholeState,
           Woken, [Next]_vars
    PROVE  Woken'
<1>a. ASSUME UNCHANGED <<state, todo, tpc, hardware_status, tasklet, isr, job, ris, oops>>
      PROVE  Woken'
  BY <1>a DEF Woken, Working, Locked, Drivers
<1>b. ASSUME UNCHANGED <<Drivers, tpc, hardware_status, tasklet, isr, job, ris, oops>>,
             ~Stopping(todo), ~Stopping(todo')
      PROVE  Woken'
  BY <1>b DEF Woken, Working, Locked
<1>1. CASE FrameDone /\ UNCHANGED closed /\ oops = "none"
  <2>1. UNCHANGED <<Drivers, todo>>
    BY <1>1 DEF FrameDone, dev, bufs, hw, notify, proc, stream, Drivers
  <2> QED
    BY <1>1, <2>1 DEF FrameDone, Woken, Working, Locked, dev, bufs, hw, notify, proc, stream
<1>2. CASE FrameError /\ UNCHANGED closed /\ oops = "none"
  <2>1. UNCHANGED <<Drivers, todo>>
    BY <1>2 DEF FrameError, dev, bufs, hw, notify, proc, stream, Drivers
  <2> QED
    BY <1>2, <2>1 DEF FrameError, Woken, Working, Locked, dev, bufs, hw, notify, proc, stream
<1>3. CASE HwIsr /\ UNCHANGED closed /\ oops = "none"
  <2>1. /\ UNCHANGED <<Drivers, todo, tpc, hardware_status, tasklet, oops>>
        /\ isr' # "idle"
    BY <1>3 DEF HwIsr, Shut, dev, bufs, hw, notify, proc, stream, Drivers
  <2> QED
    BY <2>1 DEF Woken, Working, Locked
<1>4. CASE IsrDone /\ UNCHANGED closed /\ oops = "none"
  <2>1. UNCHANGED <<Drivers, todo>>
    BY <1>4 DEF IsrDone, dev, bufs, hw, notify, proc, stream, Drivers
  <2> QED
    BY <1>4, <2>1 DEF IsrDone, Woken, Working, Locked, dev, bufs, hw, notify, proc, stream
<1>5. CASE IsrError /\ UNCHANGED closed /\ oops = "none"
  <2>1. UNCHANGED <<Drivers, todo>>
    BY <1>5 DEF IsrError, dev, bufs, hw, notify, proc, stream, Drivers
  <2> QED
    BY <1>5, <2>1 DEF IsrError, Woken, Working, Locked, dev, bufs, hw, notify, proc, stream
<1>6. CASE TaskletStart /\ UNCHANGED closed /\ oops = "none"
  <2>1. UNCHANGED <<Drivers, todo>>
    BY <1>6 DEF TaskletStart, dev, bufs, hw, notify, proc, stream, Drivers
  <2> QED
    BY <1>6, <2>1 DEF TaskletStart, Woken, Working, Locked, dev, bufs, hw, notify, proc, stream
<1>7. CASE TaskletPull /\ UNCHANGED closed /\ oops = "none"
  <2>1. UNCHANGED <<Drivers, todo, hardware_status, tasklet, isr, job, ris>>
    BY <1>7 DEF TaskletPull, dev, bufs, hw, notify, proc, stream, Drivers
  <2>2. tpc' # "idle" \/ oops' # "none"
    BY <1>7 DEF TaskletPull, Continue
  <2>3. tpc' = "dst" => Drivers # {}
    <3>1. Pullable(sink) => DevOf(TryDqbuf(sink)) \in Devs
      BY PullBufFacts, BufFacts DEF TypeOK
    <3> QED
      BY <1>7, <3>1 DEF TaskletPull, Continue, Active, Flags, Drivers
  <2> QED
    BY <2>1, <2>2, <2>3 DEF Woken, Working, Locked
<1>8. CASE TaskletDst /\ UNCHANGED closed /\ oops = "none"
  <2>1. UNCHANGED <<Drivers, todo, hardware_status, tasklet, isr>> /\ tpc = "dst"
    BY <1>8 DEF TaskletDst, dev, bufs, hw, notify, proc, stream, Drivers
  <2>2. tpc' # "dst" /\ (job' # NULL \/ tpc' # "idle" \/ oops' # "none")
    <3>1. src \in SrcBufs \cup {NULL}
      BY DEF TypeOK
    <3>2. CASE lut[index] /\ Pullable(srcq[index])
      <4>1. tpc' = "idle" /\ job' = <<src, TryDqbuf(srcq[index])>>
        BY <1>8, <3>2 DEF TaskletDst
      <4>2. TryDqbuf(srcq[index]) \in DstBufs /\ src # NULL
        BY <3>2, <2>1, PullBufFacts DEF TypeOK, Held
      <4> QED
        BY <3>1, <4>1, <4>2, BufFacts
    <3>3. CASE ~(lut[index] /\ Pullable(srcq[index]))
      BY <1>8, <3>3 DEF TaskletDst, Continue
    <3> QED
      BY <3>2, <3>3
  <2> QED
    BY <2>1, <2>2 DEF Woken, Working, Locked
<1>9. CASE TaskletIdle /\ UNCHANGED closed /\ oops = "none"
  <2>1. UNCHANGED <<Drivers, todo>>
    BY <1>9 DEF TaskletIdle, dev, bufs, hw, notify, proc, stream, Drivers
  <2> QED
    BY <1>9, <2>1 DEF TaskletIdle, Woken, Working, Locked, dev, bufs, hw, notify, proc, stream
<1>10. CASE SetDriver /\ UNCHANGED closed /\ oops = "none"
  <2>1. todo # <<>> /\ Hd(todo) = "set_driver" /\ Dev(todo) = Who /\ Who \in Devs
    BY <1>10, TodoFacts DEF SetDriver, At, Hd
  <2>2. /\ UNCHANGED <<tpc, hardware_status, tasklet, isr, job, ris, oops>>
        /\ ~Stopping(todo) /\ ~Stopping(todo')
    BY <1>10, <2>1, TodoStep, NoPlan DEF SetDriver, Stopping, dev, bufs, hw, notify, proc,
       stream
  <2>3. Drivers' # {}
    BY <1>10, <2>1 DEF SetDriver, Drivers, TypeOK
  <2> QED
    BY <2>2, <2>3 DEF Woken, Working, Locked
<1>11. CASE ClearDriver /\ UNCHANGED closed /\ oops = "none"
  <2>1. todo # <<>> /\ Hd(todo) = "clear_driver" /\ Dev(todo) = Who /\ Who \in Devs
    BY <1>11, TodoFacts DEF ClearDriver, At, Hd
  <2>2. /\ UNCHANGED <<tpc, hardware_status, tasklet, isr, job, ris, oops>>
        /\ state' = [state EXCEPT ![Who] = dreg \ {"driver"}]
        /\ todo' = IF core = 1 THEN Stop3(Who) ELSE <<>>
    BY <1>11, <2>1, NewPlans DEF ClearDriver, dev, bufs, hw, notify, proc, stream
  <2>3. Who \in Drivers /\ Drivers' = Drivers \ {Who}
    <3>1. Who \in Drivers /\ dreg = state[Who]
      BY <2>1 DEF WholeState
    <3> QED
      BY <2>1, <2>2, <3>1 DEF Drivers, TypeOK
  <2>4. Drivers' = {} => core = 1
    <3>1. Drivers \in SUBSET Devs /\ Drivers' \in SUBSET Devs
      BY DEF Drivers
    <3>2. /\ Cardinality(Drivers') = Cardinality(Drivers) - 1
          /\ Cardinality(Drivers) \in Nat
          /\ Drivers' = {} => Cardinality(Drivers') = 0
      BY <2>3, <3>1, DevSets
    <3>3. core \in Int /\ core >= Cardinality(Drivers) /\ core <= Cardinality(Drivers)
      <4>1. core \in Int
        BY DweAssumption DEF TypeOK
      <4>2. "close_started" \in closed
        BY DEF Shut
      <4> QED
        BY <2>1, <3>2, <4>1, <4>2 DEF WholeState, Started
    <3> QED
      BY <3>2, <3>3
  <2>5. Drivers' = {} => Stopping(todo') /\ Hd(todo') = "hw_stop"
    BY <2>1, <2>2, <2>4, FirstStep
  <2> QED
    BY <2>2, <2>3, <2>5 DEF Woken, Working, Locked
<1>12. CASE HwStop /\ UNCHANGED closed /\ oops = "none"
  <2>1. todo # <<>> /\ Hd(todo) = "hw_stop" /\ Dev(todo) = Who /\ Who \in Devs
    BY <1>12, TodoFacts DEF HwStop, At, Hd
  <2>2. UNCHANGED <<Drivers, tpc, hardware_status, tasklet, isr, oops>>
    BY <1>12 DEF HwStop, dev, bufs, hw, notify, proc, stream, Drivers
  <2>3. /\ Drivers = {}
        /\ \/ Stopping(todo) /\ Stopping(todo') /\ Hd(todo') = "clean"
           \/ ~Stopping(todo) /\ ~Stopping(todo')
    <3>1. \/ Stopping(todo) /\ Stopping(todo') /\ Hd(todo') = "clean"
          \/ Closing(todo) /\ Closing(todo')
      BY <1>12, <2>1, TodoStep DEF HwStop
    <3>2. Stopping(todo) \/ Closing(todo) => Drivers = {}
      BY <2>1 DEF WholeState, Drivers
    <3> QED
      BY <3>1, <3>2 DEF Stopping, Closing
  <2> QED
    BY <2>1, <2>2, <2>3 DEF Woken, Working, Locked
<1>13. CASE Clean /\ UNCHANGED closed /\ oops = "none"
  <2>1. todo # <<>> /\ Hd(todo) = "clean" /\ Dev(todo) = Who /\ Who \in Devs
    BY <1>13, TodoFacts DEF Clean, At, Hd
  <2>2. /\ UNCHANGED <<Drivers, tpc, hardware_status, tasklet, isr, job, ris, oops>>
        /\ tpc = "idle"
    BY <1>13 DEF Clean, Locked, dev, bufs, hw, notify, proc, stream, Drivers
  <2>3. \/ Stopping(todo) /\ Stopping(todo') /\ Drivers = {}
        \/ ~Stopping(todo) /\ ~Stopping(todo')
    BY <1>13, <2>1, TodoStep, NoPlan DEF Clean, WholeState, Stopping, Closing
  <2> QED
    BY <2>2, <2>3 DEF Woken, Working, Locked
<1>14. CASE SetIdle /\ UNCHANGED closed /\ oops = "none"
  <2>1. todo # <<>> /\ Hd(todo) = "set_idle" /\ Dev(todo) = Who /\ Who \in Devs
    BY <1>14, TodoFacts DEF SetIdle, At, Hd
  <2>2. UNCHANGED <<Drivers, tpc>> /\ hardware_status' = "idle"
    BY <1>14 DEF SetIdle, dev, bufs, hw, notify, proc, stream, Drivers
  <2> QED
    BY <2>1, <2>2 DEF Woken, Working, Locked
<1>15. CASE ZeroState /\ UNCHANGED closed /\ oops = "none"
  <2>1. todo # <<>> /\ Hd(todo) = "zero_state" /\ Dev(todo) = Who /\ Who \in Devs
    BY <1>15, TodoFacts DEF ZeroState, At, Hd
  <2>2. /\ UNCHANGED <<tpc, hardware_status, tasklet, isr, job, ris, oops>>
        /\ state' = [state EXCEPT ![Who] = {}] /\ Who \notin Drivers
        /\ ~Stopping(todo) /\ ~Stopping(todo')
    BY <1>15, <2>1, TodoStep DEF ZeroState, WholeState, Shut, dev, bufs, hw, notify, proc,
       stream
  <2>3. Drivers' = Drivers
    BY <2>1, <2>2 DEF Drivers, TypeOK
  <2> QED
    BY <2>2, <2>3, <1>b
<1>16. CASE Flush /\ UNCHANGED closed /\ oops = "none"
  <2>1. todo # <<>> /\ Hd(todo) = "flush" /\ Dev(todo) = Who /\ Who \in Devs
    BY <1>16, TodoFacts DEF Flush, At, Hd
  <2>2. /\ UNCHANGED <<Drivers, tpc, hardware_status, tasklet, isr, job, ris, oops>>
        /\ ~Stopping(todo) /\ ~Stopping(todo')
    BY <1>16, <2>1, TodoStep DEF Flush, dev, bufs, hw, notify, proc, stream, Drivers
  <2> QED
    BY <2>2, <1>b
<1>17. CASE FreeIrq /\ UNCHANGED closed /\ oops = "none"
  <2>1. todo # <<>> /\ Hd(todo) = "free_irq" /\ Dev(todo) = Who /\ Who \in Devs
    BY <1>17, TodoFacts DEF FreeIrq, At, Hd
  <2>2. UNCHANGED <<Drivers, tpc, hardware_status, tasklet, isr, oops>>
    BY <1>17 DEF FreeIrq, dev, bufs, hw, notify, proc, stream, Drivers
  <2>3. Drivers = {}
    BY <2>1, NoneStarted DEF Stopped
  <2>4. ~Stopping(todo) /\ ~Stopping(todo')
    BY <1>17, <2>1, TodoStep DEF FreeIrq, Stopping, Closing
  <2> QED
    BY <2>2, <2>3, <2>4 DEF Woken, Working, Locked
<1>18. ASSUME NEW d \in Devs, NotifyBusy(d), UNCHANGED closed, oops = "none" PROVE Woken'
  <2>1. UNCHANGED <<Drivers, todo>>
    BY <1>18 DEF NotifyBusy, dev, bufs, hw, notify, proc, stream, Drivers
  <2> QED
    BY <1>18, <2>1 DEF NotifyBusy, Woken, Working, Locked, dev, bufs, hw, notify, proc, stream
<1>19. ASSUME NEW d \in Devs, Open(d), UNCHANGED closed, oops = "none" PROVE Woken'
  <2>1. UNCHANGED <<Drivers, todo, tpc, hardware_status, tasklet, isr, job, oops>> /\ todo = <<>>
    BY <1>19 DEF Open, Idle, dev, bufs, hw, notify, proc, stream, Drivers
  <2>2. ris' = ris \/ Unopened
    BY <1>19, NoPlan DEF Open, Idle, Unopened
  <2>3. Unopened => Drivers = {}
    BY NoneStarted
  <2> QED
    BY <2>1, <2>2, <2>3 DEF Woken, Working, Locked
<1>20. ASSUME NEW d \in Devs, Close(d), UNCHANGED closed, oops = "none" PROVE Woken'
  <2>1. UNCHANGED <<Drivers, tpc, hardware_status, tasklet, isr, job, ris, oops>> /\ todo = <<>>
    BY <1>20 DEF Close, Idle, dev, bufs, hw, notify, proc, stream, Drivers
  <2>2. ~Stopping(todo) /\ ~Stopping(todo')
    BY <1>20, <2>1, ClosePlan, FirstStep
  <2> QED
    BY <2>1, <2>2, <1>b
<1>21. ASSUME NEW d \in Devs, Start(d), UNCHANGED closed, oops = "none" PROVE Woken'
  <2>1. UNCHANGED <<Drivers, tpc, hardware_status, tasklet, isr, ris, oops>> /\ todo = <<>>
    BY <1>21 DEF Start, Idle, dev, bufs, hw, notify, proc, stream, Drivers
  <2>2. ~Stopping(todo) /\ ~Stopping(todo')
    BY <1>21, <2>1, NewPlans, FirstStep DEF Start
  <2>3. job' = job \/ Drivers = {}
    <3>1. core >= Cardinality(Drivers) /\ Cardinality(Drivers) \in Nat /\ (Cardinality(Drivers) = 0 <=> Drivers = {})
      <4>1. Drivers \in SUBSET Devs
        BY DEF Drivers
      <4> QED
        BY <2>1, <4>1, DevSets, NoPlan DEF WholeState, Started
    <3> QED
      BY <1>21, <3>1 DEF Start
  <2> QED
    BY <2>1, <2>2, <2>3 DEF Woken, Working, Locked
<1>22. ASSUME NEW d \in Devs, Stop(d), UNCHANGED closed, oops = "none" PROVE Woken'
  <2>1. UNCHANGED <<Drivers, tpc, hardware_status, tasklet, isr, job, ris, oops>> /\ todo = <<>>
    BY <1>22 DEF Stop, Idle, dev, bufs, hw, notify, proc, stream, Drivers
  <2>2. ~Stopping(todo) /\ ~Stopping(todo')
    BY <1>22, <2>1, NewPlans, FirstStep DEF Stop
  <2> QED
    BY <2>1, <2>2, <1>b
<1>23. ASSUME NEW d \in Devs, StreamWrite(d), UNCHANGED closed, oops = "none" PROVE Woken'
  <2>1. UNCHANGED <<todo, tpc, hardware_status, tasklet, isr, job, ris, oops>>
    BY <1>23 DEF StreamWrite, dev, bufs, hw, notify, proc, stream
  <2>2. Drivers' = Drivers
    <3>1. /\ \A e \in Devs : e # d => state'[e] = state[e]
          /\ state'[d] \in {state[d] \cup {"stream"}, state[d] \ {"stream"}}
      BY <1>23 DEF StreamWrite, TypeOK, WholeState
    <3> QED
      BY <3>1 DEF Drivers
  <2> QED
    BY <2>1, <2>2 DEF Woken, Working, Locked
<1>24. ASSUME NEW b \in DstBufs, QueueDst(b), UNCHANGED closed, oops = "none" PROVE Woken'
  <2>1. UNCHANGED <<Drivers, todo, tpc, hardware_status, tasklet, isr, job, ris>>
    BY <1>24 DEF QueueDst, dev, bufs, hw, notify, proc, stream, Drivers
  <2> QED
    BY <1>24, <2>1 DEF Woken, Working, Locked
<1>25. CASE \/ \E d \in Devs : \/ NotifyPush(d) \/ NotifyCheck(d) \/ SetLut(d) \/ SetStream(d)
                             \/ StreamFlush(d) \/ ReturnAll(d)
            \/ \E b \in SrcBufs : NotifySrc(b)
            \/ UNCHANGED vars
  <2>1. UNCHANGED <<state, todo, tpc, hardware_status, tasklet, isr, job, ris, oops>>
    BY <1>25, ClosedFixed DEF NotifyPush, NotifyCheck, SetLut, SetStream, StreamFlush,
       ReturnAll, NotifySrc, vars, dev, bufs, hw, notify, proc, stream
  <2> QED
    BY <2>1, <1>a
<1> QED
  BY <1>1, <1>2, <1>3, <1>4, <1>5, <1>6, <1>7, <1>8, <1>9, <1>10, <1>11, <1>12, <1>13,
     <1>14, <1>15, <1>16, <1>17, <1>18, <1>19, <1>20, <1>21, <1>22, <1>23, <1>24, <1>25
     DEF Next, IsrStep, TaskletStep, IoctlStep, NotifyStep, Ioctl, StreamStep
-----------------------------------------------------------------------------
(***************************************************************************)
(* The theorems.                                                           *)
(***************************************************************************)

\* Probed and closed subdevices.
LEMMA InitTyped == Init => Typed
<1> SUFFICES ASSUME Init PROVE Typed
  OBVIOUS
<1>1. TypeOK
  <2>1. state \in [Devs -> SUBSET Flags] /\ spc \in [Devs -> {"off", "set", "on", "clear", "flush", "return"}]
    BY DEF Init, Flags
  <2>2. /\ refcnt \in [Devs -> 0 .. MaxOpen] /\ core \in -MaxCore .. MaxCore /\ index \in Devs
    BY DweAssumption, BufFacts DEF Init
  <2>3. /\ sink \in Seq(SrcBufs) /\ srcq \in [Devs -> Seq(DstBufs)]
        /\ todo \in Seq(StepLabels \X Devs)
    BY DEF Init
  <2> QED
    BY <2>1, <2>2, <2>3 DEF Init, TypeOK
<1>2. Planned
  BY BufFacts DEF Init, Planned, Plans
<1>3. Held
  BY DEF Init, Held
<1> QED
  BY <1>1, <1>2, <1>3 DEF Typed

LEMMA InitInv == Init => IInv
<1> SUFFICES ASSUME Init PROVE IInv
  OBVIOUS
<1>1. Typed
  BY InitTyped
<1>2. SrcApart
  BY NoEntry, BufFacts DEF Init, SrcApart
<1>3. DstPlaced /\ DstApart
  BY NoEntry DEF Init, DstPlaced, DstApart
<1>4. Drivers = {} /\ Hd(todo) = "none" /\ ~Closing(todo) /\ ~Stopping(todo) /\ ~Stopped(todo)
  BY NoPlan DEF Init, Drivers, Closing, Stopping, Stopped
<1>5. WholeState
  <2>1. Started = 0
    BY <1>4, FS_EmptySet DEF Started
  <2> QED
    BY <1>4, <2>1 DEF Init, WholeState
<1>6. OneAtWork
  BY DEF Init, OneAtWork, Still
<1>7. Carries /\ AllThere /\ OnTarget /\ Woken
  BY DEF Init, Carries, AllThere, OnTarget, Woken
<1>8. NoFault
  BY DEF Init, NoFault
<1> QED
  BY <1>1, <1>2, <1>3, <1>5, <1>6, <1>7, <1>8
     DEF IInv, Counted, Exclusive, Carried, Aimed, Watched

LEMMA StepInv == IInv /\ [Next]_vars => IInv'
<1> SUFFICES ASSUME IInv, [Next]_vars PROVE IInv'
  OBVIOUS
<1> USE DEF IInv, Typed
<1>0. closed' = closed
  BY ClosedFixed
<1>1. Typed'
  BY TypeOKStep, PlannedStep, HeldStep
<1>2. SrcApart'
  BY SrcApartStep
<1>3. DstPlaced'
  BY DstPlacedStep
<1>4. DstApart'
  BY DstApartStep
<1>5. Counted'
  BY <1>0, WholeStep DEF Counted, Shut
<1>6. Exclusive'
  <2> SUFFICES ASSUME Shut({"torn_state", "double_start", "late_tasklet"}) PROVE OneAtWork'
    BY <1>0 DEF Exclusive, Shut
  <2>1. WholeState /\ OneAtWork
    BY DEF Counted, Exclusive, Shut
  <2> QED
    BY <2>1, OneAtWorkStep
<1>7. Carried'
  <2> SUFFICES ASSUME Shut({"torn_state", "double_start", "idle_in_flight", "late_tasklet"})
               PROVE  Carries' /\ AllThere'
    BY <1>0 DEF Carried, Shut
  <2>1. OneAtWork /\ Carries /\ AllThere /\ Shut({"idle_in_flight"})
    BY DEF Exclusive, Carried, Shut
  <2> QED
    BY <2>1, CarriesStep, AllThereStep
<1>8. NoFault'
  <2> SUFFICES ASSUME Shut({"torn_state", "double_start", "idle_in_flight", "late_tasklet",
                            "early_requeue"})
               PROVE  oops' = "none"
    BY <1>0 DEF NoFault, Shut
  <2>1. OneAtWork /\ Carries /\ Shut({"early_requeue"}) /\ oops = "none"
    BY DEF Exclusive, Carried, NoFault, Shut
  <2> QED
    BY <2>1, FaultStep
<1>9. Aimed'
  <2> SUFFICES ASSUME Shut({"torn_state", "double_start", "late_tasklet", "hw_error"})
               PROVE  OnTarget'
    BY <1>0 DEF Aimed, Shut
  <2>1. OneAtWork /\ OnTarget /\ Shut({"late_tasklet", "hw_error"})
    BY DEF Exclusive, Aimed, Shut
  <2> QED
    BY <2>1, OnTargetStep
<1>10. Watched'
  <2> SUFFICES ASSUME Shut({"torn_state", "idle_in_flight", "close_started"}) PROVE Woken'
    BY <1>0 DEF Watched, Shut
  <2>1. WholeState /\ Woken /\ Shut({"idle_in_flight", "close_started"})
    BY DEF Counted, Watched, Shut
  <2> QED
    BY <2>1, WokenStep
<1> QED
  BY <1>1, <1>2, <1>3, <1>4, <1>5, <1>6, <1>7, <1>8, <1>9, <1>10

\* Every reachable state satisfies the inductive invariant.
THEOREM Invariant == Spec => []IInv
<1> QED
  BY InitInv, StepInv, PTL DEF Spec

\* Every variable keeps its type: in particular the two queues stay sequences
\* of buffers, and the tasklet and the interrupt handlers stand where the code
\* lets them stand.
THEOREM TypeCorrect == Spec => []TypeOK
<1>1. IInv => TypeOK
  BY DEF IInv, Typed
<1> QED
  BY <1>1, Invariant, PTL

\* dwe_src_buf_notify, dwe_isr_tasklet, dwe_hw_isr and dwe_clean_src_memory
\* never leave a source buffer in two places, nor link one twice; neither is a
\* destination buffer queued twice, or queued and in work, unless user space
\* queues again what STREAMOFF gave it back too early.
THEOREM Roles == Spec => []OneRole
<1>1. IInv => OneRole
  BY RolesFacts DEF IInv, Typed
<1> QED
  BY <1>1, Invariant, PTL

\* While no two threads update `state' together and no subdevice is closed
\* without DWEIOC_STOP, core.state is the number of started subdevices whenever
\* no ioctl is in progress: neither subdevice stops the engine under the other.
THEOREM CountExact == Spec => []CoreCounts
<1>1. IInv => CoreCounts
  <2> SUFFICES ASSUME IInv, Shut({"torn_state", "close_started"}), Idle
               PROVE  core = Cardinality(Drivers)
    BY DEF CoreCounts, Drivers
  <2>1. WholeState /\ "close_started" \in closed /\ core \in Int
    BY DweAssumption DEF IInv, Typed, TypeOK, Counted, Shut
  <2>2. Cardinality(Drivers) \in Nat
    <3>1. Drivers \in SUBSET Devs
      BY DEF Drivers
    <3> QED
      BY <3>1, DevSets
  <2>3. core >= Cardinality(Drivers) /\ core <= Cardinality(Drivers)
    BY <2>1, <2>2, NoPlan DEF Idle, WholeState, Started
  <2> QED
    BY <2>1, <2>2, <2>3
<1> QED
  BY <1>1, Invariant, PTL

\* No source buffer is lost: dwe_isr_tasklet finds src null when it overwrites
\* it, in every timing but those in which the engine is started while busy, or
\* stopped or marked idle with a frame in work.
THEOREM NothingForgotten == Spec => []SrcNoLeak
<1>1. IInv => SrcNoLeak
  BY DEF IInv, Carried, AllThere, SrcNoLeak
<1> QED
  BY <1>1, Invariant, PTL

\* In the same timings, and if no buffer is queued again early, the tasklet
\* dereferences no null pointer and no list entry is linked twice.
THEOREM NoFaults == Spec => []NoFault
<1>1. IInv => NoFault
  BY DEF IInv
<1> QED
  BY <1>1, Invariant, PTL

\* As long as the engine reports no error and is neither started while busy nor
\* stopped under the tasklet, it writes to the destination in work only.
THEOREM Target == Spec => []HwTarget
<1>1. IInv => HwTarget
  BY DEF IInv, Aimed, OnTarget, HwTarget
<1> QED
  BY <1>1, Invariant, PTL

\* Under the same conditions a destination that dwe_hw_isr delivers holds the
\* finished frame of the source in work, of the same subdevice.
THEOREM WholeFrames == Spec => DeliversFinishedFrame
<1>1. IInv /\ [Next]_vars =>
        [Shut({"torn_state", "double_start", "late_tasklet", "hw_error"})
           /\ isr = "done" /\ isr' = "idle" /\ dst # NULL =>
              made = <<src, dst>> /\ DevOf(src) = DevOf(dst)]_vars
  BY DEF IInv, Aimed, OnTarget
<1> QED
  BY <1>1, Invariant, PTL DEF Spec, DeliversFinishedFrame

\* While no interrupt is handled with no subdevice active, an engine marked busy
\* has a frame, an interrupt, the handler or the tasklet on its way: the idle
\* flag that dwe_src_buf_notify waits for is never stuck.
THEOREM NeverStuck == Spec => []BusyIsWorking
<1>1. IInv => BusyIsWorking
  <2> SUFFICES ASSUME IInv, Shut({"torn_state", "idle_in_flight", "close_started"}),
                      hardware_status = "busy", Idle, oops = "none"
               PROVE  Working
    BY DEF BusyIsWorking
  <2>1. Woken /\ ~Stopping(todo)
    BY NoPlan DEF IInv, Watched, Idle, Stopping
  <2> QED
    BY <2>1 DEF Woken, Working, Locked
<1> QED
  BY <1>1, Invariant, PTL
=============================================================================

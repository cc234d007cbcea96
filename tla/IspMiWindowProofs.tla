-------------------------- MODULE IspMiWindowProofs --------------------------
(***************************************************************************)
(* Proofs about IspMi of the properties that need some of the timing       *)
(* windows closed: no fault, nothing left behind, no buffer forgotten, no  *)
(* write outside the driver's buffers, no half-written frame handed over.  *)
(* They hold for every set of buffers, number of paths and of open         *)
(* handles, and for either link.                                           *)
(*                                                                         *)
(* Each part of the invariant is kept by every step under the windows its  *)
(* lemma names; IInv, at the end, puts the parts together.                 *)
(***************************************************************************)
EXTENDS IspMiProofs, SequenceTheorems, FiniteSetTheorems

USE DEF Paths, Flags, PathConfig, BufOrNull, Shift, Reset, Freed, UpdateNextPath
-----------------------------------------------------------------------------
(***************************************************************************)
(* The ioctl in progress: what it still has to do.                         *)
(***************************************************************************)

\* The step the ioctl in progress is at, and how many steps are left.
Hd == IF todo = <<>> THEN "none" ELSE Head(todo)
Left == Len(todo)

\* The step after l, of the n that are left then: isp_mi_stop ends as part of
\* ISPIOC_MI_STOP, or as the first or the second call in isp_close.
After(l, n) ==
    CASE n = 0 -> "none"
      [] n > 0 /\ l \in {"set_driver", "cfg_upd"} -> "update"
      [] n > 0 /\ l = "update" -> "cfg_upd"
      [] n > 0 /\ l = "clear_driver" -> "clean"
      [] n > 0 /\ l = "stopped" -> "free_irq"
      [] n > 0 /\ l = "free_irq" -> "mi_off"
      [] OTHER -> IF n = 4 THEN "stopped" ELSE "clean"

\* Every point isp_mi_start, isp_mi_stop and isp_close pass.
Points ==
    {<<"none", 0>>, <<"set_driver", 4>>, <<"update", 3>>, <<"cfg_upd", 2>>,
     <<"update", 1>>,
     <<"mi_off", 1>>, <<"clear_driver", 2>>, <<"clean", 1>>, <<"clean_queue", 1>>,
     <<"mi_off", 5>>, <<"clear_driver", 6>>, <<"clean", 5>>, <<"clean_queue", 5>>,
     <<"stopped", 4>>, <<"free_irq", 3>>,
     <<"mi_off", 2>>, <<"clear_driver", 3>>, <<"clean", 2>>, <<"clean_queue", 2>>}

Programmed ==
    /\ <<Hd, Left>> \in Points
    /\ \A k \in 1 .. (Len(todo) - 1) : todo[k + 1] = After(todo[k], Len(todo) - k)

\* The first step of a sequence.
LEMMA FirstStep ==
    ASSUME NEW t \in Seq(StepLabels)
    PROVE  /\ Len(t) \in Nat /\ (t # <<>> <=> Len(t) # 0)
           /\ t # <<>> => Head(t) = t[1] /\ t[1] \in StepLabels
<1>1. Len(t) \in Nat /\ (t # <<>> => Len(t) # 0) /\ Len(<<>>) = 0
  BY EmptySeq
<1> QED
  BY <1>1

\* A step done.
LEMMA TailNext ==
    ASSUME Programmed, todo \in Seq(StepLabels), todo # <<>>, todo' = Tail(todo)
    PROVE  /\ \A k \in 1 .. (Len(todo') - 1) :
                 todo'[k + 1] = After(todo'[k], Len(todo') - k)
           /\ Left' = Left - 1 /\ Left \in Nat
           /\ Hd' = After(Hd, Left - 1)
<1>1. /\ Len(todo) \in Nat \ {0} /\ Len(todo') = Len(todo) - 1
      /\ \A k \in 1 .. Len(todo') : todo'[k] = todo[k + 1]
      /\ Head(todo) = todo[1]
  BY HeadTailProperties
<1>2. \A k \in 1 .. (Len(todo') - 1) : todo'[k + 1] = After(todo'[k], Len(todo') - k)
  <2> SUFFICES ASSUME NEW k \in 1 .. (Len(todo') - 1)
               PROVE  todo'[k + 1] = After(todo'[k], Len(todo') - k)
    OBVIOUS
  <2>1. /\ k \in 1 .. Len(todo') /\ k + 1 \in 1 .. Len(todo')
        /\ k + 1 \in 1 .. (Len(todo) - 1) /\ Len(todo) - (k + 1) = Len(todo') - k
    BY <1>1
  <2> QED
    BY <1>1, <2>1 DEF Programmed
<1>3. CASE Len(todo) = 1
  <2>1. todo' = <<>>
    BY <1>1, <1>3
  <2> QED
    BY <1>1, <1>2, <1>3, <2>1 DEF Left, Hd, After
<1>4. CASE Len(todo) # 1
  <2>0. todo' \in Seq(StepLabels)
    BY HeadTailProperties
  <2>1. todo' # <<>> /\ Head(todo') = todo'[1] /\ 1 \in 1 .. (Len(todo) - 1)
    BY <1>1, <1>4, <2>0, FirstStep
  <2>2. todo'[1] = After(Head(todo), Len(todo) - 1)
    BY <1>1, <1>4, <2>1 DEF Programmed
  <2> QED
    BY <1>1, <1>2, <2>1, <2>2 DEF Left, Hd
<1> QED
  BY <1>3, <1>4

LEMMA TailPoint ==
    ASSUME Programmed, todo \in Seq(StepLabels), todo # <<>>, todo' = Tail(todo)
    PROVE  Programmed' /\ Left' = Left - 1 /\ Hd' = After(Hd, Left - 1)
<1>1. /\ \A k \in 1 .. (Len(todo') - 1) : todo'[k + 1] = After(todo'[k], Len(todo') - k)
      /\ Left' = Left - 1 /\ Left \in Nat
      /\ Hd' = After(Hd, Left - 1)
  BY TailNext
<1>2. Hd # "none"
  BY DEF Hd, StepLabels
<1>3. <<Hd, Left>> \in Points
  BY DEF Programmed
<1>4. <<After(Hd, Left - 1), Left - 1>> \in Points
  BY <1>2, <1>3 DEF Points, After
<1> QED
  BY <1>1, <1>4 DEF Programmed

\* Steps put in front.
LEMMA InFront ==
    ASSUME Programmed, todo \in Seq(StepLabels), todo # <<>>,
           NEW s \in Seq(StepLabels), s # <<>>, todo' = s \o Tail(todo),
           \A k \in 1 .. (Len(s) - 1) : s[k + 1] = After(s[k], Left - 1 + Len(s) - k),
           Left > 1 => todo[2] = After(s[Len(s)], Left - 1)
    PROVE  /\ \A k \in 1 .. (Len(todo') - 1) :
                 todo'[k + 1] = After(todo'[k], Len(todo') - k)
           /\ Left' = Left - 1 + Len(s)
           /\ Hd' = s[1]
<1> DEFINE r == Tail(todo)
<1>1. /\ r \in Seq(StepLabels) /\ Len(todo) \in Nat \ {0} /\ Len(r) = Len(todo) - 1
      /\ \A k \in 1 .. Len(r) : r[k] = todo[k + 1]
  BY HeadTailProperties
<1>2. /\ todo' \in Seq(StepLabels)
      /\ Len(todo') = Len(s) + Len(r) /\ Len(s) \in Nat \ {0} /\ Len(r) \in Nat
      /\ \A k \in 1 .. (Len(s) + Len(r)) :
            todo'[k] = IF k <= Len(s) THEN s[k] ELSE r[k - Len(s)]
  BY <1>1, ConcatProperties
<1>3. todo' # <<>> /\ Head(todo') = todo'[1] /\ 1 \in 1 .. (Len(s) + Len(r)) /\ 1 <= Len(s)
  BY <1>2
<1>4. ASSUME NEW k \in 1 .. (Len(todo') - 1)
      PROVE  todo'[k + 1] = After(todo'[k], Len(todo') - k)
  <2>0. k \in 1 .. (Len(s) + Len(r)) /\ k + 1 \in 1 .. (Len(s) + Len(r))
    BY <1>2
  <2>1. CASE k + 1 <= Len(s)
    <3>1. k \in 1 .. (Len(s) - 1) /\ Left - 1 + Len(s) - k = Len(todo') - k
      BY <1>1, <1>2, <2>1 DEF Left
    <3> QED
      BY <1>2, <2>0, <2>1, <3>1
  <2>2. CASE k = Len(s)
    <3>1. todo'[k] = s[Len(s)] /\ todo'[k + 1] = r[1] /\ r[1] = todo[2]
      BY <1>1, <1>2, <2>0, <2>2
    <3>2. Left > 1 /\ Len(todo') - k = Left - 1
      BY <1>1, <1>2, <2>0, <2>2 DEF Left
    <3> QED
      BY <3>1, <3>2
  <2>3. CASE k > Len(s)
    <3> DEFINE j == k - Len(s) + 1
    <3>1. /\ todo'[k] = r[k - Len(s)] /\ todo'[k + 1] = r[k + 1 - Len(s)]
          /\ k - Len(s) \in 1 .. Len(r) /\ k + 1 - Len(s) \in 1 .. Len(r)
      BY <1>1, <1>2, <2>0, <2>3
    <3>2. todo'[k] = todo[j] /\ todo'[k + 1] = todo[j + 1]
      BY <1>1, <3>1
    <3>3. j \in 1 .. (Len(todo) - 1) /\ Len(todo) - j = Len(todo') - k
      BY <1>1, <1>2, <2>0, <2>3
    <3> QED
      BY <3>2, <3>3 DEF Programmed
  <2> QED
    BY <1>2, <2>1, <2>2, <2>3
<1> QED
  BY <1>1, <1>2, <1>3, <1>4 DEF Hd, Left

LEMMA StopPoint ==
    ASSUME Programmed, todo \in Seq(StepLabels), Hd = "mi_off",
           todo' = <<"clear_driver", "clean">> \o Tail(todo)
    PROVE  Programmed' /\ Left' = Left + 1 /\ Hd' = "clear_driver"
<1> DEFINE s == <<"clear_driver", "clean">>
<1>0. /\ todo # <<>> /\ Len(todo) \in Nat \ {0}
      /\ Head(todo) = todo[1] /\ Left \in Nat \ {0}
      /\ <<"mi_off", Left>> \in Points /\ todo[1] = "mi_off"
  <2>1. todo # <<>> /\ Head(todo) = "mi_off"
    BY DEF Hd
  <2> QED
    BY <2>1, FirstStep DEF Hd, Programmed, Left
<1>1. /\ s \in Seq(StepLabels) /\ s # <<>>
      /\ Len(s) = 2 /\ s[1] = "clear_driver" /\ s[2] = "clean"
  BY DEF StepLabels
<1>2. \A k \in 1 .. (Len(s) - 1) : s[k + 1] = After(s[k], Left - 1 + Len(s) - k)
  <2>1. After("clear_driver", Left - 1 + 2 - 1) = "clean"
    BY <1>0 DEF After
  <2>2. \A k \in 1 .. (2 - 1) : k = 1
    OBVIOUS
  <2> QED
    BY <1>1, <2>1, <2>2
<1>3. Left > 1 => todo[2] = After(s[Len(s)], Left - 1)
  <2>1. Left > 1 => 1 \in 1 .. (Len(todo) - 1)
    BY <1>0 DEF Left
  <2>2. Left > 1 => todo[2] = After("mi_off", Left - 1)
    BY <1>0, <2>1 DEF Programmed, Left
  <2>3. Left > 1 => After("mi_off", Left - 1) = After("clean", Left - 1)
    BY <1>0 DEF After
  <2> QED
    BY <1>1, <2>2, <2>3
<1>4. todo' = s \o Tail(todo)
  OBVIOUS
<1> HIDE DEF s
<1>5. /\ \A k \in 1 .. (Len(todo') - 1) : todo'[k + 1] = After(todo'[k], Len(todo') - k)
      /\ Left' = Left - 1 + 2 /\ Hd' = "clear_driver"
  BY <1>0, <1>1, <1>2, <1>3, <1>4, InFront
<1>6. <<"clear_driver", Left + 1>> \in Points
  BY <1>0 DEF Points
<1> QED
  BY <1>0, <1>5, <1>6 DEF Programmed

LEMMA QueuePoint ==
    ASSUME Programmed, todo \in Seq(StepLabels), Hd = "clean",
           todo' = <<"clean_queue">> \o Tail(todo)
    PROVE  Programmed' /\ Left' = Left /\ Hd' = "clean_queue"
<1> DEFINE s == <<"clean_queue">>
<1>0. /\ todo # <<>> /\ Len(todo) \in Nat \ {0}
      /\ Head(todo) = todo[1] /\ Left \in Nat \ {0}
      /\ <<"clean", Left>> \in Points /\ todo[1] = "clean"
  <2>1. todo # <<>> /\ Head(todo) = "clean"
    BY DEF Hd
  <2> QED
    BY <2>1, FirstStep DEF Hd, Programmed, Left
<1>1. s \in Seq(StepLabels) /\ s # <<>> /\ Len(s) = 1 /\ s[1] = "clean_queue"
  BY DEF StepLabels
<1>2. \A k \in 1 .. (Len(s) - 1) : s[k + 1] = After(s[k], Left - 1 + Len(s) - k)
  BY <1>1
<1>3. Left > 1 => todo[2] = After(s[Len(s)], Left - 1)
  <2>1. Left > 1 => 1 \in 1 .. (Len(todo) - 1)
    BY <1>0 DEF Left
  <2>2. Left > 1 => todo[2] = After("clean", Left - 1)
    BY <1>0, <2>1 DEF Programmed, Left
  <2>3. Left > 1 => After("clean_queue", Left - 1) = After("clean", Left - 1)
    BY <1>0 DEF After
  <2> QED
    BY <1>1, <2>2, <2>3
<1>4. todo' = s \o Tail(todo)
  OBVIOUS
<1> HIDE DEF s
<1>5. /\ \A k \in 1 .. (Len(todo') - 1) : todo'[k + 1] = After(todo'[k], Len(todo') - k)
      /\ Left' = Left - 1 + 1 /\ Hd' = "clean_queue"
  BY <1>0, <1>1, <1>2, <1>3, <1>4, InFront
<1>6. <<"clean_queue", Left>> \in Points
  BY <1>0 DEF Points
<1> QED
  BY <1>0, <1>5, <1>6 DEF Programmed

\* Where isp_mi_start, isp_mi_stop and isp_close begin.
LEMMA StartPoint == todo' = StartSteps => Programmed' /\ Hd' = "set_driver" /\ Left' = 4
<1> SUFFICES ASSUME todo' = StartSteps PROVE Programmed' /\ Hd' = "set_driver" /\ Left' = 4
  OBVIOUS
<1>1. /\ Len(todo') = 4 /\ todo' # <<>> /\ Head(todo') = "set_driver"
      /\ todo'[1] = "set_driver" /\ todo'[2] = "update"
      /\ todo'[3] = "cfg_upd" /\ todo'[4] = "update"
  BY DEF StartSteps
<1>2. \A k \in 1 .. (4 - 1) : k \in {1, 2, 3}
  OBVIOUS
<1>3. Programmed'
  BY <1>1, <1>2 DEF Programmed, Hd, Left, After, Points
<1> QED
  BY <1>1, <1>3 DEF Hd, Left

LEMMA MiStopPoint == todo' = StopSteps => Programmed' /\ Hd' = "mi_off" /\ Left' = 1
<1> SUFFICES ASSUME todo' = StopSteps PROVE Programmed' /\ Hd' = "mi_off" /\ Left' = 1
  OBVIOUS
<1>1. Len(todo') = 1 /\ todo' # <<>> /\ Head(todo') = "mi_off"
  BY DEF StopSteps
<1>3. Programmed'
  BY <1>1 DEF Programmed, Hd, Left, Points
<1> QED
  BY <1>1, <1>3 DEF Hd, Left

LEMMA ClosePoint ==
    todo' = CloseSteps =>
        /\ Programmed'
        /\ "driver" \in state => Hd' = "mi_off" /\ Left' = 5
        /\ "driver" \notin state => Hd' = "stopped" /\ Left' = 4
<1> SUFFICES ASSUME todo' = CloseSteps
             PROVE  /\ Programmed'
                    /\ "driver" \in state => Hd' = "mi_off" /\ Left' = 5
                    /\ "driver" \notin state => Hd' = "stopped" /\ Left' = 4
  OBVIOUS
<1> DEFINE a == IF "driver" \in state THEN StopSteps ELSE <<>>
           b == <<"stopped", "free_irq">>
           c == StopSteps
           d == <<"clean">>
           n == IF "driver" \in state THEN 1 ELSE 0
<1>1. /\ a \in Seq(StepLabels) /\ Len(a) = n
      /\ b \in Seq(StepLabels) /\ Len(b) = 2 /\ b[1] = "stopped" /\ b[2] = "free_irq"
      /\ c \in Seq(StepLabels) /\ Len(c) = 1 /\ c[1] = "mi_off"
      /\ d \in Seq(StepLabels) /\ Len(d) = 1 /\ d[1] = "clean"
      /\ n \in {0, 1} /\ (n = 1 <=> "driver" \in state)
      /\ (n = 1 => a[1] = "mi_off")
  <2>1. /\ b \in Seq(StepLabels) /\ Len(b) = 2 /\ b[1] = "stopped" /\ b[2] = "free_irq"
        /\ c \in Seq(StepLabels) /\ Len(c) = 1 /\ c[1] = "mi_off"
        /\ d \in Seq(StepLabels) /\ Len(d) = 1 /\ d[1] = "clean"
    BY DEF StopSteps, StepLabels
  <2>2. CASE "driver" \in state
    BY <2>1, <2>2
  <2>3. CASE "driver" \notin state
    BY <2>1, <2>3, EmptySeq
  <2> QED
    BY <2>1, <2>2, <2>3
<1>2. todo' = ((a \o b) \o c) \o d
  BY DEF CloseSteps
<1> HIDE DEF a, b, c, d, n
<1>3. /\ a \o b \in Seq(StepLabels) /\ Len(a \o b) = n + 2
      /\ n = 1 => (a \o b)[1] = "mi_off"
      /\ (a \o b)[n + 1] = "stopped" /\ (a \o b)[n + 2] = "free_irq"
  <2>0. /\ a \in Seq(StepLabels) /\ b \in Seq(StepLabels)
        /\ Len(a) = n /\ Len(b) = 2 /\ n \in Nat
    BY <1>1
  <2>3. /\ a \o b \in Seq(StepLabels) /\ Len(a \o b) = Len(a) + Len(b)
        /\ \A k \in 1 .. Len(a) + Len(b) :
              (a \o b)[k] = IF k <= Len(a) THEN a[k] ELSE b[k - Len(a)]
    BY <2>0, ConcatProperties
  <2>1. /\ a \o b \in Seq(StepLabels) /\ Len(a \o b) = n + 2
        /\ \A k \in 1 .. (n + 2) : (a \o b)[k] = IF k <= n THEN (a)[k] ELSE b[k - (n)]
    BY <2>0, <2>3
  <2>2. /\ n + 1 \in 1 .. (n + 2) /\ n + 2 \in 1 .. (n + 2) /\ 1 \in 1 .. (n + 2)
        /\ ~(n + 1 <= n) /\ ~(n + 2 <= n) /\ (n + 1) - n = 1 /\ (n + 2) - n = 2
    BY <1>1
  <2> QED
    BY <1>1, <2>1, <2>2
<1>4. /\ (a \o b) \o c \in Seq(StepLabels) /\ Len((a \o b) \o c) = n + 3
      /\ n = 1 => ((a \o b) \o c)[1] = "mi_off"
      /\ ((a \o b) \o c)[n + 1] = "stopped" /\ ((a \o b) \o c)[n + 2] = "free_irq"
      /\ ((a \o b) \o c)[n + 3] = "mi_off"
  <2>1. /\ (a \o b) \o c \in Seq(StepLabels) /\ Len((a \o b) \o c) = (n + 2) + 1
        /\ \A k \in 1 .. ((n + 2) + 1) :
              ((a \o b) \o c)[k] = IF k <= n + 2 THEN (a \o b)[k] ELSE c[k - (n + 2)]
    BY <1>1, <1>3, ConcatProperties
  <2>2. /\ \A k \in {1, n + 1, n + 2} : k \in 1 .. (n + 2 + 1) /\ k <= n + 2
        /\ n + 3 \in 1 .. (n + 2 + 1) /\ ~(n + 3 <= n + 2) /\ (n + 3) - (n + 2) = 1
    BY <1>1
  <2> QED
    BY <1>1, <1>3, <2>1, <2>2
<1>5. /\ todo' \in Seq(StepLabels) /\ Len(todo') = n + 4
      /\ n = 1 => todo'[1] = "mi_off"
      /\ todo'[n + 1] = "stopped" /\ todo'[n + 2] = "free_irq"
      /\ todo'[n + 3] = "mi_off" /\ todo'[n + 4] = "clean"
  BY <1>1, <1>2, <1>4, ConcatProperties
<1>6. Hd' = todo'[1] /\ Left' = n + 4
  BY <1>1, <1>5, FirstStep DEF Hd, Left
<1>7. CASE "driver" \in state
  <2>1. \A k \in 1 .. (5 - 1) : k \in {1, 2, 3, 4}
    OBVIOUS
  <2>2. Len(todo') = 5 /\ n = 1
    BY <1>1, <1>5, <1>7
  <2> QED
    BY <1>5, <1>6, <1>7, <2>1, <2>2 DEF Programmed, After, Points
<1>8. CASE "driver" \notin state
  <2>1. \A k \in 1 .. (4 - 1) : k \in {1, 2, 3}
    OBVIOUS
  <2>2. Len(todo') = 4 /\ n = 0
    BY <1>1, <1>5, <1>8
  <2> QED
    BY <1>5, <1>6, <1>8, <2>1, <2>2 DEF Programmed, After, Points
<1> QED
  BY <1>7, <1>8

LEMMA NonePoint == todo' = <<>> => Programmed' /\ Hd' = "none" /\ Left' = 0
BY EmptySeq DEF Programmed, Hd, Left, Points
\* What each step of an ioctl leaves to do.
LEMMA Moves ==
    ASSUME TypeOK, Programmed
    PROVE  /\ UNCHANGED todo => Hd' = Hd /\ Left' = Left
           /\ MiStart => Hd = "none" /\ Hd' = "set_driver" /\ Left' = 4
           /\ MiStop => Hd = "none" /\ Hd' = "mi_off" /\ Left' = 1
           /\ Close =>
                 /\ Hd = "none"
                 /\ refcnt = 1 /\ "driver" \in state => Hd' = "mi_off" /\ Left' = 5
                 /\ refcnt = 1 /\ "driver" \notin state => Hd' = "stopped" /\ Left' = 4
                 /\ refcnt # 1 => Hd' = "none" /\ Left' = 0
           /\ SetDriver => Hd = "set_driver" /\ Hd' = "update" /\ Left' = 3
           /\ UpdateCall =>
                 /\ Hd = "update"
                 /\ \/ Left = 3 /\ Hd' = "cfg_upd" /\ Left' = 2
                    \/ Left = 1 /\ Hd' = "none" /\ Left' = 0
           /\ CfgUpd => Hd = "cfg_upd" /\ Hd' = "update" /\ Left' = 1
           /\ MiOff =>
                 /\ Hd = "mi_off"
                 /\ "driver" \in state => Hd' = "clear_driver" /\ Left' = Left + 1
                 /\ "driver" \notin state =>
                       \/ Left = 1 /\ Hd' = "none" /\ Left' = 0
                       \/ Left = 2 /\ Hd' = "clean" /\ Left' = 1
                       \/ Left = 5 /\ Hd' = "stopped" /\ Left' = 4
           /\ ClearDriver => Hd = "clear_driver" /\ Hd' = "clean" /\ Left' = Left - 1
           /\ CleanVideo \/ CleanVideoRaced =>
                 Hd = "clean" /\ Hd' = "clean_queue" /\ Left' = Left
           /\ CleanQueue \/ CleanDwe =>
                 /\ Hd \in {"clean", "clean_queue"}
                 /\ CleanDwe => Hd = "clean"
                 /\ CleanQueue => Hd = "clean_queue"
                 /\ \/ Left = 1 /\ Hd' = "none" /\ Left' = 0
                    \/ Left = 2 /\ Hd' = "clean" /\ Left' = 1
                    \/ Left = 5 /\ Hd' = "stopped" /\ Left' = 4
           /\ Stopped => Hd = "stopped" /\ Left = 4 /\ Hd' = "free_irq" /\ Left' = 3
           /\ FreeIrq => Hd = "free_irq" /\ Left = 3 /\ Hd' = "mi_off" /\ Left' = 2
<1>1. todo \in Seq(StepLabels) /\ <<Hd, Left>> \in Points
  BY DEF TypeOK, Programmed
<1>2. ASSUME todo # <<>>, todo' = Tail(todo)
      PROVE  Left' = Left - 1 /\ Hd' = After(Hd, Left - 1)
  BY <1>1, <1>2, TailPoint
<1>3. \A l \in StepLabels : At(l) => todo # <<>> /\ Hd = l
  BY DEF At, Hd
<1>4. todo = <<>> => Hd = "none"
  BY DEF Hd
<1>5. UNCHANGED todo => Hd' = Hd /\ Left' = Left
  BY DEF Hd, Left
<1>6. MiStart => Hd = "none" /\ Hd' = "set_driver" /\ Left' = 4
  BY <1>4, StartPoint DEF MiStart, Idle
<1>7. MiStop => Hd = "none" /\ Hd' = "mi_off" /\ Left' = 1
  BY <1>4, MiStopPoint DEF MiStop, Idle
<1>8. Close =>
        /\ Hd = "none"
        /\ refcnt = 1 /\ "driver" \in state => Hd' = "mi_off" /\ Left' = 5
        /\ refcnt = 1 /\ "driver" \notin state => Hd' = "stopped" /\ Left' = 4
        /\ refcnt # 1 => Hd' = "none" /\ Left' = 0
  BY <1>4, ClosePoint, NonePoint DEF Close, Idle
<1>9. SetDriver => Hd = "set_driver" /\ Hd' = "update" /\ Left' = 3
  <2> SUFFICES ASSUME SetDriver PROVE Hd = "set_driver" /\ Hd' = "update" /\ Left' = 3
    OBVIOUS
  <2>1. Hd = "set_driver" /\ todo # <<>> /\ todo' = Tail(todo)
    BY <1>3 DEF SetDriver, StepLabels
  <2> QED
    BY <1>1, <1>2, <2>1 DEF Points, After
<1>10. UpdateCall =>
        /\ Hd = "update"
        /\ \/ Left = 3 /\ Hd' = "cfg_upd" /\ Left' = 2
           \/ Left = 1 /\ Hd' = "none" /\ Left' = 0
  <2> SUFFICES ASSUME UpdateCall
               PROVE  /\ Hd = "update"
                      /\ \/ Left = 3 /\ Hd' = "cfg_upd" /\ Left' = 2
                         \/ Left = 1 /\ Hd' = "none" /\ Left' = 0
    OBVIOUS
  <2>1. Hd = "update" /\ todo # <<>> /\ todo' = Tail(todo)
    BY <1>3 DEF UpdateCall, StepLabels
  <2> QED
    BY <1>1, <1>2, <2>1 DEF Points, After
<1>11. CfgUpd =>
        /\ Hd = "cfg_upd" /\ Hd' = "update" /\ Left' = 1
  <2> SUFFICES ASSUME CfgUpd
               PROVE  /\ Hd = "cfg_upd" /\ Hd' = "update" /\ Left' = 1
    OBVIOUS
  <2>1. Hd = "cfg_upd" /\ todo # <<>> /\ todo' = Tail(todo)
    BY <1>3 DEF CfgUpd, StepLabels
  <2> QED
    BY <1>1, <1>2, <2>1 DEF Points, After
<1>12. ClearDriver =>
        /\ Hd = "clear_driver" /\ Hd' = "clean" /\ Left' = Left - 1
  <2> SUFFICES ASSUME ClearDriver
               PROVE  /\ Hd = "clear_driver" /\ Hd' = "clean" /\ Left' = Left - 1
    OBVIOUS
  <2>1. Hd = "clear_driver" /\ todo # <<>> /\ todo' = Tail(todo)
    BY <1>3 DEF ClearDriver, StepLabels
  <2> QED
    BY <1>1, <1>2, <2>1 DEF Points, After
<1>13. CleanQueue =>
        /\ Hd = "clean_queue"
        /\ \/ Left = 1 /\ Hd' = "none" /\ Left' = 0
           \/ Left = 2 /\ Hd' = "clean" /\ Left' = 1
           \/ Left = 5 /\ Hd' = "stopped" /\ Left' = 4
  <2> SUFFICES ASSUME CleanQueue
               PROVE  /\ Hd = "clean_queue"
                      /\ \/ Left = 1 /\ Hd' = "none" /\ Left' = 0
                         \/ Left = 2 /\ Hd' = "clean" /\ Left' = 1
                         \/ Left = 5 /\ Hd' = "stopped" /\ Left' = 4
    OBVIOUS
  <2>1. Hd = "clean_queue" /\ todo # <<>> /\ todo' = Tail(todo)
    BY <1>3 DEF CleanQueue, StepLabels
  <2> QED
    BY <1>1, <1>2, <2>1 DEF Points, After
<1>14. CleanDwe =>
        /\ Hd = "clean"
        /\ \/ Left = 1 /\ Hd' = "none" /\ Left' = 0
           \/ Left = 2 /\ Hd' = "clean" /\ Left' = 1
           \/ Left = 5 /\ Hd' = "stopped" /\ Left' = 4
  <2> SUFFICES ASSUME CleanDwe
               PROVE  /\ Hd = "clean"
                      /\ \/ Left = 1 /\ Hd' = "none" /\ Left' = 0
                         \/ Left = 2 /\ Hd' = "clean" /\ Left' = 1
                         \/ Left = 5 /\ Hd' = "stopped" /\ Left' = 4
    OBVIOUS
  <2>1. Hd = "clean" /\ todo # <<>> /\ todo' = Tail(todo)
    BY <1>3 DEF CleanDwe, StepLabels
  <2> QED
    BY <1>1, <1>2, <2>1 DEF Points, After
<1>15. Stopped =>
        /\ Hd = "stopped" /\ Left = 4 /\ Hd' = "free_irq" /\ Left' = 3
  <2> SUFFICES ASSUME Stopped
               PROVE  /\ Hd = "stopped" /\ Left = 4 /\ Hd' = "free_irq" /\ Left' = 3
    OBVIOUS
  <2>1. Hd = "stopped" /\ todo # <<>> /\ todo' = Tail(todo)
    BY <1>3 DEF Stopped, StepLabels
  <2> QED
    BY <1>1, <1>2, <2>1 DEF Points, After
<1>16. FreeIrq =>
        /\ Hd = "free_irq" /\ Left = 3 /\ Hd' = "mi_off" /\ Left' = 2
  <2> SUFFICES ASSUME FreeIrq
               PROVE  /\ Hd = "free_irq" /\ Left = 3 /\ Hd' = "mi_off" /\ Left' = 2
    OBVIOUS
  <2>1. Hd = "free_irq" /\ todo # <<>> /\ todo' = Tail(todo)
    BY <1>3 DEF FreeIrq, StepLabels
  <2> QED
    BY <1>1, <1>2, <2>1 DEF Points, After
<1>20. MiOff =>
        /\ Hd = "mi_off"
        /\ "driver" \in state => Hd' = "clear_driver" /\ Left' = Left + 1
        /\ "driver" \notin state =>
              \/ Left = 1 /\ Hd' = "none" /\ Left' = 0
              \/ Left = 2 /\ Hd' = "clean" /\ Left' = 1
              \/ Left = 5 /\ Hd' = "stopped" /\ Left' = 4
  <2> SUFFICES ASSUME MiOff
               PROVE  /\ Hd = "mi_off"
                      /\ "driver" \in state => Hd' = "clear_driver" /\ Left' = Left + 1
                      /\ "driver" \notin state =>
                            \/ Left = 1 /\ Hd' = "none" /\ Left' = 0
                            \/ Left = 2 /\ Hd' = "clean" /\ Left' = 1
                            \/ Left = 5 /\ Hd' = "stopped" /\ Left' = 4
    OBVIOUS
  <2>1. Hd = "mi_off" /\ todo # <<>>
    BY <1>3 DEF MiOff, StepLabels
  <2>2. CASE "driver" \in state
    BY <1>1, <2>1, <2>2, StopPoint DEF MiOff
  <2>3. CASE "driver" \notin state
    BY <1>1, <1>2, <2>1, <2>3 DEF MiOff, Points, After
  <2> QED
    BY <2>1, <2>2, <2>3
<1>21. CleanVideo \/ CleanVideoRaced =>
         Hd = "clean" /\ Hd' = "clean_queue" /\ Left' = Left
  <2> SUFFICES ASSUME CleanVideo \/ CleanVideoRaced
               PROVE  Hd = "clean" /\ Hd' = "clean_queue" /\ Left' = Left
    OBVIOUS
  <2>1. Hd = "clean" /\ todo' = <<"clean_queue">> \o Tail(todo)
    BY <1>3 DEF CleanVideo, CleanVideoRaced, StepLabels
  <2> QED
    BY <1>1, <2>1, QueuePoint
<1> QED
  BY <1>5, <1>6, <1>7, <1>8, <1>9, <1>10, <1>11, <1>12, <1>13, <1>14, <1>15, <1>16, <1>20,
     <1>21

\* Every step leaves a program to run.
LEMMA ProgramStep ==
    ASSUME TypeOK, Programmed, [Next]_vars
    PROVE  Programmed'
<1>0. todo \in Seq(StepLabels)
  BY DEF TypeOK
<1>1. CASE UNCHANGED todo
  BY <1>1 DEF Programmed, Hd, Left
<1>2. CASE todo # <<>> /\ todo' = Tail(todo)
  BY <1>0, <1>2, TailPoint
<1>3. CASE MiStart
  BY <1>3, StartPoint DEF MiStart
<1>4. CASE MiStop
  BY <1>4, MiStopPoint DEF MiStop
<1>5. CASE Close
  BY <1>5, ClosePoint, NonePoint DEF Close
<1>6. CASE MiOff
  <2>1. Hd = "mi_off" /\ todo # <<>>
    BY <1>6 DEF MiOff, At, Hd
  <2>2. CASE "driver" \in state
    BY <1>0, <1>6, <2>1, <2>2, StopPoint DEF MiOff
  <2>3. CASE "driver" \notin state
    BY <1>0, <1>6, <2>1, <2>3, TailPoint DEF MiOff
  <2> QED
    BY <2>2, <2>3
<1>7. CASE CleanVideo \/ CleanVideoRaced
  <2>1. Hd = "clean" /\ todo' = <<"clean_queue">> \o Tail(todo)
    BY <1>7 DEF CleanVideo, CleanVideoRaced, At, Hd
  <2> QED
    BY <1>0, <2>1, QueuePoint
<1>8. CASE \/ SetDriver \/ UpdateCall \/ CfgUpd \/ ClearDriver
           \/ CleanQueue \/ CleanDwe \/ Stopped \/ FreeIrq
  <2>1. todo # <<>> /\ todo' = Tail(todo)
    BY <1>8 DEF SetDriver, UpdateCall, CfgUpd, ClearDriver, CleanQueue, CleanDwe,
         Stopped, FreeIrq, At
  <2> QED
    BY <1>2, <2>1
<1>9. CASE \/ \E p \in Paths : FrameEnd(p)
           \/ HwIsr \/ IsrLock \/ IsrTest \/ IsrDeliver \/ Tasklet \/ UpdatePath
           \/ Open \/ (\E b \in Bufs : SetBuffer(b)) \/ (\E b \in Bufs : Notify(b) \/ NotifyPush(b))
           \/ \E next \in {"set", "clear"} : SetStream(next)
           \/ StreamWrite \/ ReturnAll \/ UNCHANGED vars
  <2>1. UNCHANGED todo
    BY <1>9 DEF FrameEnd, HwIsr, IsrLock, IsrTest, IsrDeliver, Tasklet, UpdatePath,
         Open, SetBuffer, Notify, NotifyPush, SetStream, StreamWrite, ReturnAll, vars, proc
  <2> QED
    BY <1>1, <2>1
<1> QED
  BY <1>3, <1>4, <1>5, <1>6, <1>7, <1>8, <1>9
     DEF Next, IsrStep, Ioctl, IoctlStep, RemoteStep

-----------------------------------------------------------------------------
(***************************************************************************)
(* isp_mi_start, isp_mi_stop and isp_close, step by step.                  *)
(***************************************************************************)

\* isp_mi_start has begun; the steps of isp_mi_stop that follow mi_off.
Starting == Hd \in {"set_driver", "update", "cfg_upd"} \/ lock = "ioctl"
Cleaning == Hd \in {"clear_driver", "clean", "clean_queue"}

\* isp_mi_start waits for the update it began, isp_mi_stop cleans up behind
\* paths it has stopped.
Sequenced ==
    /\ Programmed
    /\ lock = "ioctl" => Hd \in {"cfg_upd", "none"}
    /\ Cleaning => hwOn = {}
    /\ Hd = "clean_queue" => ToVideo

\* isp_mi_stop's clean-up always follows its stopping the paths.
LEMMA SequencedStep ==
    ASSUME TypeOK, Sequenced, [Next]_vars
    PROVE  Sequenced'
<1>p. Programmed' /\ ToVideo' = ToVideo
  BY ProgramStep, EnvFixed DEF Sequenced
<1>a. ASSUME UNCHANGED <<todo, lock, hwOn>> PROVE Sequenced'
  BY <1>a, <1>p DEF Sequenced, Programmed, Cleaning, Hd, Left
<1>1. CASE IsrLock
  <2>m. Hd' = Hd /\ (lock' = "ioctl" => lock = "ioctl")
    BY <1>1, Moves DEF Sequenced, IsrLock, irq, proc
  <2>1. hwOn' = hwOn
    BY <1>1 DEF IsrLock, hw
  <2> QED
    BY <1>p, <2>m, <2>1 DEF Sequenced, Cleaning
<1>2. CASE IsrTest
  <2>m. Hd' = Hd /\ (lock' = "ioctl" => lock = "ioctl")
    BY <1>2, Moves DEF Sequenced, IsrTest, IsrNextPath, irq, proc
  <2>1. hwOn' = hwOn
    BY <1>2 DEF IsrTest, hw
  <2> QED
    BY <1>p, <2>m, <2>1 DEF Sequenced, Cleaning
<1>3. CASE IsrDeliver
  <2>m. Hd' = Hd /\ (lock' = "ioctl" => lock = "ioctl")
    BY <1>3, Moves DEF Sequenced, IsrDeliver, IsrNextPath, irq, proc
  <2>1. hwOn' = hwOn
    BY <1>3 DEF IsrDeliver, hw
  <2> QED
    BY <1>p, <2>m, <2>1 DEF Sequenced, Cleaning
<1>4. CASE Tasklet
  <2>m. Hd' = Hd /\ (lock' = "ioctl" => lock = "ioctl")
    BY <1>4, Moves DEF Sequenced, Tasklet, irq, proc
  <2>1. hwOn' = hwOn
    BY <1>4 DEF Tasklet, hw
  <2> QED
    BY <1>p, <2>m, <2>1 DEF Sequenced, Cleaning
<1>5. CASE UpdatePath
  <2>m. Hd' = Hd
    BY <1>5, Moves DEF Sequenced, UpdatePath, proc
  <2>3. UpdateNextPath
    BY <1>5 DEF UpdatePath
  <2>2. lock' = "ioctl" => lock = "ioctl"
    BY <2>3
  <2>1. hwOn' = hwOn
    BY <1>5 DEF UpdatePath
  <2> QED
    BY <1>p, <2>m, <2>1, <2>2 DEF Sequenced, Cleaning
<1>6. CASE MiStart
  <2>1. Hd' = "set_driver"
    BY <1>6, Moves DEF Sequenced, Cleaning
  <2>2. lock' = lock /\ lock # "ioctl"
    BY <1>6 DEF MiStart, At, Idle, irq
  <2>3. hwOn' = hwOn
    BY <1>6 DEF MiStart, hw
  <2> QED
    BY <1>p, <2>1, <2>2, <2>3 DEF Sequenced, Cleaning
<1>7. CASE MiStop
  <2>1. Hd' = "mi_off"
    BY <1>7, Moves DEF Sequenced, Cleaning
  <2>2. lock' = lock /\ lock # "ioctl"
    BY <1>7 DEF MiStop, At, Idle, irq
  <2>3. hwOn' = hwOn
    BY <1>7 DEF MiStop, hw
  <2> QED
    BY <1>p, <2>1, <2>2, <2>3 DEF Sequenced, Cleaning
<1>8. CASE Close
  <2>1. Hd' \in {"mi_off", "stopped", "none"}
    BY <1>8, Moves DEF Sequenced, Cleaning
  <2>2. lock' = lock /\ lock # "ioctl"
    BY <1>8 DEF Close, At, Idle, irq
  <2>3. hwOn' = hwOn
    BY <1>8 DEF Close, hw
  <2> QED
    BY <1>p, <2>1, <2>2, <2>3 DEF Sequenced, Cleaning
<1>9. CASE SetDriver
  <2>1. Hd' = "update"
    BY <1>9, Moves DEF Sequenced, Cleaning
  <2>2. lock' = lock /\ lock # "ioctl"
    BY <1>9 DEF SetDriver, At, Idle, irq
  <2>3. hwOn' = hwOn
    BY <1>9 DEF SetDriver, hw
  <2> QED
    BY <1>p, <2>1, <2>2, <2>3 DEF Sequenced, Cleaning
<1>10. CASE UpdateCall
  <2>1. Hd' \in {"cfg_upd", "none"}
    BY <1>10, Moves DEF Sequenced, Cleaning
  <2>2. lock = "free"
    BY <1>10 DEF UpdateCall, At, Idle, irq
  <2>3. hwOn' = hwOn
    BY <1>10 DEF UpdateCall, hw
  <2> QED
    BY <1>p, <2>1, <2>2, <2>3 DEF Sequenced, Cleaning
<1>11. CASE CfgUpd
  <2>1. Hd' = "update"
    BY <1>11, Moves DEF Sequenced
  <2>2. lock' = lock /\ lock # "ioctl"
    BY <1>11 DEF CfgUpd, At, irq
  <2> QED
    BY <1>p, <2>1, <2>2 DEF Sequenced, Cleaning
<1>12. CASE MiOff
  <2>1. Hd' # "clean_queue"
    BY <1>12, Moves DEF Sequenced, Cleaning
  <2>2. lock' = lock /\ lock # "ioctl"
    BY <1>12 DEF MiOff, At, Idle, irq
  <2>3. hwOn' = {}
    BY <1>12 DEF MiOff, hw
  <2> QED
    BY <1>p, <2>1, <2>2, <2>3 DEF Sequenced, Cleaning
<1>13. CASE ClearDriver
  <2>1. Cleaning /\ Hd' = "clean"
    BY <1>13, Moves DEF Sequenced, Cleaning
  <2>2. lock' = lock /\ lock # "ioctl"
    BY <1>13 DEF ClearDriver, At, Idle, irq
  <2>3. hwOn' = hwOn
    BY <1>13 DEF ClearDriver, hw
  <2> QED
    BY <1>p, <2>1, <2>2, <2>3 DEF Sequenced, Cleaning
<1>14. CASE CleanVideo
  <2>1. Cleaning /\ ToVideo
    BY <1>14, Moves DEF Sequenced, Cleaning, CleanVideo
  <2>2. lock' = lock /\ lock # "ioctl"
    BY <1>14 DEF CleanVideo, At, Idle, irq
  <2>3. hwOn' = hwOn
    BY <1>14 DEF CleanVideo, hw
  <2> QED
    BY <1>p, <2>1, <2>2, <2>3 DEF Sequenced, Cleaning
<1>15. CASE CleanVideoRaced
  <2>1. Cleaning /\ ToVideo
    BY <1>15, Moves DEF Sequenced, Cleaning, CleanVideoRaced
  <2>4. lock = "tasklet" /\ UpdateNextPath
    BY <1>15 DEF CleanVideoRaced
  <2>2. (lock' = "ioctl" => lock = "ioctl") /\ lock # "ioctl"
    BY <2>4
  <2>3. hwOn' = hwOn
    BY <1>15 DEF CleanVideoRaced, hw
  <2> QED
    BY <1>p, <2>1, <2>2, <2>3 DEF Sequenced, Cleaning
<1>16. CASE CleanQueue
  <2>1. Cleaning /\ Hd' # "clean_queue"
    BY <1>16, Moves DEF Sequenced, Cleaning
  <2>2. lock' = lock /\ lock # "ioctl"
    BY <1>16 DEF CleanQueue, At, Idle, irq
  <2>3. hwOn' = hwOn
    BY <1>16 DEF CleanQueue, hw
  <2> QED
    BY <1>p, <2>1, <2>2, <2>3 DEF Sequenced, Cleaning
<1>17. CASE CleanDwe
  <2>1. Cleaning /\ Hd' # "clean_queue"
    BY <1>17, Moves DEF Sequenced, Cleaning
  <2>2. lock' = lock /\ lock # "ioctl"
    BY <1>17 DEF CleanDwe, At, Idle, irq
  <2>3. hwOn' = hwOn
    BY <1>17 DEF CleanDwe, hw
  <2> QED
    BY <1>p, <2>1, <2>2, <2>3 DEF Sequenced, Cleaning
<1>18. CASE Stopped
  <2>1. Hd' = "free_irq"
    BY <1>18, Moves DEF Sequenced, Cleaning
  <2>2. lock' = lock /\ lock # "ioctl"
    BY <1>18 DEF Stopped, At, Idle, irq
  <2>3. hwOn' = hwOn
    BY <1>18 DEF Stopped, hw
  <2> QED
    BY <1>p, <2>1, <2>2, <2>3 DEF Sequenced, Cleaning
<1>19. CASE FreeIrq
  <2>1. Hd' = "mi_off"
    BY <1>19, Moves DEF Sequenced, Cleaning
  <2>2. lock' = lock /\ lock # "ioctl"
    BY <1>19 DEF FreeIrq, At, Idle, irq
  <2>3. hwOn' = hwOn
    BY <1>19 DEF FreeIrq, hw
  <2> QED
    BY <1>p, <2>1, <2>2, <2>3 DEF Sequenced, Cleaning
<1>20. CASE \/ HwIsr \/ Open \/ StreamWrite \/ ReturnAll
            \/ \E p \in Paths : FrameEnd(p)
            \/ \E b \in Bufs : SetBuffer(b)
            \/ \E b \in Bufs : Notify(b) \/ NotifyPush(b)
            \/ \E next \in {"set", "clear"} : SetStream(next)
            \/ UNCHANGED vars
  <2>1. UNCHANGED <<todo, lock, hwOn>>
    BY <1>20 DEF FrameEnd, HwIsr, Open, SetBuffer, Notify, NotifyPush, SetStream, StreamWrite,
       ReturnAll, vars, dev, bufs, hw, irq, proc, stream
  <2> QED
    BY <2>1, <1>a
<1> QED
  BY <1>1, <1>2, <1>3, <1>4, <1>5, <1>6, <1>7, <1>8, <1>9, <1>10, <1>11, <1>12, <1>13,
     <1>14, <1>15, <1>16, <1>17, <1>18, <1>19, <1>20
     DEF Next, IsrStep, Ioctl, IoctlStep, RemoteStep

\* Paths stopped with no frame end left to handle leave none behind.
QuietClean == Cleaning => ~FramePending

\* isp_device.state tells the truth about STATE_DRIVER_STARTED.
Truthful ==
    /\ spc \in {"set", "clear"} => ("driver" \in sreg <=> "driver" \in state)
    /\ Hd \in {"set_driver", "clear_driver"} => spc \notin {"set", "clear"}
    /\ Hd \in {"update", "cfg_upd"} \/ lock = "ioctl" => "driver" \in state
    /\ Hd \in {"clean", "clean_queue", "stopped"} => "driver" \notin state

\* A stopped driver holds no buffer and waits for no frame end.
Parked ==
    "driver" \notin state /\ Hd # "clean" =>
        hwOn = {} /\ ~FramePending /\ NoPointers /\ lock # "ioctl"

\* The last isp_close, step by step: the paths and the handler ...
LastClose ==
    refcnt = 0 =>
        /\ ~Starting
        /\ ~(Hd = "mi_off" /\ Left = 1) /\ ~(Hd = "clear_driver" /\ Left = 2)
        /\ Left <= 2 \/ (Hd = "clear_driver" /\ Left = 3) => ~irqOn
        /\ Left <= 2 /\ Hd # "mi_off" => hwOn = {}

\* ... and the buffers.
LastClean ==
    refcnt = 0 =>
        /\ Left = 0 \/ (Hd = "clean_queue" /\ Left = 1) => NoPointers
        /\ Left = 0 => dmaqueue = <<>>

\* isp_buf_notify is not about to push a buffer into a closed device.
NoneLate == refcnt = 0 => pushing = {}

\* A stop with no frame end to handle leaves none behind.
LEMMA QuietCleanStep ==
    ASSUME TypeOK, Sequenced, QuietClean, "dirty_stop" \in Closed, [Next]_vars
    PROVE  QuietClean'
<1>p. TypeOK /\ Programmed
  BY DEF Sequenced
<1>a. ASSUME UNCHANGED <<todo, ris, isr, tasklet, lock>> PROVE QuietClean'
  BY <1>a DEF QuietClean, Cleaning, Hd, FramePending
<1>1. ASSUME NEW p \in Paths, FrameEnd(p) PROVE QuietClean'
  <2>1. Hd' = Hd /\ hwOn # {}
    BY <1>1, <1>p, Moves DEF FrameEnd, proc
  <2> QED
    BY <2>1 DEF Sequenced, QuietClean, Cleaning
<1>2. CASE HwIsr
  <2>1. Hd' = Hd
    BY <1>2, <1>p, Moves DEF HwIsr, proc
  <2>2. FramePending
    BY <1>2 DEF HwIsr, FramePending
  <2> QED
    BY <2>1, <2>2 DEF QuietClean, Cleaning
<1>3. CASE IsrLock
  <2>1. Hd' = Hd
    BY <1>3, <1>p, Moves DEF IsrLock, proc
  <2>2. FramePending
    BY <1>3 DEF IsrLock, FramePending
  <2> QED
    BY <2>1, <2>2 DEF QuietClean, Cleaning
<1>4. CASE IsrTest
  <2>1. Hd' = Hd
    BY <1>4, <1>p, Moves DEF IsrTest, proc
  <2>2. FramePending
    BY <1>4 DEF IsrTest, FramePending
  <2> QED
    BY <2>1, <2>2 DEF QuietClean, Cleaning
<1>5. CASE IsrDeliver
  <2>1. Hd' = Hd
    BY <1>5, <1>p, Moves DEF IsrDeliver, proc
  <2>2. FramePending
    BY <1>5 DEF IsrDeliver, FramePending
  <2> QED
    BY <2>1, <2>2 DEF QuietClean, Cleaning
<1>6. CASE Tasklet
  <2>1. Hd' = Hd
    BY <1>6, <1>p, Moves DEF Tasklet, proc
  <2>2. FramePending
    BY <1>6 DEF Tasklet, FramePending
  <2> QED
    BY <2>1, <2>2 DEF QuietClean, Cleaning
<1>7. CASE UpdatePath
  <2>1. Hd' = Hd
    BY <1>7, <1>p, Moves DEF UpdatePath, proc
  <2>2. CASE lock = "tasklet"
    BY <2>1, <2>2 DEF QuietClean, Cleaning, FramePending
  <2>3. CASE lock = "ioctl"
    BY <2>1, <2>3 DEF Sequenced, QuietClean, Cleaning
  <2> QED
    BY <1>7, <2>2, <2>3 DEF UpdatePath
<1>8. CASE MiStart
  <2>1. ~Cleaning'
    BY <1>8, <1>p, Moves DEF Cleaning
  <2> QED
    BY <2>1 DEF QuietClean
<1>9. CASE MiStop
  <2>1. ~Cleaning'
    BY <1>9, <1>p, Moves DEF Cleaning
  <2> QED
    BY <2>1 DEF QuietClean
<1>10. CASE Close
  <2>1. ~Cleaning'
    BY <1>10, <1>p, Moves DEF Cleaning
  <2> QED
    BY <2>1 DEF QuietClean
<1>11. CASE SetDriver
  <2>1. ~Cleaning'
    BY <1>11, <1>p, Moves DEF Cleaning
  <2> QED
    BY <2>1 DEF QuietClean
<1>12. CASE UpdateCall
  <2>1. ~Cleaning'
    BY <1>12, <1>p, Moves DEF Cleaning
  <2> QED
    BY <2>1 DEF QuietClean
<1>13. CASE CfgUpd
  <2>1. ~Cleaning'
    BY <1>13, <1>p, Moves DEF Cleaning
  <2> QED
    BY <2>1 DEF QuietClean
<1>14. CASE MiOff
  <2>1. ~FramePending /\ UNCHANGED <<ris, irq>>
    BY <1>14 DEF MiOff
  <2> QED
    BY <2>1 DEF QuietClean, FramePending, irq
<1>15. CASE ClearDriver
  <2>1. Cleaning
    BY <1>15, <1>p, Moves DEF Cleaning
  <2>2. UNCHANGED <<ris, irq>>
    BY <1>15 DEF ClearDriver, hw
  <2> QED
    BY <2>1, <2>2 DEF QuietClean, FramePending, irq
<1>16. CASE CleanVideo
  <2>1. Cleaning
    BY <1>16, <1>p, Moves DEF Cleaning
  <2>2. UNCHANGED <<ris, irq>>
    BY <1>16 DEF CleanVideo, hw
  <2> QED
    BY <2>1, <2>2 DEF QuietClean, FramePending, irq
<1>17. CASE CleanVideoRaced
  <2>1. Cleaning /\ FramePending
    BY <1>17, <1>p, Moves DEF Cleaning, FramePending, CleanVideoRaced
  <2> QED
    BY <2>1 DEF QuietClean
<1>18. CASE CleanQueue
  <2>1. Cleaning
    BY <1>18, <1>p, Moves DEF Cleaning
  <2>2. UNCHANGED <<ris, irq>>
    BY <1>18 DEF CleanQueue, hw
  <2> QED
    BY <2>1, <2>2 DEF QuietClean, FramePending, irq
<1>19. CASE CleanDwe
  <2>1. Cleaning
    BY <1>19, <1>p, Moves DEF Cleaning
  <2>2. UNCHANGED <<ris, irq>>
    BY <1>19 DEF CleanDwe, hw
  <2> QED
    BY <2>1, <2>2 DEF QuietClean, FramePending, irq
<1>20. CASE Stopped
  <2>1. ~Cleaning'
    BY <1>20, <1>p, Moves DEF Cleaning
  <2> QED
    BY <2>1 DEF QuietClean
<1>21. CASE FreeIrq
  <2>1. ~Cleaning'
    BY <1>21, <1>p, Moves DEF Cleaning
  <2> QED
    BY <2>1 DEF QuietClean
<1>22. CASE \/ Open \/ StreamWrite \/ ReturnAll
            \/ \E b \in Bufs : SetBuffer(b)
            \/ \E b \in Bufs : Notify(b) \/ NotifyPush(b)
            \/ \E next \in {"set", "clear"} : SetStream(next)
            \/ UNCHANGED vars
  <2>1. UNCHANGED <<todo, ris, isr, tasklet, lock>>
    BY <1>22 DEF Open, SetBuffer, Notify, NotifyPush, SetStream, StreamWrite, ReturnAll, vars, dev,
       bufs, hw, irq, proc, stream
  <2> QED
    BY <2>1, <1>a
<1> QED
  BY <1>1, <1>2, <1>3, <1>4, <1>5, <1>6, <1>7, <1>8, <1>9, <1>10, <1>11, <1>12, <1>13,
     <1>14, <1>15, <1>16, <1>17, <1>18, <1>19, <1>20, <1>21, <1>22
     DEF Next, IsrStep, Ioctl, IoctlStep, RemoteStep

\* With whole updates of `state' the flag says what isp_mi_start and isp_mi_stop
\* have done.
LEMMA TruthfulStep ==
    ASSUME TypeOK, Sequenced, Truthful, "torn_state" \in Closed, [Next]_vars
    PROVE  Truthful'
<1>p. TypeOK /\ Programmed
  BY DEF Sequenced
<1>a. ASSUME UNCHANGED <<todo, spc, sreg, state, lock>> PROVE Truthful'
  BY <1>a DEF Truthful, Hd
<1>1. CASE IsrLock
  <2>1. Hd' = Hd /\ UNCHANGED <<spc, sreg, state>>
    BY <1>1, <1>p, Moves DEF IsrLock, proc, stream, dev
  <2>2. lock' = "ioctl" => lock = "ioctl"
    BY <1>1 DEF IsrLock
  <2> QED
    BY <2>1, <2>2 DEF Truthful
<1>2. CASE IsrTest
  <2>1. Hd' = Hd /\ UNCHANGED <<spc, sreg, state>>
    BY <1>2, <1>p, Moves DEF IsrTest, proc, stream, dev
  <2>2. lock' = "ioctl" => lock = "ioctl"
    BY <1>2 DEF IsrTest, IsrNextPath, irq
  <2> QED
    BY <2>1, <2>2 DEF Truthful
<1>3. CASE IsrDeliver
  <2>1. Hd' = Hd /\ UNCHANGED <<spc, sreg, state>>
    BY <1>3, <1>p, Moves DEF IsrDeliver, proc, stream, dev
  <2>2. lock' = "ioctl" => lock = "ioctl"
    BY <1>3 DEF IsrDeliver, IsrNextPath, irq
  <2> QED
    BY <2>1, <2>2 DEF Truthful
<1>4. CASE Tasklet
  <2>1. Hd' = Hd /\ UNCHANGED <<spc, sreg, state>>
    BY <1>4, <1>p, Moves DEF Tasklet, proc, stream, dev
  <2>2. lock' = "ioctl" => lock = "ioctl"
    BY <1>4 DEF Tasklet
  <2> QED
    BY <2>1, <2>2 DEF Truthful
<1>5. CASE UpdatePath
  <2>1. Hd' = Hd /\ UNCHANGED <<spc, sreg, state>> /\ UpdateNextPath
    BY <1>5, <1>p, Moves DEF UpdatePath, proc, stream, dev
  <2>2. lock' = "ioctl" => lock = "ioctl"
    BY <2>1
  <2> QED
    BY <2>1, <2>2 DEF Truthful
<1>6. CASE MiStart
  <2>1. Hd' = "set_driver" /\ Hd = "none"
    BY <1>6, <1>p, Moves
  <2>2. spc \notin {"set", "clear"} /\ lock # "ioctl" /\ UNCHANGED <<spc, sreg, state,
                                                                     lock>>
    BY <1>6 DEF MiStart, At, Idle, dev, irq, stream
  <2> QED
    BY <2>1, <2>2 DEF Truthful
<1>7. CASE MiStop
  <2>1. Hd' = "mi_off"
    BY <1>7, <1>p, Moves
  <2>2. lock # "ioctl" /\ UNCHANGED <<spc, sreg, state, lock>>
    BY <1>7 DEF MiStop, At, Idle, dev, irq, stream
  <2> QED
    BY <2>1, <2>2 DEF Truthful
<1>8. CASE Close
  <2>1. Hd' \in {"mi_off", "stopped", "none"} /\ (Hd' = "stopped" => "driver" \notin state)
    BY <1>8, <1>p, Moves
  <2>2. lock # "ioctl" /\ UNCHANGED <<spc, sreg, state, lock>>
    BY <1>8 DEF Close, At, Idle, dev, irq, stream
  <2> QED
    BY <2>1, <2>2 DEF Truthful
<1>9. CASE SetDriver
  <2>1. Hd = "set_driver" /\ Hd' = "update"
    BY <1>9, <1>p, Moves
  <2>2. lock # "ioctl" /\ UNCHANGED <<spc, sreg, lock>> /\ "driver" \in state'
    BY <1>9 DEF SetDriver, At, Idle, dev, irq, stream
  <2> QED
    BY <2>1, <2>2 DEF Truthful
<1>10. CASE UpdateCall
  <2>1. Hd = "update" /\ Hd' \in {"cfg_upd", "none"}
    BY <1>10, <1>p, Moves
  <2>2. UNCHANGED <<spc, sreg, state>>
    BY <1>10 DEF UpdateCall, At, Idle, dev, irq, stream
  <2> QED
    BY <2>1, <2>2 DEF Truthful
<1>11. CASE CfgUpd
  <2>1. Hd = "cfg_upd" /\ Hd' = "update"
    BY <1>11, <1>p, Moves
  <2>2. UNCHANGED <<spc, sreg, state, lock>>
    BY <1>11 DEF CfgUpd, At, Idle, dev, irq, stream
  <2> QED
    BY <2>1, <2>2 DEF Truthful
<1>12. CASE MiOff
  <2>1. Hd' \in {"clear_driver", "none", "clean", "stopped"} /\ (Hd' \in {"clean",
     "stopped"} => "driver" \notin state)
    BY <1>12, <1>p, Moves
  <2>2. spc \notin {"set", "clear"} /\ lock # "ioctl" /\ UNCHANGED <<spc, sreg, state,
                                                                     lock>>
    BY <1>12 DEF MiOff, At, Idle, dev, irq, stream
  <2> QED
    BY <2>1, <2>2 DEF Truthful
<1>13. CASE ClearDriver
  <2>1. Hd = "clear_driver" /\ Hd' = "clean"
    BY <1>13, <1>p, Moves
  <2>2. lock # "ioctl" /\ UNCHANGED <<spc, sreg, lock>> /\ "driver" \notin state'
    BY <1>13 DEF ClearDriver, At, Idle, dev, irq, stream
  <2> QED
    BY <2>1, <2>2 DEF Truthful
<1>14. CASE CleanVideo
  <2>1. Hd = "clean" /\ Hd' = "clean_queue"
    BY <1>14, <1>p, Moves
  <2>2. lock # "ioctl" /\ UNCHANGED <<spc, sreg, state, lock>>
    BY <1>14 DEF CleanVideo, At, Idle, dev, irq, stream
  <2> QED
    BY <2>1, <2>2 DEF Truthful
<1>15. CASE CleanVideoRaced
  <2>1. Hd = "clean" /\ Hd' = "clean_queue"
    BY <1>15, <1>p, Moves
  <2>2. lock = "tasklet" /\ UpdateNextPath /\ UNCHANGED <<spc, sreg, state>>
    BY <1>15 DEF CleanVideoRaced, At, Idle, dev, irq, stream
  <2> QED
    BY <2>1, <2>2 DEF Truthful
<1>16. CASE CleanQueue
  <2>1. Hd = "clean_queue" /\ Hd' \in {"none", "clean", "stopped"}
    BY <1>16, <1>p, Moves
  <2>2. lock # "ioctl" /\ UNCHANGED <<spc, sreg, state, lock>>
    BY <1>16 DEF CleanQueue, At, Idle, dev, irq, stream
  <2> QED
    BY <2>1, <2>2 DEF Truthful
<1>17. CASE CleanDwe
  <2>1. Hd = "clean" /\ Hd' \in {"none", "clean", "stopped"}
    BY <1>17, <1>p, Moves
  <2>2. lock # "ioctl" /\ UNCHANGED <<spc, sreg, state, lock>>
    BY <1>17 DEF CleanDwe, At, Idle, dev, irq, stream
  <2> QED
    BY <2>1, <2>2 DEF Truthful
<1>18. CASE Stopped
  <2>1. Hd' = "free_irq"
    BY <1>18, <1>p, Moves
  <2>2. spc \notin {"set", "clear"} /\ lock # "ioctl" /\ UNCHANGED <<spc, sreg,
     lock>> /\ state' = {}
    BY <1>18 DEF Stopped, At, Idle, dev, irq, stream
  <2> QED
    BY <2>1, <2>2 DEF Truthful
<1>19. CASE FreeIrq
  <2>1. Hd' = "mi_off"
    BY <1>19, <1>p, Moves
  <2>2. lock # "ioctl" /\ UNCHANGED <<spc, sreg, state, lock>>
    BY <1>19 DEF FreeIrq, At, Idle, dev, irq, stream
  <2> QED
    BY <2>1, <2>2 DEF Truthful
<1>20. ASSUME NEW next \in {"set", "clear"}, SetStream(next) PROVE Truthful'
  <2>1. Hd' = Hd /\ UNCHANGED <<state, lock>> /\ sreg' = state /\ spc' = next
    BY <1>20, <1>p, Moves DEF SetStream, proc, dev, irq
  <2>2. Hd \notin {"set_driver", "clear_driver"}
    BY <1>20 DEF SetStream, Hd
  <2> QED
    BY <2>1, <2>2 DEF Truthful
<1>21. CASE StreamWrite
  <2>1. Hd' = Hd /\ lock' = lock /\ spc' \notin {"set", "clear"}
    BY <1>21, <1>p, Moves DEF StreamWrite, proc, irq
  <2>2. "driver" \in state' <=> "driver" \in state
    BY <1>21 DEF StreamWrite, Truthful
  <2> QED
    BY <2>1, <2>2 DEF Truthful
<1>22. CASE ReturnAll
  <2>1. Hd' = Hd /\ UNCHANGED <<state, lock>> /\ spc' = "idle"
    BY <1>22, <1>p, Moves DEF ReturnAll, proc, irq, dev
  <2> QED
    BY <2>1 DEF Truthful
<1>23. CASE \/ HwIsr \/ Open
            \/ \E p \in Paths : FrameEnd(p)
            \/ \E b \in Bufs : SetBuffer(b)
            \/ \E b \in Bufs : Notify(b) \/ NotifyPush(b)
            \/ UNCHANGED vars
  <2>1. UNCHANGED <<todo, spc, sreg, state, lock>>
    BY <1>23 DEF FrameEnd, HwIsr, Open, SetBuffer, Notify, NotifyPush, vars, dev, bufs, hw, irq, proc,
       stream
  <2> QED
    BY <2>1, <1>a
<1> QED
  BY <1>1, <1>2, <1>3, <1>4, <1>5, <1>6, <1>7, <1>8, <1>9, <1>10, <1>11, <1>12, <1>13,
     <1>14, <1>15, <1>16, <1>17, <1>18, <1>19, <1>20, <1>21, <1>22, <1>23
     DEF Next, IsrStep, Ioctl, IoctlStep, RemoteStep

\* Then a stopped driver stays empty until isp_mi_start.
LEMMA ParkedStep ==
    ASSUME TypeOK, Sequenced, QuietClean, Truthful, Parked, "dirty_stop" \in Closed,
           [Next]_vars
    PROVE  Parked'
<1>p. TypeOK /\ Programmed
  BY DEF Sequenced
<1>a. ASSUME UNCHANGED <<todo, state, hwOn, ris, isr, tasklet, lock, mi_buf, mi_buf_shd>>
      PROVE Parked'
  BY <1>a DEF Parked, Hd, FramePending, NoPointers
<1>1. ASSUME NEW p \in Paths, FrameEnd(p) PROVE Parked'
  <2>1. Hd' = Hd /\ hwOn # {} /\ state' = state
    BY <1>1, <1>p, Moves DEF FrameEnd, proc, dev
  <2> QED
    BY <2>1 DEF Parked
<1>2. CASE HwIsr
  <2>1. Hd' = Hd /\ state' = state
    BY <1>2, <1>p, Moves DEF HwIsr, proc, dev
  <2>2. FramePending
    BY <1>2 DEF HwIsr, FramePending
  <2> QED
    BY <2>1, <2>2 DEF Parked
<1>3. CASE IsrLock
  <2>1. Hd' = Hd /\ state' = state
    BY <1>3, <1>p, Moves DEF IsrLock, proc, dev
  <2>2. FramePending
    BY <1>3 DEF IsrLock, FramePending
  <2> QED
    BY <2>1, <2>2 DEF Parked
<1>4. CASE IsrTest
  <2>1. Hd' = Hd /\ state' = state
    BY <1>4, <1>p, Moves DEF IsrTest, proc, dev
  <2>2. FramePending
    BY <1>4 DEF IsrTest, FramePending
  <2> QED
    BY <2>1, <2>2 DEF Parked
<1>5. CASE IsrDeliver
  <2>1. Hd' = Hd /\ state' = state
    BY <1>5, <1>p, Moves DEF IsrDeliver, proc, dev
  <2>2. FramePending
    BY <1>5 DEF IsrDeliver, FramePending
  <2> QED
    BY <2>1, <2>2 DEF Parked
<1>6. CASE Tasklet
  <2>1. Hd' = Hd /\ state' = state
    BY <1>6, <1>p, Moves DEF Tasklet, proc, dev
  <2>2. FramePending
    BY <1>6 DEF Tasklet, FramePending
  <2> QED
    BY <2>1, <2>2 DEF Parked
<1>7. CASE UpdatePath
  <2>1. Hd' = Hd /\ state' = state /\ lock \in {"tasklet", "ioctl"}
    BY <1>7, <1>p, Moves DEF UpdatePath, proc, dev
  <2> QED
    BY <2>1 DEF Parked, FramePending
<1>8. CASE MiStart
  <2>1. Hd = "none"
    BY <1>8, <1>p, Moves
  <2>2. UNCHANGED <<hwOn, ris, isr, tasklet, lock, mi_buf, mi_buf_shd, state>>
    BY <1>8 DEF MiStart, At, Idle, hw, irq, bufs, dev
  <2> QED
    BY <2>1, <2>2 DEF Parked, FramePending, NoPointers
<1>9. CASE MiStop
  <2>1. Hd = "none"
    BY <1>9, <1>p, Moves
  <2>2. UNCHANGED <<hwOn, ris, isr, tasklet, lock, mi_buf, mi_buf_shd, state>>
    BY <1>9 DEF MiStop, At, Idle, hw, irq, bufs, dev
  <2> QED
    BY <2>1, <2>2 DEF Parked, FramePending, NoPointers
<1>10. CASE Close
  <2>1. Hd = "none"
    BY <1>10, <1>p, Moves
  <2>2. UNCHANGED <<hwOn, ris, isr, tasklet, lock, mi_buf, mi_buf_shd, state>>
    BY <1>10 DEF Close, At, Idle, hw, irq, bufs, dev
  <2> QED
    BY <2>1, <2>2 DEF Parked, FramePending, NoPointers
<1>11. CASE SetDriver
  <2>1. TRUE
    BY <1>11, <1>p, Moves
  <2>2. "driver" \in state'
    BY <1>11 DEF SetDriver, At, Idle, hw, irq, bufs, dev
  <2> QED
    BY <2>1, <2>2 DEF Parked, FramePending, NoPointers
<1>12. CASE UpdateCall
  <2>1. Hd = "update"
    BY <1>12, <1>p, Moves
  <2>2. state' = state
    BY <1>12 DEF UpdateCall, At, Idle, hw, irq, bufs, dev
  <2> QED
    BY <2>1, <2>2 DEF Parked, FramePending, NoPointers, Truthful
<1>13. CASE CfgUpd
  <2>1. Hd = "cfg_upd"
    BY <1>13, <1>p, Moves
  <2>2. state' = state
    BY <1>13 DEF CfgUpd, At, Idle, hw, irq, bufs, dev
  <2> QED
    BY <2>1, <2>2 DEF Parked, FramePending, NoPointers, Truthful
<1>14. CASE MiOff
  <2>1. Hd = "mi_off"
    BY <1>14, <1>p, Moves
  <2>2. hwOn' = {} /\ UNCHANGED <<ris, isr, tasklet, lock, mi_buf, mi_buf_shd, state>>
    BY <1>14 DEF MiOff, At, Idle, hw, irq, bufs, dev
  <2> QED
    BY <2>1, <2>2 DEF Parked, FramePending, NoPointers
<1>15. CASE ClearDriver
  <2>1. Hd' = "clean"
    BY <1>15, <1>p, Moves
  <2>2. TRUE
    BY <1>15 DEF ClearDriver, At, Idle, hw, irq, bufs, dev
  <2> QED
    BY <2>1, <2>2 DEF Parked, FramePending, NoPointers
<1>16. CASE CleanVideo
  <2>1. Hd = "clean"
    BY <1>16, <1>p, Moves
  <2>2. /\ \A p \in Paths : mi_buf'[p] = NULL /\ mi_buf_shd'[p] = NULL
        /\ lock # "ioctl" /\ UNCHANGED <<hwOn, ris, isr, tasklet, lock>>
    BY <1>16 DEF CleanVideo, At, Idle, hw, irq, bufs, dev
  <2> QED
    BY <2>1, <2>2 DEF Parked, FramePending, NoPointers, Sequenced, QuietClean, Cleaning
<1>17. CASE CleanVideoRaced
  <2>1. Hd = "clean" /\ FramePending
    BY <1>17, <1>p, Moves DEF CleanVideoRaced, FramePending
  <2> QED
    BY <2>1 DEF QuietClean, Cleaning
<1>18. CASE CleanQueue
  <2>1. Hd = "clean_queue"
    BY <1>18, <1>p, Moves
  <2>2. UNCHANGED <<hwOn, ris, isr, tasklet, lock, mi_buf, mi_buf_shd, state>>
    BY <1>18 DEF CleanQueue, At, Idle, hw, irq, bufs, dev
  <2> QED
    BY <2>1, <2>2 DEF Parked, FramePending, NoPointers
<1>19. CASE CleanDwe
  <2>1. Hd = "clean"
    BY <1>19, <1>p, Moves
  <2>2. /\ \A p \in Paths : mi_buf'[p] = NULL /\ mi_buf_shd'[p] = NULL
        /\ lock # "ioctl" /\ UNCHANGED <<hwOn, ris, isr, tasklet, lock>>
    BY <1>19 DEF CleanDwe, At, Idle, hw, irq, bufs, dev
  <2> QED
    BY <2>1, <2>2 DEF Parked, FramePending, NoPointers, Sequenced, QuietClean, Cleaning
<1>20. CASE Stopped
  <2>1. Hd = "stopped"
    BY <1>20, <1>p, Moves
  <2>2. UNCHANGED <<hwOn, ris, isr, tasklet, lock, mi_buf, mi_buf_shd>>
    BY <1>20 DEF Stopped, At, Idle, hw, irq, bufs, dev
  <2> QED
    BY <2>1, <2>2 DEF Parked, FramePending, NoPointers, Truthful
<1>21. CASE FreeIrq
  <2>1. Hd = "free_irq"
    BY <1>21, <1>p, Moves
  <2>2. UNCHANGED <<hwOn, ris, isr, tasklet, lock, mi_buf, mi_buf_shd, state>>
    BY <1>21 DEF FreeIrq, At, Idle, hw, irq, bufs, dev
  <2> QED
    BY <2>1, <2>2 DEF Parked, FramePending, NoPointers
<1>22. CASE StreamWrite
  <2>1. Hd' = Hd /\ UNCHANGED <<hwOn, ris, isr, tasklet, lock, mi_buf, mi_buf_shd>>
    BY <1>22, <1>p, Moves DEF StreamWrite, proc, irq, hw, bufs
  <2>2. "driver" \in state' <=> "driver" \in state
    BY <1>22 DEF StreamWrite, Truthful
  <2> QED
    BY <2>1, <2>2 DEF Parked, FramePending, NoPointers
<1>23. CASE \/ Open \/ ReturnAll
            \/ \E b \in Bufs : SetBuffer(b)
            \/ \E b \in Bufs : Notify(b) \/ NotifyPush(b)
            \/ \E next \in {"set", "clear"} : SetStream(next)
            \/ UNCHANGED vars
  <2>1. UNCHANGED <<todo, state, hwOn, ris, isr, tasklet, lock, mi_buf, mi_buf_shd>>
    BY <1>23 DEF Open, SetBuffer, Notify, NotifyPush, SetStream, ReturnAll, vars, dev, bufs, hw, irq,
       proc, stream
  <2> QED
    BY <2>1, <1>a
<1> QED
  BY <1>1, <1>2, <1>3, <1>4, <1>5, <1>6, <1>7, <1>8, <1>9, <1>10, <1>11, <1>12, <1>13,
     <1>14, <1>15, <1>16, <1>17, <1>18, <1>19, <1>20, <1>21, <1>22, <1>23
     DEF Next, IsrStep, Ioctl, IoctlStep, RemoteStep

\* The last isp_close stops every path and frees the handler.
LEMMA LastCloseStep ==
    ASSUME TypeOK, Sequenced, LastClose, [Next]_vars
    PROVE  LastClose'
<1>p. TypeOK /\ Programmed
  BY DEF Sequenced
<1>a. ASSUME UNCHANGED <<todo, refcnt, irqOn, lock, hwOn>> PROVE LastClose'
  BY <1>a DEF LastClose, Starting, Hd, Left
<1>1. CASE IsrLock
  <2>1. Hd' = Hd /\ Left' = Left /\ UNCHANGED <<refcnt, irqOn, hwOn>>
    BY <1>1, <1>p, Moves DEF IsrLock, proc, dev, hw
  <2>2. lock' = "ioctl" => lock = "ioctl"
    BY <1>1 DEF IsrLock
  <2> QED
    BY <2>1, <2>2 DEF LastClose, Starting
<1>2. CASE IsrTest
  <2>1. Hd' = Hd /\ Left' = Left /\ UNCHANGED <<refcnt, irqOn, hwOn>>
    BY <1>2, <1>p, Moves DEF IsrTest, proc, dev, hw
  <2>2. lock' = "ioctl" => lock = "ioctl"
    BY <1>2 DEF IsrTest, IsrNextPath, irq
  <2> QED
    BY <2>1, <2>2 DEF LastClose, Starting
<1>3. CASE IsrDeliver
  <2>1. Hd' = Hd /\ Left' = Left /\ UNCHANGED <<refcnt, irqOn, hwOn>>
    BY <1>3, <1>p, Moves DEF IsrDeliver, proc, dev, hw
  <2>2. lock' = "ioctl" => lock = "ioctl"
    BY <1>3 DEF IsrDeliver, IsrNextPath, irq
  <2> QED
    BY <2>1, <2>2 DEF LastClose, Starting
<1>4. CASE Tasklet
  <2>1. Hd' = Hd /\ Left' = Left /\ UNCHANGED <<refcnt, irqOn, hwOn>>
    BY <1>4, <1>p, Moves DEF Tasklet, proc, dev, hw
  <2>2. lock' = "ioctl" => lock = "ioctl"
    BY <1>4 DEF Tasklet
  <2> QED
    BY <2>1, <2>2 DEF LastClose, Starting
<1>5. CASE UpdatePath
  <2>1. Hd' = Hd /\ Left' = Left /\ UNCHANGED <<refcnt, irqOn, hwOn>> /\ UpdateNextPath
    BY <1>5, <1>p, Moves DEF UpdatePath, proc, dev
  <2>2. lock' = "ioctl" => lock = "ioctl"
    BY <2>1
  <2> QED
    BY <2>1, <2>2 DEF LastClose, Starting
<1>6. CASE MiStart
  <2>1. refcnt' # 0
    BY <1>6 DEF MiStart, dev, TypeOK
  <2> QED
    BY <2>1 DEF LastClose
<1>7. CASE MiStop
  <2>1. refcnt' # 0
    BY <1>7 DEF MiStop, dev, TypeOK
  <2> QED
    BY <2>1 DEF LastClose
<1>8. CASE Open
  <2>1. refcnt' # 0
    BY <1>8 DEF Open, TypeOK
  <2> QED
    BY <2>1 DEF LastClose
<1>9. CASE Close
  <2>1. /\ refcnt \in Nat /\ refcnt' = refcnt - 1
        /\ lock # "ioctl" /\ lock' = lock
    BY <1>9 DEF Close, Idle, TypeOK, irq
  <2>2. refcnt' = 0 =>
          (Hd' = "mi_off" /\ Left' = 5) \/ (Hd' = "stopped" /\ Left' = 4)
    BY <1>9, <1>p, <2>1, Moves
  <2> QED
    BY <2>1, <2>2 DEF LastClose, Starting
<1>10. CASE SetDriver
  <2>1. Starting
    BY <1>10, <1>p, Moves DEF Starting
  <2>2. refcnt' = refcnt
    BY <1>10 DEF SetDriver, dev
  <2> QED
    BY <2>1, <2>2 DEF LastClose
<1>11. CASE UpdateCall
  <2>1. Starting
    BY <1>11, <1>p, Moves DEF Starting
  <2>2. refcnt' = refcnt
    BY <1>11 DEF UpdateCall, dev
  <2> QED
    BY <2>1, <2>2 DEF LastClose
<1>12. CASE CfgUpd
  <2>1. Starting
    BY <1>12, <1>p, Moves DEF Starting
  <2>2. refcnt' = refcnt
    BY <1>12 DEF CfgUpd, dev
  <2> QED
    BY <2>1, <2>2 DEF LastClose
<1>13. CASE MiOff
  <2>1. <<Hd, Left>> \in Points /\ Left \in Nat
    BY <1>p, FirstStep DEF Programmed, TypeOK, Left
  <2>2. lock # "ioctl" /\ UNCHANGED <<refcnt, irqOn, lock>> /\ hwOn' = {}
    BY <1>13 DEF MiOff, At, dev, irq, hw
  <2> QED
    BY <1>13, <1>p, <2>1, <2>2, Moves DEF LastClose, Starting, Sequenced, Cleaning, Points
<1>14. CASE ClearDriver
  <2>1. <<Hd, Left>> \in Points /\ Left \in Nat
    BY <1>p, FirstStep DEF Programmed, TypeOK, Left
  <2>2. lock # "ioctl" /\ UNCHANGED <<refcnt, irqOn, lock, hwOn>>
    BY <1>14 DEF ClearDriver, At, dev, irq, hw
  <2> QED
    BY <1>14, <1>p, <2>1, <2>2, Moves DEF LastClose, Starting, Sequenced, Cleaning, Points
<1>15. CASE CleanVideo
  <2>1. <<Hd, Left>> \in Points /\ Left \in Nat
    BY <1>p, FirstStep DEF Programmed, TypeOK, Left
  <2>2. lock # "ioctl" /\ UNCHANGED <<refcnt, irqOn, lock, hwOn>>
    BY <1>15 DEF CleanVideo, At, dev, irq, hw
  <2> QED
    BY <1>15, <1>p, <2>1, <2>2, Moves DEF LastClose, Starting, Sequenced, Cleaning, Points
<1>16. CASE CleanVideoRaced
  <2>1. <<Hd, Left>> \in Points /\ Left \in Nat
    BY <1>p, FirstStep DEF Programmed, TypeOK, Left
  <2>2. lock = "tasklet" /\ UpdateNextPath /\ UNCHANGED <<refcnt, irqOn, hwOn>>
    BY <1>16 DEF CleanVideoRaced, dev
  <2>3. lock' # "ioctl"
    BY <2>2
  <2> QED
    BY <1>16, <1>p, <2>1, <2>2, <2>3, Moves DEF LastClose, Starting, Points
<1>17. CASE CleanQueue
  <2>1. <<Hd, Left>> \in Points /\ Left \in Nat
    BY <1>p, FirstStep DEF Programmed, TypeOK, Left
  <2>2. lock # "ioctl" /\ UNCHANGED <<refcnt, irqOn, lock, hwOn>>
    BY <1>17 DEF CleanQueue, At, dev, irq, hw
  <2> QED
    BY <1>17, <1>p, <2>1, <2>2, Moves DEF LastClose, Starting, Sequenced, Cleaning, Points
<1>18. CASE CleanDwe
  <2>1. <<Hd, Left>> \in Points /\ Left \in Nat
    BY <1>p, FirstStep DEF Programmed, TypeOK, Left
  <2>2. lock # "ioctl" /\ UNCHANGED <<refcnt, irqOn, lock, hwOn>>
    BY <1>18 DEF CleanDwe, At, dev, irq, hw
  <2> QED
    BY <1>18, <1>p, <2>1, <2>2, Moves DEF LastClose, Starting, Sequenced, Cleaning, Points
<1>19. CASE Stopped
  <2>1. <<Hd, Left>> \in Points /\ Left \in Nat
    BY <1>p, FirstStep DEF Programmed, TypeOK, Left
  <2>2. lock # "ioctl" /\ UNCHANGED <<refcnt, irqOn, lock, hwOn>>
    BY <1>19 DEF Stopped, At, dev, irq, hw
  <2> QED
    BY <1>19, <1>p, <2>1, <2>2, Moves DEF LastClose, Starting, Sequenced, Cleaning, Points
<1>20. CASE FreeIrq
  <2>1. <<Hd, Left>> \in Points /\ Left \in Nat
    BY <1>p, FirstStep DEF Programmed, TypeOK, Left
  <2>2. lock # "ioctl" /\ UNCHANGED <<refcnt, lock, hwOn>> /\ irqOn' = FALSE
    BY <1>20 DEF FreeIrq, At, dev, irq, hw
  <2> QED
    BY <1>20, <1>p, <2>1, <2>2, Moves DEF LastClose, Starting, Sequenced, Cleaning, Points
<1>21. CASE \/ HwIsr \/ StreamWrite \/ ReturnAll
            \/ \E p \in Paths : FrameEnd(p)
            \/ \E b \in Bufs : SetBuffer(b)
            \/ \E b \in Bufs : Notify(b) \/ NotifyPush(b)
            \/ \E next \in {"set", "clear"} : SetStream(next)
            \/ UNCHANGED vars
  <2>1. UNCHANGED <<todo, refcnt, irqOn, lock, hwOn>>
    BY <1>21 DEF FrameEnd, HwIsr, SetBuffer, Notify, NotifyPush, SetStream, StreamWrite, ReturnAll,
       vars, dev, bufs, hw, irq, proc, stream
  <2> QED
    BY <2>1, <1>a
<1> QED
  BY <1>1, <1>2, <1>3, <1>4, <1>5, <1>6, <1>7, <1>8, <1>9, <1>10, <1>11, <1>12, <1>13,
     <1>14, <1>15, <1>16, <1>17, <1>18, <1>19, <1>20, <1>21
     DEF Next, IsrStep, Ioctl, IoctlStep, RemoteStep

\* A device closed with no push under way stays without one.
LEMMA NoneLateStep ==
    ASSUME TypeOK, NoneLate, "late_push" \in Closed, [Next]_vars
    PROVE  NoneLate'
<1> SUFFICES ASSUME refcnt' = 0, NEW b \in pushing' PROVE FALSE
  BY DEF NoneLate
<1>1. b \in pushing \/ Notify(b)
  BY PushingStep
<1>2. CASE Close
  BY <1>1, <1>2 DEF Close, Notify, TypeOK, stream
<1>3. CASE ~Close
  <2>1. refcnt = 0
    BY <1>3 DEF Next, IsrStep, Ioctl, IoctlStep, RemoteStep, FrameEnd, HwIsr, IsrLock,
       IsrTest, IsrDeliver, Tasklet, UpdatePath, MiStart, MiStop, Open, SetBuffer,
       SetDriver, UpdateCall, CfgUpd, MiOff, ClearDriver, CleanVideo, CleanVideoRaced,
       CleanQueue, CleanDwe, Stopped, FreeIrq, Notify, NotifyPush, SetStream,
       StreamWrite, ReturnAll, TypeOK, vars, dev
  <2> QED
    BY <1>1, <2>1 DEF NoneLate, Notify
<1> QED
  BY <1>2, <1>3

\* It leaves no buffer either; clean_dma_buffer without dev->lock needs a quiet
\* stop for that.
LEMMA LastCleanStep ==
    ASSUME TypeOK, Sequenced, LastClose, LastClean, NoneLate, ToVideo => QuietClean,
           [Next]_vars
    PROVE  LastClean'
<1>p. TypeOK /\ Programmed
  BY DEF Sequenced
<1>a. ASSUME UNCHANGED <<todo, refcnt, dmaqueue, mi_buf, mi_buf_shd>> PROVE LastClean'
  BY <1>a DEF LastClean, NoPointers, Hd, Left
<1>1. CASE IsrDeliver
  <2>1. Hd' = Hd /\ Left' = Left /\ refcnt' = refcnt
    BY <1>1, <1>p, Moves DEF IsrDeliver, proc, dev
  <2>2. NoPointers => UNCHANGED <<dmaqueue, mi_buf, mi_buf_shd>>
    BY <1>1 DEF IsrDeliver, NoPointers, TypeOK, bufs
  <2> QED
    BY <2>1, <2>2 DEF LastClean, NoPointers
<1>2. CASE UpdatePath
  <2>1. Hd' = Hd /\ Left' = Left /\ refcnt' = refcnt
    BY <1>2, <1>p, Moves DEF UpdatePath, proc, dev
  <2>2. CASE refcnt = 0 /\ Hd = "clean_queue"
    <3>1. FramePending \/ lock = "ioctl"
      BY <1>2 DEF UpdatePath, FramePending
    <3> QED
      BY <2>2, <3>1 DEF Sequenced, QuietClean, Cleaning
  <2>3. CASE refcnt = 0 /\ Left = 0
    <3>1. dmaqueue = <<>> /\ NoPointers
      BY <2>3 DEF LastClean
    <3>2. UNCHANGED <<dmaqueue, mi_buf, mi_buf_shd>>
      BY <1>2, <3>1 DEF UpdatePath, Pullable
    <3> QED
      BY <2>1, <2>3, <3>1, <3>2 DEF LastClean, NoPointers
  <2> QED
    BY <2>1, <2>2, <2>3 DEF LastClean
<1>3. CASE MiStart
  <2>1. refcnt' # 0
    BY <1>3 DEF MiStart, dev, TypeOK
  <2> QED
    BY <2>1 DEF LastClean
<1>4. CASE MiStop
  <2>1. refcnt' # 0
    BY <1>4 DEF MiStop, dev, TypeOK
  <2> QED
    BY <2>1 DEF LastClean
<1>5. CASE Open
  <2>1. refcnt' # 0
    BY <1>5 DEF Open, dev, TypeOK
  <2> QED
    BY <2>1 DEF LastClean
<1>6. CASE Close
  <2>1. refcnt \in Nat /\ refcnt' = refcnt - 1
    BY <1>6 DEF Close, TypeOK
  <2>2. refcnt' = 0 => Left' \in {5, 4} /\ Hd' # "clean_queue"
    BY <1>6, <1>p, <2>1, Moves
  <2> QED
    BY <2>2 DEF LastClean
<1>7. ASSUME NEW b \in Bufs, SetBuffer(b) PROVE LastClean'
  <2>1. refcnt' # 0
    BY <1>7 DEF SetBuffer, dev, TypeOK
  <2> QED
    BY <2>1 DEF LastClean
<1>8. CASE SetDriver
  <2>1. Starting
    BY <1>8, <1>p, Moves DEF Starting
  <2>2. refcnt' = refcnt
    BY <1>8 DEF SetDriver, dev
  <2> QED
    BY <2>1, <2>2 DEF LastClose, LastClean
<1>9. CASE UpdateCall
  <2>1. Starting
    BY <1>9, <1>p, Moves DEF Starting
  <2>2. refcnt' = refcnt
    BY <1>9 DEF UpdateCall, dev
  <2> QED
    BY <2>1, <2>2 DEF LastClose, LastClean
<1>10. CASE CfgUpd
  <2>1. Starting
    BY <1>10, <1>p, Moves DEF Starting
  <2>2. refcnt' = refcnt
    BY <1>10 DEF CfgUpd, dev
  <2> QED
    BY <2>1, <2>2 DEF LastClose, LastClean
<1>11. CASE MiOff
  <2>1. refcnt' = refcnt
    BY <1>11 DEF MiOff, dev
  <2>2. Left \in Nat
    BY FirstStep DEF Left, TypeOK
  <2>3. refcnt = 0 => Left' # 0 /\ Hd' # "clean_queue"
    BY <1>11, <1>p, <2>2, Moves DEF LastClose
  <2> QED
    BY <2>1, <2>3 DEF LastClean
<1>12. CASE ClearDriver
  <2>1. Left' # 0 /\ Hd' # "clean_queue"
    <3>1. <<Hd, Left>> \in Points
      BY <1>p DEF Programmed
    <3> QED
      BY <1>12, <1>p, <3>1, Moves DEF Points
  <2> QED
    BY <2>1 DEF LastClean
<1>13. CASE CleanVideo
  <2>1. <<Hd, Left>> \in Points
    BY <1>p DEF Programmed
  <2>2. Hd' = "clean_queue" /\ Left' # 0
    BY <1>13, <1>p, <2>1, Moves DEF Points
  <2>3. NoPointers'
    BY <1>13 DEF CleanVideo, NoPointers
  <2> QED
    BY <2>2, <2>3 DEF LastClean
<1>14. CASE CleanVideoRaced
  <2>1. Cleaning /\ FramePending /\ ToVideo
    BY <1>14, <1>p, Moves DEF CleanVideoRaced, FramePending, Cleaning
  <2> QED
    BY <2>1 DEF QuietClean
<1>15. CASE CleanQueue
  <2>1. <<Hd, Left>> \in Points
    BY <1>p DEF Programmed
  <2>2. Hd = "clean_queue" /\ Hd' # "clean_queue" /\ (Left' = 0 => Left = 1)
    BY <1>15, <1>p, <2>1, Moves DEF Points
  <2>3. dmaqueue' = <<>> /\ UNCHANGED <<mi_buf, mi_buf_shd, refcnt>>
    BY <1>15 DEF CleanQueue, dev
  <2> QED
    BY <2>2, <2>3 DEF LastClean, NoPointers
<1>16. CASE CleanDwe
  <2>1. Hd' # "clean_queue"
    BY <1>16, <1>p, Moves
  <2>2. NoPointers' /\ dmaqueue' = <<>>
    BY <1>16 DEF CleanDwe, NoPointers
  <2> QED
    BY <2>1, <2>2 DEF LastClean
<1>17. CASE Stopped
  <2>1. Left' # 0 /\ Hd' # "clean_queue"
    <3>1. <<Hd, Left>> \in Points
      BY <1>p DEF Programmed
    <3> QED
      BY <1>17, <1>p, <3>1, Moves DEF Points
  <2> QED
    BY <2>1 DEF LastClean
<1>18. CASE FreeIrq
  <2>1. Left' # 0 /\ Hd' # "clean_queue"
    <3>1. <<Hd, Left>> \in Points
      BY <1>p DEF Programmed
    <3> QED
      BY <1>18, <1>p, <3>1, Moves DEF Points
  <2> QED
    BY <2>1 DEF LastClean
<1>19. ASSUME NEW b \in Bufs, Notify(b) \/ NotifyPush(b) PROVE LastClean'
  <2>1. Hd' = Hd /\ Left' = Left /\ UNCHANGED <<refcnt, mi_buf, mi_buf_shd>>
    BY <1>19, <1>p, Moves DEF Notify, NotifyPush, proc, dev
  <2>2. refcnt = 0 => dmaqueue' = dmaqueue
    BY <1>19 DEF Notify, NotifyPush, NoneLate
  <2> QED
    BY <2>1, <2>2 DEF LastClean, NoPointers
<1>20. CASE \/ HwIsr \/ IsrLock \/ IsrTest \/ Tasklet \/ StreamWrite \/ ReturnAll
            \/ \E p \in Paths : FrameEnd(p)
            \/ \E next \in {"set", "clear"} : SetStream(next)
            \/ UNCHANGED vars
  <2>1. UNCHANGED <<todo, refcnt, dmaqueue, mi_buf, mi_buf_shd>>
    BY <1>20 DEF FrameEnd, HwIsr, IsrLock, IsrTest, Tasklet, SetStream, StreamWrite,
       ReturnAll, vars, dev, bufs, hw, irq, proc, stream
  <2> QED
    BY <2>1, <1>a
<1> QED
  BY <1>1, <1>2, <1>3, <1>4, <1>5, <1>6, <1>7, <1>8, <1>9, <1>10, <1>11, <1>12, <1>13,
     <1>14, <1>15, <1>16, <1>17, <1>18, <1>19, <1>20
     DEF Next, IsrStep, Ioctl, IoctlStep, RemoteStep

-----------------------------------------------------------------------------
(***************************************************************************)
(* A frame end, from the hardware to the tasklet.                          *)
(***************************************************************************)

\* dev->lock is held exactly in the loop of isr_process_frame.
LoopLocked == isr \in {"loop", "deliver"} <=> lock = "isr"

\* One path at most is configured.
OnePath == \A p, q \in Paths : Enabled(p) /\ Enabled(q) => p = q

\* The pipeline of a frame end: latched, in the handler, in the tasklet, one
\* stage at a time, and none while isp_mi_start is under way.
Timely ==
    /\ Starting => ~FramePending
    /\ Starting /\ Left > 1 => hwOn = {}
    /\ Hd \in {"update", "cfg_upd"} => imsc = {p \in Paths : Enabled(p)}
    /\ hwOn # {} =>
          /\ hwOn = imsc /\ imsc = {p \in Paths : Enabled(p)}
          /\ ris \subseteq imsc
          /\ isr # "idle" => ris = {} /\ ~tasklet /\ lock # "tasklet"
          /\ tasklet => ris = {} /\ lock # "tasklet"
          /\ lock = "tasklet" => ris = {}

\* A frame end is pending only while the paths run.
Pending == FramePending => hwOn # {}

\* One iteration of update_dma_buffer, path by path.
LEMMA UpdateMoves ==
    ASSUME TypeOK, UpdatePath
    PROVE  /\ lock \in {"tasklet", "ioctl"}
           /\ UNCHANGED <<state, refcnt, irqOn, path, remote, fresh, imsc, ris,
                          hwOn, hwCur, tasklet, isr, todo, dreg, spc, sreg, oops>>
           /\ \/ i' = i + 1 /\ lock' = lock
              \/ (\A p \in Paths : p <= i) /\ lock' = "free"
           /\ \/ /\ UNCHANGED <<hwInit, mi_buf, mi_buf_shd, filled>>
                 /\ Enabled(i) /\ path[i] # "bad" => dmaqueue = <<>>
                 /\ ~Enabled(i) => dmaqueue' = dmaqueue
              \/ \E b \in Bufs :
                    /\ Enabled(i) /\ path[i] # "bad" /\ b # NULL
                    /\ b = TryDqbuf(dmaqueue) /\ Pullable(dmaqueue)
                    /\ dmaqueue' = PullBuf(dmaqueue)
                    /\ \A p \in Paths :
                          /\ hwInit'[p] = IF p = i THEN b ELSE hwInit[p]
                          /\ mi_buf'[p] = IF p = i THEN b ELSE mi_buf[p]
                          /\ mi_buf_shd'[p] = IF p = i THEN mi_buf[p] ELSE mi_buf_shd[p]
                    /\ filled' = filled \ {b}
<1>1. /\ lock \in {"tasklet", "ioctl"}
      /\ UNCHANGED <<state, refcnt, irqOn, path, remote, fresh, imsc, ris,
                     hwOn, hwCur, tasklet, isr, todo, dreg, spc, sreg, oops>>
  BY DEF UpdatePath, dev, proc, stream
<1>2. \/ i' = i + 1 /\ lock' = lock
      \/ (\A p \in Paths : p <= i) /\ lock' = "free"
  <2>1. UpdateNextPath /\ i \in Paths
    BY DEF UpdatePath, TypeOK
  <2> QED
    BY <2>1, IspMiAssumption
<1>3. CASE Enabled(i) /\ Pullable(dmaqueue) /\ path[i] # "bad"
  <2>1. /\ TryDqbuf(dmaqueue) \in Bufs /\ TryDqbuf(dmaqueue) # NULL
        /\ i \in Paths
        /\ hwInit \in [Paths -> BufOrNull] /\ mi_buf \in [Paths -> BufOrNull]
        /\ mi_buf_shd \in [Paths -> BufOrNull]
    BY <1>3, PullBufFacts, IspMiAssumption DEF TypeOK
  <2>2. /\ dmaqueue' = PullBuf(dmaqueue)
        /\ hwInit' = [hwInit EXCEPT ![i] = TryDqbuf(dmaqueue)]
        /\ mi_buf_shd' = [mi_buf_shd EXCEPT ![i] = mi_buf[i]]
        /\ mi_buf' = [mi_buf EXCEPT ![i] = TryDqbuf(dmaqueue)]
        /\ filled' = filled \ {TryDqbuf(dmaqueue)}
    BY <1>3 DEF UpdatePath
  <2> QED
    BY <1>1, <1>2, <1>3, <2>1, <2>2
<1>4. CASE ~(Enabled(i) /\ Pullable(dmaqueue) /\ path[i] # "bad")
  <2>1. /\ UNCHANGED <<hwInit, mi_buf, mi_buf_shd, filled>>
        /\ Enabled(i) /\ path[i] # "bad" => dmaqueue = <<>>
        /\ ~Enabled(i) => dmaqueue' = dmaqueue
    BY <1>4 DEF UpdatePath, Pullable
  <2> QED
    BY <1>1, <1>2, <2>1
<1> QED
  BY <1>3, <1>4

\* isr_process_frame takes dev->lock before its loop and releases it after.
LEMMA LoopLockedStep ==
    ASSUME TypeOK, LoopLocked, [Next]_vars
    PROVE  LoopLocked'
<1>a. ASSUME UNCHANGED <<isr, lock>> PROVE LoopLocked'
  BY <1>a DEF LoopLocked
<1>1. CASE HwIsr
  BY <1>1 DEF HwIsr, LoopLocked, At, irq
<1>2. CASE IsrLock
  BY <1>2 DEF IsrLock, LoopLocked, At, irq
<1>3. CASE IsrTest
  BY <1>3 DEF IsrTest, IsrNextPath, LoopLocked, irq
<1>4. CASE IsrDeliver
  BY <1>4 DEF IsrDeliver, IsrNextPath, LoopLocked, irq
<1>5. CASE Tasklet
  BY <1>5 DEF Tasklet, LoopLocked, At, irq
<1>6. CASE UpdatePath
  <2>1. lock \in {"tasklet", "ioctl"} /\ lock' \in {lock, "free"} /\ isr' = isr
    BY <1>6, UpdateMoves
  <2> QED
    BY <2>1 DEF LoopLocked
<1>7. CASE UpdateCall
  BY <1>7 DEF UpdateCall, LoopLocked, At, irq
<1>8. CASE CleanVideoRaced
  <2>1. lock = "tasklet" /\ UpdateNextPath /\ isr' = isr
    BY <1>8 DEF CleanVideoRaced
  <2>2. lock' \in {lock, "free"}
    BY <2>1
  <2> QED
    BY <2>1, <2>2 DEF LoopLocked
<1>9. CASE \/ MiStart \/ MiStop \/ Open \/ Close \/ SetDriver \/ CfgUpd \/ MiOff
           \/ ClearDriver \/ CleanVideo \/ CleanQueue \/ CleanDwe \/ Stopped
           \/ FreeIrq \/ StreamWrite \/ ReturnAll
           \/ \E p \in Paths : FrameEnd(p)
           \/ \E b \in Bufs : SetBuffer(b)
           \/ \E b \in Bufs : Notify(b) \/ NotifyPush(b)
           \/ \E next \in {"set", "clear"} : SetStream(next)
           \/ UNCHANGED vars
  <2>1. UNCHANGED <<isr, lock>>
    BY <1>9 DEF FrameEnd, MiStart, MiStop, Open, Close, SetBuffer, SetDriver, CfgUpd, MiOff,
       ClearDriver, CleanVideo, CleanQueue, CleanDwe, Stopped, FreeIrq, Notify, NotifyPush, SetStream,
       StreamWrite, ReturnAll, vars, dev, bufs, hw, irq, proc, stream
  <2> QED
    BY <2>1, <1>a
<1> QED
  BY <1>1, <1>2, <1>3, <1>4, <1>5, <1>6, <1>7, <1>8, <1>9
     DEF Next, IsrStep, Ioctl, IoctlStep, RemoteStep

\* MI_START alone configures the paths.
LEMMA OnePathStep ==
    ASSUME OnePath, "two_paths" \in Closed, [Next]_vars
    PROVE  OnePath'
<1>a. ASSUME UNCHANGED <<path>> PROVE OnePath'
  BY <1>a DEF OnePath, Enabled
<1>1. CASE MiStart
  <2>1. \A p, q \in Paths : path'[p] # "off" /\ path'[q] # "off" => p = q
    BY <1>1 DEF MiStart
  <2> QED
    BY <2>1 DEF OnePath, Enabled
<1>2. CASE \/ HwIsr \/ IsrLock \/ IsrTest \/ IsrDeliver \/ Tasklet \/ UpdatePath
           \/ MiStop \/ Open \/ Close \/ SetDriver \/ UpdateCall \/ CfgUpd \/ MiOff
           \/ ClearDriver \/ CleanVideo \/ CleanVideoRaced \/ CleanQueue \/ CleanDwe
           \/ Stopped \/ FreeIrq \/ StreamWrite \/ ReturnAll
           \/ \E p \in Paths : FrameEnd(p)
           \/ \E b \in Bufs : SetBuffer(b)
           \/ \E b \in Bufs : Notify(b) \/ NotifyPush(b)
           \/ \E next \in {"set", "clear"} : SetStream(next)
           \/ UNCHANGED vars
  <2>1. UNCHANGED <<path>>
    BY <1>2 DEF FrameEnd, HwIsr, IsrLock, IsrTest, IsrDeliver, Tasklet, UpdatePath, MiStop,
       Open, Close, SetBuffer, SetDriver, UpdateCall, CfgUpd, MiOff, ClearDriver,
       CleanVideo, CleanVideoRaced, CleanQueue, CleanDwe, Stopped, FreeIrq, Notify, NotifyPush,
       SetStream, StreamWrite, ReturnAll, vars, dev, bufs, hw, irq, proc, stream
  <2> QED
    BY <2>1, <1>a
<1> QED
  BY <1>1, <1>2
     DEF Next, IsrStep, Ioctl, IoctlStep, RemoteStep

\* Linked to the video device, clean_dma_buffer takes no dev->lock; behind a
\* quiet stop there is no handler it could disturb.
LEMMA GuardedStep ==
    ASSUME TypeOK, Sequenced, QuietClean, PushedOnce, LockHeld, NoOops, ToVideo,
           [Next]_vars
    PROVE  LockHeld' /\ NoOops'
<1>p. TypeOK /\ Programmed
  BY DEF Sequenced
<1>a. ASSUME UNCHANGED <<isr, lock, i, mi_buf_shd, oops>> PROVE LockHeld' /\ NoOops'
  BY <1>a DEF LockHeld, NoOops
<1>1. CASE HwIsr
  BY <1>1 DEF HwIsr, LockHeld, NoOops, At, bufs
<1>2. CASE IsrLock
  BY <1>2 DEF IsrLock, LockHeld, NoOops, At, bufs
<1>3. CASE IsrTest
  BY <1>3 DEF IsrTest, IsrNextPath, LockHeld, NoOops, bufs
<1>4. CASE IsrDeliver
  BY <1>4 DEF IsrDeliver, IsrNextPath, LockHeld, NoOops, bufs
<1>5. CASE Tasklet
  BY <1>5 DEF Tasklet, LockHeld, NoOops, At, bufs
<1>6. CASE UpdatePath
  <2>1. /\ lock \in {"tasklet", "ioctl"} /\ lock' \in {lock, "free"}
        /\ isr' = isr /\ oops' = oops
    BY <1>6, UpdateMoves
  <2> QED
    BY <2>1 DEF LockHeld, NoOops
<1>7. CASE UpdateCall
  BY <1>7 DEF UpdateCall, LockHeld, NoOops, At, bufs
<1>8. CASE CleanVideo
  <2>1. Cleaning /\ UNCHANGED <<isr, lock, oops>>
    BY <1>8, <1>p, Moves DEF CleanVideo, Cleaning, irq
  <2>2. isr = "idle"
    BY <2>1 DEF QuietClean, FramePending
  <2> QED
    BY <2>1, <2>2 DEF LockHeld, NoOops
<1>9. CASE CleanVideoRaced
  <2>1. Cleaning /\ FramePending
    BY <1>9, <1>p, Moves DEF Cleaning, FramePending, CleanVideoRaced
  <2> QED
    BY <2>1 DEF QuietClean
<1>10. CASE CleanDwe
  BY <1>10 DEF CleanDwe
<1>11. ASSUME NEW b \in Bufs, Notify(b) \/ NotifyPush(b) PROVE LockHeld' /\ NoOops'
  <2>1. NotifyPush(b) => ~OnList(dmaqueue, b)
    BY DEF NotifyPush, PushedOnce, InIsp
  <2>2. UNCHANGED <<isr, lock, i, mi_buf_shd, oops>>
    BY <1>11, <2>1 DEF Notify, NotifyPush, irq
  <2> QED
    BY <2>2, <1>a
<1>12. CASE \/ MiStart \/ MiStop \/ Open \/ Close \/ SetDriver \/ CfgUpd \/ MiOff
            \/ ClearDriver \/ CleanQueue \/ Stopped \/ FreeIrq \/ StreamWrite
            \/ ReturnAll
            \/ \E p \in Paths : FrameEnd(p)
            \/ \E b \in Bufs : SetBuffer(b)
            \/ \E next \in {"set", "clear"} : SetStream(next)
            \/ UNCHANGED vars
  <2>1. UNCHANGED <<isr, lock, i, mi_buf_shd, oops>>
    BY <1>12 DEF FrameEnd, MiStart, MiStop, Open, Close, SetBuffer, SetDriver, CfgUpd,
       MiOff, ClearDriver, CleanQueue, Stopped, FreeIrq, SetStream, StreamWrite, ReturnAll,
       vars, dev, bufs, hw, irq, proc, stream
  <2> QED
    BY <2>1, <1>a
<1> QED
  BY <1>1, <1>2, <1>3, <1>4, <1>5, <1>6, <1>7, <1>8, <1>9, <1>10, <1>11, <1>12
     DEF Next, IsrStep, Ioctl, IoctlStep, RemoteStep

\* A frame end is handled before the next one and before the next MI_START.
LEMMA TimelyStep ==
    ASSUME TypeOK, Sequenced, Timely, "slow_frame" \in Closed, "dirty_start" \in Closed,
           [Next]_vars
    PROVE  Timely'
<1>p. TypeOK /\ Programmed /\ <<Hd, Left>> \in Points
  BY DEF Sequenced, Programmed
<1>a. ASSUME UNCHANGED <<todo, path, ris, isr, tasklet, lock, hwOn, imsc>> PROVE Timely'
  BY <1>a DEF Timely, Starting, FramePending, Enabled, Hd, Left
<1>1. ASSUME NEW p \in Paths, FrameEnd(p) PROVE Timely'
  <2>1. /\ ~FramePending /\ p \in hwOn /\ lock # "ioctl" /\ Hd # "update"
        /\ ris' = ris \cup {p}
        /\ UNCHANGED <<isr, tasklet, lock, hwOn, imsc, path>>
    BY <1>1 DEF FrameEnd, UpdatePending, Hd, irq, dev
  <2>2. Hd' = Hd /\ Left' = Left
    BY <1>1, <1>p, Moves DEF FrameEnd, proc
  <2>3. ~Starting
    BY <1>p, <2>1 DEF Timely, Starting, Points
  <2>4. p \in imsc
    BY <2>1 DEF Timely
  <2> QED
    BY <2>1, <2>2, <2>3, <2>4 DEF Timely, Starting, FramePending, Enabled
<1>2. CASE HwIsr
  <2>1. /\ ris # {} /\ isr = "idle" /\ ris' = ris \ imsc
        /\ UNCHANGED <<tasklet, lock>>
    BY <1>2 DEF HwIsr, hw, irq
  <2>2. Hd' = Hd /\ UNCHANGED <<hwOn, imsc, path>>
    BY <1>2, <1>p, Moves DEF HwIsr, proc, hw, dev
  <2>3. FramePending
    BY <2>1 DEF FramePending
  <2>4. ~Starting /\ ~Starting'
    BY <2>1, <2>2, <2>3 DEF Timely, Starting
  <2> QED
    BY <2>1, <2>2, <2>4 DEF Timely, Starting, Enabled
<1>3. CASE IsrLock
  <2>1. /\ isr # "idle" /\ lock = "free" /\ lock' = "isr" /\ isr' # "idle"
        /\ UNCHANGED <<tasklet, ris>>
    BY <1>3 DEF IsrLock, hw, irq
  <2>2. Hd' = Hd /\ UNCHANGED <<hwOn, imsc, path>>
    BY <1>3, <1>p, Moves DEF IsrLock, proc, hw, dev
  <2>3. FramePending
    BY <2>1 DEF FramePending
  <2>4. ~Starting /\ ~Starting'
    BY <2>1, <2>2, <2>3 DEF Timely, Starting
  <2> QED
    BY <2>1, <2>2, <2>4 DEF Timely, Starting, Enabled
<1>4. CASE IsrTest
  <2>1. /\ isr # "idle" /\ ris' = ris /\ lock' \in {lock, "free"}
        /\ UNCHANGED tasklet \/ isr' = "idle"
    BY <1>4 DEF IsrTest, IsrNextPath, hw, irq
  <2>2. Hd' = Hd /\ UNCHANGED <<hwOn, imsc, path>>
    BY <1>4, <1>p, Moves DEF IsrTest, proc, hw, dev
  <2>3. FramePending
    BY <2>1 DEF FramePending
  <2>4. ~Starting /\ ~Starting'
    BY <2>1, <2>2, <2>3 DEF Timely, Starting
  <2> QED
    BY <2>1, <2>2, <2>4 DEF Timely, Starting, Enabled
<1>5. CASE IsrDeliver
  <2>1. /\ isr # "idle" /\ ris' = ris /\ lock' \in {lock, "free"}
        /\ UNCHANGED tasklet \/ isr' = "idle"
    BY <1>5 DEF IsrDeliver, IsrNextPath, hw, irq
  <2>2. Hd' = Hd /\ UNCHANGED <<hwOn, imsc, path>>
    BY <1>5, <1>p, Moves DEF IsrDeliver, proc, hw, dev
  <2>3. FramePending
    BY <2>1 DEF FramePending
  <2>4. ~Starting /\ ~Starting'
    BY <2>1, <2>2, <2>3 DEF Timely, Starting
  <2> QED
    BY <2>1, <2>2, <2>4 DEF Timely, Starting, Enabled
<1>6. CASE Tasklet
  <2>1. /\ tasklet /\ lock = "free" /\ ~tasklet' /\ lock' = "tasklet"
        /\ UNCHANGED <<isr, ris>>
    BY <1>6 DEF Tasklet, hw, irq
  <2>2. Hd' = Hd /\ UNCHANGED <<hwOn, imsc, path>>
    BY <1>6, <1>p, Moves DEF Tasklet, proc, hw, dev
  <2>3. FramePending
    BY <2>1 DEF FramePending
  <2>4. ~Starting /\ ~Starting'
    BY <2>1, <2>2, <2>3 DEF Timely, Starting
  <2> QED
    BY <2>1, <2>2, <2>4 DEF Timely, Starting, Enabled
<1>7. CASE UpdatePath
  <2>1. /\ lock \in {"tasklet", "ioctl"} /\ lock' \in {lock, "free"}
        /\ UNCHANGED <<ris, isr, tasklet, hwOn, imsc, path, todo>>
    BY <1>7, UpdateMoves
  <2>2. Hd' = Hd /\ Left' = Left
    BY <1>p, <2>1, Moves
  <2> QED
    BY <2>1, <2>2 DEF Timely, Starting, FramePending, Enabled
<1>8. CASE MiStart
  <2>1. ~FramePending /\ hwOn = {} /\ UNCHANGED <<ris, irq, hwOn>>
    BY <1>8 DEF MiStart, hw
  <2>2. Hd' = "set_driver"
    BY <1>8, <1>p, Moves
  <2> QED
    BY <2>1, <2>2 DEF Timely, FramePending, irq
<1>9. CASE MiStop
  <2>1. lock # "ioctl" /\ UNCHANGED <<ris, hwOn, imsc, path, isr, tasklet, lock>>
    BY <1>9 DEF MiStop, At, Idle, hw, dev, irq
  <2>2. Hd' = "mi_off"
    BY <1>9, <1>p, Moves
  <2> QED
    BY <2>1, <2>2 DEF Timely, Starting, Enabled
<1>10. CASE Close
  <2>1. lock # "ioctl" /\ UNCHANGED <<ris, hwOn, imsc, path, isr, tasklet, lock>>
    BY <1>10 DEF Close, At, Idle, hw, dev, irq
  <2>2. Hd' \in {"mi_off", "stopped", "none"}
    BY <1>10, <1>p, Moves
  <2> QED
    BY <2>1, <2>2 DEF Timely, Starting, Enabled
<1>11. CASE SetDriver
  <2>1. /\ imsc' = {p \in Paths : Enabled(p)}
        /\ UNCHANGED <<ris, hwOn, path, isr, tasklet, lock>>
    BY <1>11 DEF SetDriver, irq
  <2>2. Hd = "set_driver" /\ Left = 4 /\ Hd' = "update"
    BY <1>11, <1>p, Moves DEF Points
  <2>3. ~FramePending /\ hwOn = {}
    BY <2>2 DEF Timely, Starting
  <2> QED
    BY <2>1, <2>2, <2>3 DEF Timely, FramePending, Enabled
<1>12. CASE UpdateCall
  <2>1. lock' = "ioctl" /\ UNCHANGED <<ris, hwOn, imsc, path, isr, tasklet>>
    BY <1>12 DEF UpdateCall, hw, dev
  <2>2. /\ Hd = "update" /\ Left' = Left - 1 /\ Hd' \in {"cfg_upd", "none"}
        /\ Left' > 1 => Left > 1
    BY <1>12, <1>p, Moves
  <2>3. ~FramePending /\ Starting
    BY <2>2 DEF Timely, Starting
  <2> QED
    BY <2>1, <2>2, <2>3 DEF Timely, FramePending, Enabled
<1>13. CASE CfgUpd
  <2>1. /\ hwOn' = {p \in Paths : Enabled(p)}
        /\ UNCHANGED <<ris, imsc, path, isr, tasklet, lock>>
    BY <1>13 DEF CfgUpd, dev, irq
  <2>2. Hd = "cfg_upd" /\ Hd' = "update" /\ Left' = 1
    BY <1>13, <1>p, Moves
  <2>3. ~FramePending /\ imsc = {p \in Paths : Enabled(p)}
    BY <2>2 DEF Timely, Starting
  <2> QED
    BY <2>1, <2>2, <2>3 DEF Timely, FramePending, Enabled
<1>14. CASE MiOff
  <2>1. lock # "ioctl" /\ lock' = lock /\ hwOn' = {}
    BY <1>14 DEF MiOff, At, irq
  <2>2. Hd' \in {"clear_driver", "none", "clean", "stopped"}
    BY <1>14, <1>p, Moves
  <2> QED
    BY <2>1, <2>2 DEF Timely, Starting
<1>15. CASE ClearDriver
  <2>1. lock # "ioctl" /\ UNCHANGED <<ris, hwOn, imsc, path, isr, tasklet, lock>>
    BY <1>15 DEF ClearDriver, At, Idle, hw, dev, irq
  <2>2. Hd' = "clean"
    BY <1>15, <1>p, Moves
  <2> QED
    BY <2>1, <2>2 DEF Timely, Starting, Enabled
<1>16. CASE CleanVideo
  <2>1. lock # "ioctl" /\ UNCHANGED <<ris, hwOn, imsc, path, isr, tasklet, lock>>
    BY <1>16 DEF CleanVideo, At, Idle, hw, dev, irq
  <2>2. Hd' = "clean_queue"
    BY <1>16, <1>p, Moves
  <2> QED
    BY <2>1, <2>2 DEF Timely, Starting, Enabled
<1>17. CASE CleanVideoRaced
  <2>1. lock = "tasklet" /\ UpdateNextPath /\ hwOn' = hwOn
    BY <1>17 DEF CleanVideoRaced
  <2>2. lock' # "ioctl"
    BY <2>1
  <2>3. Hd' = "clean_queue" /\ Cleaning
    BY <1>17, <1>p, Moves DEF Cleaning
  <2> QED
    BY <2>1, <2>2, <2>3 DEF Timely, Starting, Sequenced
<1>18. CASE CleanQueue
  <2>1. lock # "ioctl" /\ UNCHANGED <<ris, hwOn, imsc, path, isr, tasklet, lock>>
    BY <1>18 DEF CleanQueue, At, Idle, hw, dev, irq
  <2>2. Hd' \in {"none", "clean", "stopped"}
    BY <1>18, <1>p, Moves
  <2> QED
    BY <2>1, <2>2 DEF Timely, Starting, Enabled
<1>19. CASE CleanDwe
  <2>1. lock # "ioctl" /\ UNCHANGED <<ris, hwOn, imsc, path, isr, tasklet, lock>>
    BY <1>19 DEF CleanDwe, At, Idle, hw, dev, irq
  <2>2. Hd' \in {"none", "clean", "stopped"}
    BY <1>19, <1>p, Moves
  <2> QED
    BY <2>1, <2>2 DEF Timely, Starting, Enabled
<1>20. CASE Stopped
  <2>1. lock # "ioctl" /\ UNCHANGED <<ris, hwOn, imsc, path, isr, tasklet, lock>>
    BY <1>20 DEF Stopped, At, Idle, hw, dev, irq
  <2>2. Hd' = "free_irq"
    BY <1>20, <1>p, Moves
  <2> QED
    BY <2>1, <2>2 DEF Timely, Starting, Enabled
<1>21. CASE FreeIrq
  <2>1. lock # "ioctl" /\ UNCHANGED <<ris, hwOn, imsc, path, isr, tasklet, lock>>
    BY <1>21 DEF FreeIrq, At, Idle, hw, dev, irq
  <2>2. Hd' = "mi_off"
    BY <1>21, <1>p, Moves
  <2> QED
    BY <2>1, <2>2 DEF Timely, Starting, Enabled
<1>22. CASE \/ Open \/ StreamWrite \/ ReturnAll
            \/ \E b \in Bufs : SetBuffer(b)
            \/ \E b \in Bufs : Notify(b) \/ NotifyPush(b)
            \/ \E next \in {"set", "clear"} : SetStream(next)
            \/ UNCHANGED vars
  <2>1. UNCHANGED <<todo, path, ris, isr, tasklet, lock, hwOn, imsc>>
    BY <1>22 DEF Open, SetBuffer, Notify, NotifyPush, SetStream, StreamWrite, ReturnAll, vars, dev,
       bufs, hw, irq, proc, stream
  <2> QED
    BY <2>1, <1>a
<1> QED
  BY <1>1, <1>2, <1>3, <1>4, <1>5, <1>6, <1>7, <1>8, <1>9, <1>10, <1>11, <1>12, <1>13,
     <1>14, <1>15, <1>16, <1>17, <1>18, <1>19, <1>20, <1>21, <1>22
     DEF Next, IsrStep, Ioctl, IoctlStep, RemoteStep

\* Paths stop with no frame end to handle.
LEMMA PendingStep ==
    ASSUME TypeOK, Sequenced, QuietClean, Timely, Pending, "dirty_stop" \in Closed,
           [Next]_vars
    PROVE  Pending'
<1>p. TypeOK /\ Programmed
  BY DEF Sequenced
<1>a. ASSUME UNCHANGED <<ris, isr, tasklet, lock, hwOn>> PROVE Pending'
  BY <1>a DEF Pending, FramePending
<1>1. ASSUME NEW p \in Paths, FrameEnd(p) PROVE Pending'
  BY <1>1 DEF FrameEnd, Pending
<1>2. CASE HwIsr
  <2>1. FramePending /\ hwOn' = hwOn
    BY <1>2 DEF HwIsr, FramePending, hw
  <2> QED
    BY <2>1 DEF Pending
<1>3. CASE IsrLock
  <2>1. FramePending /\ hwOn' = hwOn
    BY <1>3 DEF IsrLock, FramePending, hw
  <2> QED
    BY <2>1 DEF Pending
<1>4. CASE IsrTest
  <2>1. FramePending /\ hwOn' = hwOn
    BY <1>4 DEF IsrTest, FramePending, hw
  <2> QED
    BY <2>1 DEF Pending
<1>5. CASE IsrDeliver
  <2>1. FramePending /\ hwOn' = hwOn
    BY <1>5 DEF IsrDeliver, FramePending, hw
  <2> QED
    BY <2>1 DEF Pending
<1>6. CASE Tasklet
  <2>1. FramePending /\ hwOn' = hwOn
    BY <1>6 DEF Tasklet, FramePending, hw
  <2> QED
    BY <2>1 DEF Pending
<1>7. CASE UpdatePath
  <2>1. /\ lock \in {"tasklet", "ioctl"} /\ lock' \in {lock, "free"}
        /\ UNCHANGED <<ris, isr, tasklet, hwOn>>
    BY <1>7, UpdateMoves
  <2> QED
    BY <2>1 DEF Pending, FramePending
<1>8. CASE UpdateCall
  <2>1. lock' = "ioctl" /\ UNCHANGED <<ris, hwOn, isr, tasklet>>
    BY <1>8 DEF UpdateCall, hw
  <2> QED
    BY <2>1 DEF Pending, FramePending
<1>9. CASE CfgUpd
  <2>1. Hd = "cfg_upd" /\ UNCHANGED <<ris, isr, tasklet, lock>>
    BY <1>9, <1>p, Moves DEF CfgUpd, irq
  <2>2. ~FramePending
    BY <2>1 DEF Timely, Starting
  <2> QED
    BY <2>1, <2>2 DEF Pending, FramePending
<1>10. CASE MiOff
  <2>1. ~FramePending /\ UNCHANGED <<ris, isr, tasklet, lock>>
    BY <1>10 DEF MiOff, irq
  <2> QED
    BY <2>1 DEF Pending, FramePending
<1>11. CASE CleanVideoRaced
  <2>1. Cleaning /\ FramePending
    BY <1>11, <1>p, Moves DEF Cleaning, FramePending, CleanVideoRaced
  <2> QED
    BY <2>1 DEF QuietClean
<1>12. CASE \/ MiStart \/ MiStop \/ Open \/ Close \/ SetDriver \/ ClearDriver
            \/ CleanVideo \/ CleanQueue \/ CleanDwe \/ Stopped \/ FreeIrq
            \/ StreamWrite \/ ReturnAll
            \/ \E b \in Bufs : SetBuffer(b)
            \/ \E b \in Bufs : Notify(b) \/ NotifyPush(b)
            \/ \E next \in {"set", "clear"} : SetStream(next)
            \/ UNCHANGED vars
  <2>1. UNCHANGED <<ris, isr, tasklet, lock, hwOn>>
    BY <1>12 DEF MiStart, MiStop, Open, Close, SetBuffer, SetDriver, ClearDriver,
       CleanVideo, CleanQueue, CleanDwe, Stopped, FreeIrq, Notify, NotifyPush, SetStream, StreamWrite,
       ReturnAll, vars, dev, bufs, hw, irq, proc, stream
  <2> QED
    BY <2>1, <1>a
<1> QED
  BY <1>1, <1>2, <1>3, <1>4, <1>5, <1>6, <1>7, <1>8, <1>9, <1>10, <1>11, <1>12
     DEF Next, IsrStep, Ioctl, IoctlStep, RemoteStep

-----------------------------------------------------------------------------
(***************************************************************************)
(* The pointers of update_dma_buffer, and the buffers behind them.         *)
(***************************************************************************)

\* isp_mi_start begins with no buffer in a pointer; from its first update to
\* the second, and through every tasklet, the turn of a path comes with its
\* mi_buf_shd free, so that update_dma_buffer overwrites nothing.
Emptied(p) == Enabled(p) => mi_buf_shd[p] = NULL
Shifted ==
    \A p \in Paths :
        /\ Hd = "set_driver" \/ (Hd = "update" /\ Left = 3) =>
              mi_buf[p] = NULL /\ mi_buf_shd[p] = NULL
        /\ Hd = "cfg_upd" /\ lock = "ioctl" => (p >= i => mi_buf[p] = NULL)
        /\ Hd \in {"update", "cfg_upd"} => mi_buf_shd[p] = NULL
        /\ lock = "ioctl" => (p >= i => mi_buf_shd[p] = NULL)
        /\ lock = "isr" => (p < i => Emptied(p))
        /\ tasklet => Emptied(p)
        /\ lock = "tasklet" => (p >= i => Emptied(p))

\* Every buffer is somewhere.
Kept == \A b \in Bufs : InIsp(b) \/ b \in remote \cup fresh

\* No step makes update_dma_buffer overwrite a buffer that was not delivered.
LEMMA ShiftedStep ==
    ASSUME TypeOK, Sequenced, QuietClean, Parked, LoopLocked, Timely, Pending, Shifted,
           "dirty_start" \in Closed, [Next]_vars
    PROVE  Shifted'
<1>p. TypeOK /\ Programmed /\ <<Hd, Left>> \in Points /\ i \in Paths
  BY DEF Sequenced, Programmed, TypeOK
<1>a. ASSUME UNCHANGED <<todo, path, lock, i, tasklet, mi_buf, mi_buf_shd>> PROVE Shifted'
  BY <1>a DEF Shifted, Emptied, Enabled, Hd, Left
<1>1. CASE IsrLock
  <2>1. /\ isr # "idle" /\ lock' = "isr" /\ i' = 0
        /\ UNCHANGED <<tasklet, mi_buf, mi_buf_shd, path>>
    BY <1>1 DEF IsrLock, bufs, dev
  <2>2. Hd' = Hd /\ Left' = Left
    BY <1>1, <1>p, Moves DEF IsrLock, proc
  <2> QED
    BY <1>p, <2>1, <2>2 DEF Shifted, Emptied, Enabled
<1>2. CASE IsrTest
  <2>1. isr = "loop" /\ lock = "isr" /\ UNCHANGED <<mi_buf, mi_buf_shd, path>>
    BY <1>2 DEF IsrTest, LoopLocked, bufs, dev
  <2>2. Hd' = Hd /\ Left' = Left
    BY <1>2, <1>p, Moves DEF IsrTest, proc
  <2>3. CASE isr' = "deliver" /\ UNCHANGED <<lock, tasklet, i>>
    BY <2>1, <2>2, <2>3 DEF Shifted, Emptied, Enabled
  <2>4. CASE Emptied(i) /\ IsrNextPath
    <3>1. \/ i' = i + 1 /\ UNCHANGED <<lock, tasklet>>
          \/ lock' = "free" /\ \A p \in Paths : p <= i
      BY <1>p, <2>4, IspMiAssumption DEF IsrNextPath
    <3> QED
      BY <1>p, <2>1, <2>2, <2>4, <3>1 DEF Shifted, Emptied, Enabled
  <2> QED
    BY <1>2, <2>3, <2>4 DEF IsrTest, Emptied
<1>3. CASE IsrDeliver
  <2>1. isr = "deliver" /\ lock = "isr" /\ path' = path
    BY <1>3 DEF IsrDeliver, LoopLocked, dev
  <2>2. Hd' = Hd /\ Left' = Left
    BY <1>3, <1>p, Moves DEF IsrDeliver, proc
  <2>3. CASE mi_buf_shd[i] = NULL
    <3>1. UNCHANGED <<lock, tasklet, i, mi_buf, mi_buf_shd>>
      BY <1>3, <2>3 DEF IsrDeliver, bufs, irq
    <3> QED
      BY <2>1, <2>2, <3>1 DEF Shifted, Emptied, Enabled
  <2>4. CASE mi_buf_shd[i] # NULL
    <3>1. mi_buf' = mi_buf /\ IsrNextPath
      BY <1>3, <2>4 DEF IsrDeliver
    <3>2. \A p \in Paths : mi_buf_shd'[p] = IF p = i THEN NULL ELSE mi_buf_shd[p]
      BY <1>3, <1>p, <2>4 DEF IsrDeliver, TypeOK
    <3>3. \/ i' = i + 1 /\ UNCHANGED <<lock, tasklet>>
          \/ lock' = "free" /\ \A p \in Paths : p <= i
      BY <1>p, <3>1, IspMiAssumption DEF IsrNextPath
    <3> QED
      BY <1>p, <2>1, <2>2, <3>1, <3>2, <3>3 DEF Shifted, Emptied, Enabled
  <2> QED
    BY <2>3, <2>4
<1>4. CASE Tasklet
  <2>1. /\ tasklet /\ ~tasklet' /\ lock' = "tasklet" /\ i' = 0
        /\ UNCHANGED <<mi_buf, mi_buf_shd, path>>
    BY <1>4 DEF Tasklet, bufs, dev
  <2>2. Hd' = Hd /\ Left' = Left
    BY <1>4, <1>p, Moves DEF Tasklet, proc
  <2> QED
    BY <2>1, <2>2 DEF Shifted, Emptied, Enabled
<1>5. CASE UpdatePath
  <2>1. /\ lock \in {"tasklet", "ioctl"} /\ UNCHANGED <<path, tasklet, todo>>
        /\ \/ i' = i + 1 /\ lock' = lock
           \/ lock' = "free"
        /\ \/ UNCHANGED <<mi_buf, mi_buf_shd>>
           \/ \E b \in Bufs : \A p \in Paths :
                 /\ mi_buf'[p] = IF p = i THEN b ELSE mi_buf[p]
                 /\ mi_buf_shd'[p] = IF p = i THEN mi_buf[p] ELSE mi_buf_shd[p]
    BY <1>5, UpdateMoves
  <2>2. Hd' = Hd /\ Left' = Left
    BY <1>p, <2>1, Moves
  <2>3. CASE lock = "tasklet"
    <3>1. ~tasklet /\ ~Starting
      BY <2>3 DEF Timely, Pending, FramePending
    <3>2. Hd \notin {"set_driver", "update", "cfg_upd"}
      BY <3>1 DEF Starting
    <3> QED
      BY <1>p, <2>1, <2>2, <2>3, <3>1, <3>2 DEF Shifted, Emptied, Enabled
  <2>4. CASE lock = "ioctl"
    <3>1. ~tasklet /\ Hd \in {"cfg_upd", "none"}
      BY <2>4 DEF Timely, Starting, FramePending, Sequenced
    <3> QED
      BY <1>p, <2>1, <2>2, <2>4, <3>1 DEF Shifted, Emptied, Enabled
  <2> QED
    BY <2>1, <2>3, <2>4
<1>6. CASE MiStart
  <2>1. ~FramePending /\ "driver" \notin state /\ UNCHANGED <<irq, mi_buf, mi_buf_shd>>
    BY <1>6 DEF MiStart, bufs
  <2>2. Hd = "none" /\ Hd' = "set_driver" /\ lock # "ioctl"
    BY <1>6, <1>p, Moves DEF MiStart, Idle
  <2>3. /\ NoPointers
        /\ ~tasklet' /\ lock' \notin {"isr", "tasklet", "ioctl"}
    BY <2>1, <2>2 DEF Parked, FramePending, LoopLocked, irq
  <2> QED
    BY <2>1, <2>2, <2>3 DEF Shifted, NoPointers
<1>7. CASE MiStop
  <2>1. Hd' \notin {"set_driver", "update", "cfg_upd"}
    BY <1>7, <1>p, Moves
  <2>2. lock # "ioctl" /\ UNCHANGED <<lock, i, tasklet, mi_buf, mi_buf_shd, path>>
    BY <1>7 DEF MiStop, At, Idle, irq, bufs, dev
  <2> QED
    BY <2>1, <2>2 DEF Shifted, Emptied, Enabled
<1>8. CASE Close
  <2>1. Hd' \notin {"set_driver", "update", "cfg_upd"}
    BY <1>8, <1>p, Moves
  <2>2. lock # "ioctl" /\ UNCHANGED <<lock, i, tasklet, mi_buf, mi_buf_shd, path>>
    BY <1>8 DEF Close, At, Idle, irq, bufs, dev
  <2> QED
    BY <2>1, <2>2 DEF Shifted, Emptied, Enabled
<1>9. CASE SetDriver
  <2>1. Hd = "set_driver" /\ Hd' = "update" /\ Left' = 3
    BY <1>9, <1>p, Moves
  <2>2. lock # "ioctl" /\ UNCHANGED <<lock, i, tasklet, mi_buf, mi_buf_shd, path>>
    BY <1>9 DEF SetDriver, At, irq, bufs
  <2> QED
    BY <2>1, <2>2 DEF Shifted, Emptied, Enabled
<1>10. CASE UpdateCall
  <2>1. /\ Hd = "update"
        /\ (Left = 3 /\ Hd' = "cfg_upd") \/ Hd' = "none"
    BY <1>10, <1>p, Moves
  <2>2. lock' = "ioctl" /\ UNCHANGED <<tasklet, mi_buf, mi_buf_shd, path>>
    BY <1>10 DEF UpdateCall, dev, bufs
  <2> QED
    BY <2>1, <2>2 DEF Shifted, Emptied, Enabled
<1>11. CASE CfgUpd
  <2>1. Hd = "cfg_upd" /\ Hd' = "update" /\ Left' = 1
    BY <1>11, <1>p, Moves
  <2>2. lock # "ioctl" /\ UNCHANGED <<lock, i, tasklet, mi_buf, mi_buf_shd, path>>
    BY <1>11 DEF CfgUpd, At, irq, bufs, dev
  <2> QED
    BY <2>1, <2>2 DEF Shifted, Emptied, Enabled
<1>12. CASE MiOff
  <2>1. Hd' \notin {"set_driver", "update", "cfg_upd"}
    BY <1>12, <1>p, Moves
  <2>2. lock # "ioctl" /\ UNCHANGED <<lock, i, tasklet, mi_buf, mi_buf_shd, path>>
    BY <1>12 DEF MiOff, At, Idle, irq, bufs, dev
  <2> QED
    BY <2>1, <2>2 DEF Shifted, Emptied, Enabled
<1>13. CASE ClearDriver
  <2>1. Hd' \notin {"set_driver", "update", "cfg_upd"}
    BY <1>13, <1>p, Moves
  <2>2. lock # "ioctl" /\ UNCHANGED <<lock, i, tasklet, mi_buf, mi_buf_shd, path>>
    BY <1>13 DEF ClearDriver, At, Idle, irq, bufs, dev
  <2> QED
    BY <2>1, <2>2 DEF Shifted, Emptied, Enabled
<1>14. CASE CleanVideo
  <2>1. \A p \in Paths : mi_buf'[p] = NULL /\ mi_buf_shd'[p] = NULL
    BY <1>14 DEF CleanVideo
  <2> QED
    BY <2>1 DEF Shifted, Emptied
<1>15. CASE CleanVideoRaced
  <2>1. Cleaning /\ FramePending
    BY <1>15, <1>p, Moves DEF Cleaning, FramePending, CleanVideoRaced
  <2> QED
    BY <2>1 DEF QuietClean
<1>16. CASE CleanQueue
  <2>1. Hd' \notin {"set_driver", "update", "cfg_upd"}
    BY <1>16, <1>p, Moves
  <2>2. lock # "ioctl" /\ UNCHANGED <<lock, i, tasklet, mi_buf, mi_buf_shd, path>>
    BY <1>16 DEF CleanQueue, At, Idle, irq, bufs, dev
  <2> QED
    BY <2>1, <2>2 DEF Shifted, Emptied, Enabled
<1>17. CASE CleanDwe
  <2>1. \A p \in Paths : mi_buf'[p] = NULL /\ mi_buf_shd'[p] = NULL
    BY <1>17 DEF CleanDwe
  <2> QED
    BY <2>1 DEF Shifted, Emptied
<1>18. CASE Stopped
  <2>1. Hd' \notin {"set_driver", "update", "cfg_upd"}
    BY <1>18, <1>p, Moves
  <2>2. lock # "ioctl" /\ UNCHANGED <<lock, i, tasklet, mi_buf, mi_buf_shd, path>>
    BY <1>18 DEF Stopped, At, Idle, irq, bufs, dev
  <2> QED
    BY <2>1, <2>2 DEF Shifted, Emptied, Enabled
<1>19. CASE FreeIrq
  <2>1. Hd' \notin {"set_driver", "update", "cfg_upd"}
    BY <1>19, <1>p, Moves
  <2>2. lock # "ioctl" /\ UNCHANGED <<lock, i, tasklet, mi_buf, mi_buf_shd, path>>
    BY <1>19 DEF FreeIrq, At, Idle, irq, bufs, dev
  <2> QED
    BY <2>1, <2>2 DEF Shifted, Emptied, Enabled
<1>20. CASE \/ HwIsr \/ Open \/ StreamWrite \/ ReturnAll
            \/ \E p \in Paths : FrameEnd(p)
            \/ \E b \in Bufs : SetBuffer(b)
            \/ \E b \in Bufs : Notify(b) \/ NotifyPush(b)
            \/ \E next \in {"set", "clear"} : SetStream(next)
            \/ UNCHANGED vars
  <2>1. UNCHANGED <<todo, path, lock, i, tasklet, mi_buf, mi_buf_shd>>
    BY <1>20 DEF FrameEnd, HwIsr, Open, SetBuffer, Notify, NotifyPush, SetStream, StreamWrite,
       ReturnAll, vars, dev, bufs, hw, irq, proc, stream
  <2> QED
    BY <2>1, <1>a
<1> QED
  BY <1>1, <1>2, <1>3, <1>4, <1>5, <1>6, <1>7, <1>8, <1>9, <1>10, <1>11, <1>12, <1>13,
     <1>14, <1>15, <1>16, <1>17, <1>18, <1>19, <1>20
     DEF Next, IsrStep, Ioctl, IoctlStep, RemoteStep

\* Linked to the dewarper no buffer goes astray then.
LEMMA KeptStep ==
    ASSUME TypeOK, Shifted, Kept, ~ToVideo, [Next]_vars
    PROVE  Kept'
<1>p. i \in Nat
  BY IspMiAssumption DEF TypeOK
<1>a. ASSUME UNCHANGED <<dmaqueue, mi_buf, mi_buf_shd, remote, fresh>> PROVE Kept'
  BY <1>a DEF Kept, InIsp, OnList
<1>1. CASE IsrDeliver
  <2> USE IspMiAssumption
  <2>1. CASE mi_buf_shd[i] = NULL
    BY <1>1, <2>1 DEF IsrDeliver, Kept, InIsp, OnList, bufs
  <2>2. CASE mi_buf_shd[i] # NULL
    <3>1. /\ \A p \in Paths : mi_buf_shd'[p] = IF p = i THEN NULL ELSE mi_buf_shd[p]
          /\ remote' = remote \cup {mi_buf_shd[i]}
          /\ UNCHANGED <<dmaqueue, mi_buf, fresh>>
      BY <1>1, <2>2 DEF IsrDeliver, TypeOK
    <3> QED
      BY <3>1 DEF Kept, InIsp, OnList
  <2> QED
    BY <2>1, <2>2
<1>2. CASE UpdatePath
  <2>0. remote' = remote /\ fresh' = fresh /\ i \in Paths /\ dmaqueue \in Seq(Bufs)
    BY <1>2, UpdateMoves DEF TypeOK
  <2>1. CASE Enabled(i) /\ Pullable(dmaqueue) /\ path[i] # "bad"
    <3>1. mi_buf_shd[i] = NULL
      BY <1>2, <1>p, <2>0, <2>1, UpdateMoves DEF Shifted, Emptied
    <3>2. PICK b \in Bufs :
             /\ b = TryDqbuf(dmaqueue)
             /\ dmaqueue' = PullBuf(dmaqueue)
             /\ \A p \in Paths :
                   /\ mi_buf'[p] = IF p = i THEN b ELSE mi_buf[p]
                   /\ mi_buf_shd'[p] = IF p = i THEN mi_buf[p] ELSE mi_buf_shd[p]
      BY <1>2, <2>1, UpdateMoves DEF Pullable
    <3>3. \A c : OnList(dmaqueue, c) <=> OnList(dmaqueue', c) \/ c = b
      BY <2>0, <2>1, <3>2, PullBufFacts
    <3> QED
      BY <2>0, <3>1, <3>2, <3>3, IspMiAssumption DEF Kept, InIsp
  <2>2. CASE Enabled(i) /\ Pullable(dmaqueue) /\ path[i] = "bad"
    <3>1. /\ dmaqueue' = PushBuf(PullBuf(dmaqueue), TryDqbuf(dmaqueue))
          /\ UNCHANGED <<mi_buf, mi_buf_shd>>
      BY <1>2, <2>2 DEF UpdatePath
    <3>2. \A c : OnList(dmaqueue', c) <=> OnList(dmaqueue, c)
      BY <2>0, <2>2, <3>1, PullBufFacts, PushBufFacts
    <3> QED
      BY <2>0, <3>1, <3>2 DEF Kept, InIsp
  <2>3. CASE ~(Enabled(i) /\ Pullable(dmaqueue))
    BY <1>2, <2>0, <2>3 DEF UpdatePath, Kept, InIsp, OnList
  <2> QED
    BY <2>1, <2>2, <2>3
<1>3. ASSUME NEW b \in Bufs, SetBuffer(b) PROVE Kept'
  <2>1. /\ fresh' = fresh \ {b} /\ dmaqueue' = PushBuf(dmaqueue, b)
        /\ UNCHANGED <<mi_buf, mi_buf_shd, remote>>
    BY <1>3 DEF SetBuffer
  <2>2. \A c : OnList(dmaqueue', c) <=> OnList(dmaqueue, c) \/ c = b
    BY <2>1, PushBufFacts DEF TypeOK
  <2> QED
    BY <2>1, <2>2 DEF Kept, InIsp
<1>4. CASE CleanVideo
  BY <1>4 DEF CleanVideo
<1>5. CASE CleanVideoRaced
  BY <1>5 DEF CleanVideoRaced
<1>6. CASE CleanQueue
  BY <1>6 DEF CleanQueue
<1>7. CASE CleanDwe
  <2>1. fresh' = fresh \cup {b \in Bufs : InIsp(b)} /\ remote' = remote
    BY <1>7 DEF CleanDwe
  <2> QED
    BY <2>1 DEF Kept
<1>8. ASSUME NEW b \in Bufs, Notify(b) PROVE Kept'
  <2>1. UNCHANGED <<dmaqueue, mi_buf, mi_buf_shd>> /\ ToVideo' = ToVideo
    BY <1>8, EnvFixed DEF Notify
  <2>2. remote \cup fresh \subseteq remote' \cup fresh'
    BY <1>8 DEF Notify
  <2> QED
    BY <2>1, <2>2 DEF Kept, InIsp, OnList
<1>11. ASSUME NEW b \in Bufs, NotifyPush(b) PROVE Kept'
  <2>1. remote' = remote \ {b} /\ UNCHANGED <<mi_buf, mi_buf_shd, fresh>>
    BY <1>11 DEF NotifyPush
  <2>2. CASE OnList(dmaqueue, b)
    BY <1>11, <2>1, <2>2 DEF NotifyPush, Kept, InIsp, OnList
  <2>3. CASE ~OnList(dmaqueue, b)
    <3>1. dmaqueue' = PushBuf(dmaqueue, b)
      BY <1>11, <2>3 DEF NotifyPush
    <3>2. \A c : OnList(dmaqueue', c) <=> OnList(dmaqueue, c) \/ c = b
      BY <3>1, PushBufFacts DEF TypeOK
    <3> QED
      BY <2>1, <3>2 DEF Kept, InIsp
  <2> QED
    BY <2>2, <2>3
<1>9. CASE ReturnAll
  <2>1. remote' = Bufs
    BY <1>9 DEF ReturnAll
  <2> QED
    BY <2>1 DEF Kept
<1>10. CASE \/ HwIsr \/ IsrLock \/ IsrTest \/ Tasklet \/ MiStart \/ MiStop \/ Open
            \/ Close \/ SetDriver \/ UpdateCall \/ CfgUpd \/ MiOff \/ ClearDriver
            \/ Stopped \/ FreeIrq \/ StreamWrite
            \/ \E p \in Paths : FrameEnd(p)
            \/ \E next \in {"set", "clear"} : SetStream(next)
            \/ UNCHANGED vars
  <2>1. UNCHANGED <<dmaqueue, mi_buf, mi_buf_shd, remote, fresh>>
    BY <1>10 DEF FrameEnd, HwIsr, IsrLock, IsrTest, Tasklet, MiStart, MiStop, Open, Close,
       SetDriver, UpdateCall, CfgUpd, MiOff, ClearDriver, Stopped, FreeIrq, SetStream,
       StreamWrite, vars, dev, bufs, hw, irq, proc, stream
  <2> QED
    BY <2>1, <1>a
<1> QED
  BY <1>1, <1>2, <1>3, <1>4, <1>5, <1>6, <1>7, <1>8, <1>9, <1>10, <1>11
     DEF Next, IsrStep, Ioctl, IoctlStep, RemoteStep

-----------------------------------------------------------------------------
(***************************************************************************)
(* What the hardware writes to, with a single path.                        *)
(***************************************************************************)

\* The frame of path p has ended and update_dma_buffer has not come to p yet,
\* or isp_mi_start is about to make it.
Late(p) ==
    \/ ris # {} \/ isr # "idle" \/ tasklet
    \/ Hd = "update"
    \/ lock \in {"tasklet", "ioctl"} /\ p >= i

\* One path, started with enough buffers: from CFG_UPD on the hardware has a
\* buffer programmed, and writes to that one or to the one before it.
Aimed ==
    /\ \A p \in Paths : path[p] # "bad"
    /\ \A p \in Paths : Enabled(p) =>
          /\ Hd = "set_driver" \/ (Hd = "update" /\ Left = 3) => dmaqueue # <<>>
          /\ Hd = "cfg_upd" /\ lock = "ioctl" => (p >= i => dmaqueue # <<>>)
          /\ Hd = "cfg_upd" /\ (lock = "ioctl" => p < i) =>
                mi_buf[p] = hwInit[p] /\ mi_buf[p] # NULL
    /\ \A p \in hwOn :
          /\ mi_buf[p] = hwInit[p] /\ mi_buf[p] # NULL
          /\ hwCur[p] = mi_buf[p] \/ hwCur[p] = mi_buf_shd[p]
          /\ hwCur[p] # NULL
          /\ Late(p) => hwCur[p] = mi_buf[p]

\* Which buffer of the path is being written to: the one in mi_buf_shd until
\* its frame ends, then the one in mi_buf.
Whole ==
    /\ \A p \in Paths : /\ mi_buf_shd[p] # NULL => mi_buf[p] # NULL
                        /\ mi_buf[p] # NULL => Enabled(p)
                        /\ Hd = "cfg_upd" /\ mi_buf[p] # NULL => hwInit[p] = mi_buf[p]
    /\ \A p \in hwOn :
          /\ mi_buf[p] # NULL => hwInit[p] = mi_buf[p]
          /\ mi_buf_shd[p] # NULL =>
                \/ hwCur[p] = mi_buf_shd[p] /\ ~FramePending
                \/ hwCur[p] = mi_buf_shd[p] /\ lock = "tasklet" /\ p < i
                \/ mi_buf_shd[p] \in filled /\ hwCur[p] = mi_buf[p]
          /\ mi_buf[p] # NULL /\ Late(p) => hwCur[p] = mi_buf[p]

\* Every update_dma_buffer comes after CFG_UPD has loaded the address before it.
LEMMA AimedStep ==
    ASSUME TypeOK, Sequenced, OnePath, Timely, Aimed, "dirty_start" \in Closed,
           "empty_start" \in Closed, [Next]_vars
    PROVE  Aimed'
<1>p. /\ TypeOK /\ Programmed /\ <<Hd, Left>> \in Points
      /\ i \in Paths /\ hwOn \subseteq Paths
  BY DEF Sequenced, Programmed, TypeOK
<1>a. ASSUME UNCHANGED <<todo, path, dmaqueue, lock, i, ris, isr, tasklet, mi_buf,
                         mi_buf_shd, hwOn, hwInit, hwCur>>
      PROVE Aimed'
  BY <1>a DEF Aimed, Late, Enabled, Hd, Left
<1>1. ASSUME NEW p \in Paths, FrameEnd(p) PROVE Aimed'
  <2>1. /\ p \in hwOn
        /\ \A q \in Paths : hwCur'[q] = IF q = p THEN hwInit[p] ELSE hwCur[q]
        /\ UNCHANGED <<isr, tasklet, lock, i, hwOn, path, dmaqueue, mi_buf, mi_buf_shd,
                       hwInit>>
    BY <1>1 DEF FrameEnd, TypeOK, irq, dev, bufs
  <2>2. Hd' = Hd /\ Left' = Left
    BY <1>1, <1>p, Moves DEF FrameEnd, proc
  <2>3. \A q \in hwOn : q = p
    BY <1>p, <2>1 DEF Timely, OnePath
  <2> QED
    BY <1>p, <2>1, <2>2, <2>3 DEF Aimed, Enabled
<1>2. CASE HwIsr
  <2>1. ris # {} /\ UNCHANGED <<tasklet, lock, i, mi_buf_shd, dmaqueue>>
    BY <1>2 DEF HwIsr, bufs
  <2>2. FramePending /\ \A p \in Paths : Late(p)
    BY <2>1 DEF FramePending, Late
  <2>3. /\ Hd' = Hd /\ Left' = Left
        /\ UNCHANGED <<path, hwOn, hwInit, hwCur, mi_buf>>
    BY <1>2, <1>p, Moves DEF HwIsr, proc, dev, hw, bufs
  <2>4. Hd \notin {"set_driver", "update", "cfg_upd"}
    BY <2>2 DEF Timely, Starting
  <2> QED
    BY <1>p, <2>1, <2>2, <2>3, <2>4 DEF Aimed, Enabled
<1>3. CASE IsrLock
  <2>1. isr # "idle" /\ lock' # "ioctl" /\ UNCHANGED <<mi_buf_shd, dmaqueue>>
    BY <1>3 DEF IsrLock, bufs
  <2>2. FramePending /\ \A p \in Paths : Late(p)
    BY <2>1 DEF FramePending, Late
  <2>3. /\ Hd' = Hd /\ Left' = Left
        /\ UNCHANGED <<path, hwOn, hwInit, hwCur, mi_buf>>
    BY <1>3, <1>p, Moves DEF IsrLock, proc, dev, hw, bufs
  <2>4. Hd \notin {"set_driver", "update", "cfg_upd"}
    BY <2>2 DEF Timely, Starting
  <2> QED
    BY <1>p, <2>1, <2>2, <2>3, <2>4 DEF Aimed, Enabled
<1>4. CASE IsrTest
  <2>1. isr # "idle" /\ lock' \in {lock, "free"} /\ UNCHANGED <<mi_buf_shd, dmaqueue>>
    BY <1>4 DEF IsrTest, IsrNextPath, bufs
  <2>2. FramePending /\ \A p \in Paths : Late(p)
    BY <2>1 DEF FramePending, Late
  <2>3. /\ Hd' = Hd /\ Left' = Left
        /\ UNCHANGED <<path, hwOn, hwInit, hwCur, mi_buf>>
    BY <1>4, <1>p, Moves DEF IsrTest, proc, dev, hw, bufs
  <2>4. Hd \notin {"set_driver", "update", "cfg_upd"}
    BY <2>2 DEF Timely, Starting
  <2> QED
    BY <1>p, <2>1, <2>2, <2>3, <2>4 DEF Aimed, Enabled
<1>5. CASE IsrDeliver
  <2>1. isr # "idle" /\ dmaqueue' = dmaqueue
    BY <1>5 DEF IsrDeliver, bufs
  <2>2. FramePending /\ \A p \in Paths : Late(p)
    BY <2>1 DEF FramePending, Late
  <2>3. /\ Hd' = Hd /\ Left' = Left
        /\ UNCHANGED <<path, hwOn, hwInit, hwCur, mi_buf>>
    BY <1>5, <1>p, Moves DEF IsrDeliver, proc, dev, hw, bufs
  <2>4. Hd \notin {"set_driver", "update", "cfg_upd"}
    BY <2>2 DEF Timely, Starting
  <2> QED
    BY <1>p, <2>1, <2>2, <2>3, <2>4 DEF Aimed, Enabled
<1>6. CASE Tasklet
  <2>1. tasklet /\ lock' # "ioctl" /\ UNCHANGED <<mi_buf_shd, dmaqueue>>
    BY <1>6 DEF Tasklet, bufs
  <2>2. FramePending /\ \A p \in Paths : Late(p)
    BY <2>1 DEF FramePending, Late
  <2>3. /\ Hd' = Hd /\ Left' = Left
        /\ UNCHANGED <<path, hwOn, hwInit, hwCur, mi_buf>>
    BY <1>6, <1>p, Moves DEF Tasklet, proc, dev, hw, bufs
  <2>4. Hd \notin {"set_driver", "update", "cfg_upd"}
    BY <2>2 DEF Timely, Starting
  <2> QED
    BY <1>p, <2>1, <2>2, <2>3, <2>4 DEF Aimed, Enabled
<1>7. CASE UpdatePath
  <2>1. /\ lock \in {"tasklet", "ioctl"}
        /\ UNCHANGED <<path, ris, isr, tasklet, hwOn, hwCur, todo>>
        /\ \/ i' = i + 1 /\ lock' = lock
           \/ lock' = "free" /\ \A p \in Paths : p <= i
    BY <1>7, UpdateMoves
  <2>2. Hd' = Hd /\ Left' = Left
    BY <1>p, <2>1, Moves
  <2>3. /\ Hd \notin {"set_driver", "update"}
        /\ Hd = "cfg_upd" => lock = "ioctl" /\ hwOn = {}
    BY <1>p, <2>1 DEF Sequenced, Timely, Starting, FramePending, Points
  <2>4. hwOn # {} => ris = {} /\ isr = "idle" /\ ~tasklet
    BY <2>1 DEF Timely, Starting, FramePending
  <2>5. /\ hwOn # {} => \A p \in Paths : p \in hwOn <=> Enabled(p)
        /\ \A p \in hwOn : Late(p)' => p > i
    BY <1>p, <2>1, <2>2, <2>3, <2>4 DEF Timely, Late
  <2>6. CASE /\ UNCHANGED <<hwInit, mi_buf, mi_buf_shd>>
             /\ Enabled(i) => dmaqueue = <<>>
             /\ ~Enabled(i) => dmaqueue' = dmaqueue
    <3>1. \A p \in hwOn : Late(p)' => Late(p)
      BY <1>p, <2>1, <2>5 DEF Late
    <3>2. ASSUME NEW p \in Paths, Enabled(p), Hd = "cfg_upd"
          PROVE  /\ lock' = "ioctl" /\ p >= i' => dmaqueue' # <<>>
                 /\ (lock' = "ioctl" => p < i') =>
                       mi_buf[p] = hwInit[p] /\ mi_buf[p] # NULL
      <4>1. CASE p = i
        BY <2>3, <2>6, <3>2, <4>1 DEF Aimed
      <4>2. CASE p # i
        <5>1. ~Enabled(i)
          BY <1>p, <3>2, <4>2 DEF OnePath
        <5> QED
          BY <1>p, <2>1, <2>3, <2>6, <3>2, <4>2, <5>1 DEF Aimed
      <4> QED
        BY <4>1, <4>2
    <3> QED
      BY <1>p, <2>1, <2>2, <2>3, <2>6, <3>1, <3>2 DEF Aimed, Enabled
  <2>7. ASSUME NEW b \in Bufs, Enabled(i), b # NULL,
               \A p \in Paths :
                  /\ hwInit'[p] = IF p = i THEN b ELSE hwInit[p]
                  /\ mi_buf'[p] = IF p = i THEN b ELSE mi_buf[p]
                  /\ mi_buf_shd'[p] = IF p = i THEN mi_buf[p] ELSE mi_buf_shd[p]
        PROVE  Aimed'
    <3>1. \A p \in Paths : Enabled(p) => p = i
      BY <1>p, <2>7 DEF OnePath
    <3>2. \A p \in hwOn : p = i /\ Late(p) /\ ~Late(p)'
      BY <1>p, <2>1, <2>5, <3>1 DEF Late
    <3>3. \A p \in hwOn : mi_buf_shd'[p] = hwCur[p] /\ hwCur[p] # NULL
      BY <1>p, <2>7, <3>2 DEF Aimed
    <3>4. Hd = "cfg_upd" => ~(lock' = "ioctl" /\ i >= i')
      BY <1>p, <2>1
    <3> QED
      BY <1>p, <2>1, <2>2, <2>3, <2>7, <3>1, <3>2, <3>3, <3>4 DEF Aimed, Enabled
  <2> QED
    BY <1>7, <1>p, <2>6, <2>7, UpdateMoves DEF Aimed
<1>8. CASE MiStart
  <2>1. hwOn' = {}
    BY <1>8 DEF MiStart, hw
  <2>2. Hd' = "set_driver" /\ dmaqueue' = dmaqueue
    BY <1>8, <1>p, Moves DEF MiStart, bufs
  <2>3. PICK cfg \in [Paths -> PathConfig] : EnoughBuffers(cfg) /\ path' = cfg
    BY <1>8 DEF MiStart
  <2>4. ASSUME NEW p \in Paths, cfg[p] # "off" PROVE dmaqueue # <<>>
    <3>1. /\ Cardinality({q \in Paths : cfg[q] = "on"}) \in Nat
          /\ Cardinality({q \in Paths : cfg[q] = "on"}) # 0
      <4>0. IsFiniteSet(Paths)
        BY IspMiAssumption, FS_Interval
      <4>1. IsFiniteSet({q \in Paths : cfg[q] = "on"})
        BY <4>0, FS_Subset
      <4>2. p \in {q \in Paths : cfg[q] = "on"}
        BY <2>3, <2>4 DEF EnoughBuffers
      <4> QED
        BY <4>1, <4>2, FS_CardinalityType, FS_EmptySet
    <3>2. /\ Len(dmaqueue) >= Cardinality({q \in Paths : cfg[q] = "on"})
          /\ Len(dmaqueue) \in Nat
      BY <2>3 DEF EnoughBuffers, TypeOK
    <3>3. Len(dmaqueue) # 0
      BY <3>1, <3>2
    <3> QED
      BY <3>3, EmptySeq
  <2> QED
    BY <2>1, <2>2, <2>3, <2>4 DEF Aimed, Enabled, EnoughBuffers
<1>9. CASE MiStop
  <2>1. Hd' \notin {"set_driver", "update", "cfg_upd"}
    BY <1>9, <1>p, Moves
  <2>2. UNCHANGED <<path, ris, isr, tasklet, lock, i, hwOn, hwInit, hwCur, mi_buf,
                    mi_buf_shd>>
    BY <1>9 DEF MiStop, irq, bufs, dev, hw
  <2>3. \A p \in Paths : Late(p)' => Late(p)
    BY <2>1, <2>2 DEF Late
  <2> QED
    BY <1>p, <2>1, <2>2, <2>3 DEF Aimed
<1>10. CASE Close
  <2>1. Hd' \notin {"set_driver", "update", "cfg_upd"}
    BY <1>10, <1>p, Moves
  <2>2. UNCHANGED <<path, ris, isr, tasklet, lock, i, hwOn, hwInit, hwCur, mi_buf,
                    mi_buf_shd>>
    BY <1>10 DEF Close, irq, bufs, dev, hw
  <2>3. \A p \in Paths : Late(p)' => Late(p)
    BY <2>1, <2>2 DEF Late
  <2> QED
    BY <1>p, <2>1, <2>2, <2>3 DEF Aimed
<1>11. ASSUME NEW b \in Bufs, SetBuffer(b) PROVE Aimed'
  <2>1. dmaqueue # <<>> => dmaqueue' # <<>>
    BY <1>11 DEF SetBuffer, PushBuf, TypeOK
  <2>2. /\ Hd' = Hd /\ Left' = Left
        /\ UNCHANGED <<path, ris, isr, tasklet, lock, i, hwOn, hwInit, hwCur, mi_buf,
                       mi_buf_shd>>
    BY <1>11, <1>p, Moves DEF SetBuffer, proc, dev, hw, irq
  <2>3. \A p \in Paths : Late(p)' <=> Late(p)
    BY <2>2 DEF Late
  <2> QED
    BY <1>p, <2>1, <2>2, <2>3 DEF Aimed, Enabled
<1>12. CASE SetDriver
  <2>1. Hd = "set_driver" /\ Left = 4 /\ Hd' = "update"
    BY <1>12, <1>p, Moves DEF Points
  <2>2. hwOn = {}
    BY <2>1 DEF Timely, Starting
  <2>3. UNCHANGED <<hwOn, dmaqueue, path>>
    BY <1>12 DEF SetDriver, bufs
  <2> QED
    BY <2>1, <2>2, <2>3 DEF Aimed, Enabled
<1>13. CASE UpdateCall
  <2>1. /\ Hd = "update"
        /\ (Left = 3 /\ Hd' = "cfg_upd") \/ Hd' = "none"
    BY <1>13, <1>p, Moves
  <2>2. /\ lock' = "ioctl" /\ i' = 0
        /\ UNCHANGED <<path, dmaqueue, mi_buf, mi_buf_shd, hwOn, hwInit, hwCur>>
    BY <1>13 DEF UpdateCall, dev, bufs, hw
  <2>3. Left = 3 => hwOn = {}
    BY <2>1 DEF Timely, Starting
  <2>4. \A p \in Paths : Late(p) /\ ~(p < i')
    BY <2>1, <2>2, IspMiAssumption DEF Late
  <2> QED
    BY <1>p, <2>1, <2>2, <2>3, <2>4 DEF Aimed, Enabled
<1>14. CASE CfgUpd
  <2>1. Hd = "cfg_upd" /\ Hd' = "update" /\ Left' = 1
    BY <1>14, <1>p, Moves
  <2>2. /\ lock # "ioctl" /\ hwCur' = hwInit /\ hwOn' = {p \in Paths : Enabled(p)}
        /\ UNCHANGED <<path, mi_buf, mi_buf_shd, hwInit>>
    BY <1>14 DEF CfgUpd, At, dev, bufs
  <2> QED
    BY <2>1, <2>2 DEF Aimed, Enabled
<1>15. CASE MiOff
  <2>1. Hd' \notin {"set_driver", "update", "cfg_upd"}
    BY <1>15, <1>p, Moves
  <2>2. path' = path /\ hwOn' = {}
    BY <1>15 DEF MiOff, dev
  <2> QED
    BY <2>1, <2>2 DEF Aimed
<1>16. CASE ClearDriver
  <2>1. Cleaning /\ Hd' \notin {"set_driver", "update", "cfg_upd"}
    BY <1>16, <1>p, Moves DEF Cleaning
  <2>2. path' = path /\ hwOn' = hwOn
    BY <1>16 DEF ClearDriver, dev, hw
  <2> QED
    BY <2>1, <2>2 DEF Aimed, Sequenced
<1>17. CASE CleanVideo
  <2>1. Cleaning /\ Hd' \notin {"set_driver", "update", "cfg_upd"}
    BY <1>17, <1>p, Moves DEF Cleaning
  <2>2. path' = path /\ hwOn' = hwOn
    BY <1>17 DEF CleanVideo, dev, hw
  <2> QED
    BY <2>1, <2>2 DEF Aimed, Sequenced
<1>18. CASE CleanVideoRaced
  <2>1. Cleaning /\ Hd' \notin {"set_driver", "update", "cfg_upd"}
    BY <1>18, <1>p, Moves DEF Cleaning
  <2>2. path' = path /\ hwOn' = hwOn
    BY <1>18 DEF CleanVideoRaced, dev, hw
  <2> QED
    BY <2>1, <2>2 DEF Aimed, Sequenced
<1>19. CASE CleanQueue
  <2>1. Cleaning /\ Hd' \notin {"set_driver", "update", "cfg_upd"}
    BY <1>19, <1>p, Moves DEF Cleaning
  <2>2. path' = path /\ hwOn' = hwOn
    BY <1>19 DEF CleanQueue, dev, hw
  <2> QED
    BY <2>1, <2>2 DEF Aimed, Sequenced
<1>20. CASE CleanDwe
  <2>1. Cleaning /\ Hd' \notin {"set_driver", "update", "cfg_upd"}
    BY <1>20, <1>p, Moves DEF Cleaning
  <2>2. path' = path /\ hwOn' = hwOn
    BY <1>20 DEF CleanDwe, dev, hw
  <2> QED
    BY <2>1, <2>2 DEF Aimed, Sequenced
<1>21. CASE Stopped
  <2>1. Hd' \notin {"set_driver", "update", "cfg_upd"}
    BY <1>21, <1>p, Moves
  <2>2. UNCHANGED <<path, ris, isr, tasklet, lock, i, hwOn, hwInit, hwCur, mi_buf,
                    mi_buf_shd>>
    BY <1>21 DEF Stopped, irq, bufs, dev, hw
  <2>3. \A p \in Paths : Late(p)' => Late(p)
    BY <2>1, <2>2 DEF Late
  <2> QED
    BY <1>p, <2>1, <2>2, <2>3 DEF Aimed
<1>22. CASE FreeIrq
  <2>1. Hd' \notin {"set_driver", "update", "cfg_upd"}
    BY <1>22, <1>p, Moves
  <2>2. UNCHANGED <<path, ris, isr, tasklet, lock, i, hwOn, hwInit, hwCur, mi_buf,
                    mi_buf_shd>>
    BY <1>22 DEF FreeIrq, irq, bufs, dev, hw
  <2>3. \A p \in Paths : Late(p)' => Late(p)
    BY <2>1, <2>2 DEF Late
  <2> QED
    BY <1>p, <2>1, <2>2, <2>3 DEF Aimed
<1>23. ASSUME NEW b \in Bufs, Notify(b) \/ NotifyPush(b) PROVE Aimed'
  <2>1. dmaqueue # <<>> => dmaqueue' # <<>>
    BY <1>23 DEF Notify, NotifyPush, PushBuf, TypeOK
  <2>2. /\ Hd' = Hd /\ Left' = Left
        /\ UNCHANGED <<path, ris, isr, tasklet, lock, i, hwOn, hwInit, hwCur, mi_buf,
                       mi_buf_shd>>
    BY <1>23, <1>p, Moves DEF Notify, NotifyPush, proc, dev, hw, irq
  <2>3. \A p \in Paths : Late(p)' <=> Late(p)
    BY <2>2 DEF Late
  <2> QED
    BY <1>p, <2>1, <2>2, <2>3 DEF Aimed, Enabled
<1>24. CASE \/ Open \/ StreamWrite \/ ReturnAll
            \/ \E next \in {"set", "clear"} : SetStream(next)
            \/ UNCHANGED vars
  <2>1. UNCHANGED <<todo, path, dmaqueue, lock, i, ris, isr, tasklet, mi_buf, mi_buf_shd,
                    hwOn, hwInit, hwCur>>
    BY <1>24 DEF Open, SetStream, StreamWrite, ReturnAll, vars, dev, bufs, hw, irq, proc,
       stream
  <2> QED
    BY <2>1, <1>a
<1> QED
  BY <1>1, <1>2, <1>3, <1>4, <1>5, <1>6, <1>7, <1>8, <1>9, <1>10, <1>11, <1>12, <1>13,
     <1>14, <1>15, <1>16, <1>17, <1>18, <1>19, <1>20, <1>21, <1>22, <1>23, <1>24
     DEF Next, IsrStep, Ioctl, IoctlStep, RemoteStep

\* A buffer is in mi_buf_shd when a frame end is handled only if that frame
\* end filled it.
LEMMA WholeStep ==
    ASSUME TypeOK, Sequenced, QuietClean, Parked, OnePath, Timely, Shifted, Whole,
           "dirty_start" \in Closed, "slow_frame" \in Closed, [Next]_vars
    PROVE  Whole'
<1>p. /\ TypeOK /\ Programmed /\ <<Hd, Left>> \in Points
      /\ i \in Paths /\ hwOn \subseteq Paths
  BY DEF Sequenced, Programmed, TypeOK
<1>a. ASSUME UNCHANGED <<todo, path, lock, i, ris, isr, tasklet, mi_buf, mi_buf_shd,
                         hwOn, hwInit, hwCur, filled>>
      PROVE Whole'
  BY <1>a DEF Whole, Late, FramePending, Enabled, Hd, Left
<1>1. ASSUME NEW p \in Paths, FrameEnd(p) PROVE Whole'
  <2>1. /\ p \in hwOn /\ ~FramePending
        /\ \A q \in Paths : hwCur'[q] = IF q = p THEN hwInit[p] ELSE hwCur[q]
        /\ filled' = filled \cup ({hwCur[p]} \ {NULL})
        /\ UNCHANGED <<hwOn, path, mi_buf, mi_buf_shd, hwInit>>
    BY <1>1 DEF FrameEnd, TypeOK, dev, bufs
  <2>2. Hd' = Hd
    BY <1>1, <1>p, Moves DEF FrameEnd, proc
  <2>3. \A q \in hwOn : q = p
    BY <1>p, <2>1 DEF Timely, OnePath
  <2>4. lock # "tasklet"
    BY <2>1 DEF FramePending
  <2>5. mi_buf_shd[p] # NULL => mi_buf_shd[p] \in filled' /\ mi_buf[p] = hwInit[p]
    BY <1>p, <2>1, <2>4 DEF Whole
  <2> QED
    BY <1>p, <2>1, <2>2, <2>3, <2>5 DEF Whole, Enabled
<1>2. CASE HwIsr
  <2>1. ris # {}
    BY <1>2 DEF HwIsr
  <2>2. FramePending /\ \A p \in Paths : Late(p)
    BY <2>1 DEF FramePending, Late
  <2>3. Hd' = Hd /\ UNCHANGED <<path, hwOn, hwInit, hwCur, mi_buf, filled, mi_buf_shd>>
    BY <1>2, <1>p, Moves DEF HwIsr, proc, dev, hw, bufs
  <2>4. /\ Hd # "cfg_upd"
        /\ hwOn # {} => lock # "tasklet"
    BY <2>1, <2>2 DEF Timely, Starting
  <2>5. \A p \in hwOn : mi_buf_shd[p] # NULL => mi_buf_shd[p] \in filled
    BY <1>p, <2>2, <2>4 DEF Whole
  <2> QED
    BY <1>p, <2>2, <2>3, <2>4, <2>5 DEF Whole, Enabled
<1>3. CASE IsrLock
  <2>1. isr # "idle"
    BY <1>3 DEF IsrLock
  <2>2. FramePending /\ \A p \in Paths : Late(p)
    BY <2>1 DEF FramePending, Late
  <2>3. Hd' = Hd /\ UNCHANGED <<path, hwOn, hwInit, hwCur, mi_buf, filled, mi_buf_shd>>
    BY <1>3, <1>p, Moves DEF IsrLock, proc, dev, hw, bufs
  <2>4. /\ Hd # "cfg_upd"
        /\ hwOn # {} => lock # "tasklet"
    BY <2>1, <2>2 DEF Timely, Starting
  <2>5. \A p \in hwOn : mi_buf_shd[p] # NULL => mi_buf_shd[p] \in filled
    BY <1>p, <2>2, <2>4 DEF Whole
  <2> QED
    BY <1>p, <2>2, <2>3, <2>4, <2>5 DEF Whole, Enabled
<1>4. CASE IsrTest
  <2>1. isr # "idle"
    BY <1>4 DEF IsrTest
  <2>2. FramePending /\ \A p \in Paths : Late(p)
    BY <2>1 DEF FramePending, Late
  <2>3. Hd' = Hd /\ UNCHANGED <<path, hwOn, hwInit, hwCur, mi_buf, filled, mi_buf_shd>>
    BY <1>4, <1>p, Moves DEF IsrTest, proc, dev, hw, bufs
  <2>4. /\ Hd # "cfg_upd"
        /\ hwOn # {} => lock # "tasklet"
    BY <2>1, <2>2 DEF Timely, Starting
  <2>5. \A p \in hwOn : mi_buf_shd[p] # NULL => mi_buf_shd[p] \in filled
    BY <1>p, <2>2, <2>4 DEF Whole
  <2> QED
    BY <1>p, <2>2, <2>3, <2>4, <2>5 DEF Whole, Enabled
<1>5. CASE IsrDeliver
  <2>1. isr # "idle"
    BY <1>5 DEF IsrDeliver
  <2>2. FramePending /\ \A p \in Paths : Late(p)
    BY <2>1 DEF FramePending, Late
  <2>3. Hd' = Hd /\ UNCHANGED <<path, hwOn, hwInit, hwCur, mi_buf, filled>>
    BY <1>5, <1>p, Moves DEF IsrDeliver, proc, dev, hw, bufs
  <2>4. /\ Hd # "cfg_upd"
        /\ hwOn # {} => lock # "tasklet"
    BY <2>1, <2>2 DEF Timely, Starting
  <2>6. \A p \in Paths : mi_buf_shd'[p] \in {mi_buf_shd[p], NULL}
    BY <1>5 DEF IsrDeliver, TypeOK, bufs
  <2>5. \A p \in hwOn : mi_buf_shd[p] # NULL => mi_buf_shd[p] \in filled
    BY <1>p, <2>2, <2>4 DEF Whole
  <2> QED
    BY <1>p, <2>2, <2>3, <2>4, <2>5, <2>6 DEF Whole, Enabled
<1>6. CASE Tasklet
  <2>1. tasklet
    BY <1>6 DEF Tasklet
  <2>2. FramePending /\ \A p \in Paths : Late(p)
    BY <2>1 DEF FramePending, Late
  <2>3. Hd' = Hd /\ UNCHANGED <<path, hwOn, hwInit, hwCur, mi_buf, filled, mi_buf_shd>>
    BY <1>6, <1>p, Moves DEF Tasklet, proc, dev, hw, bufs
  <2>4. /\ Hd # "cfg_upd"
        /\ hwOn # {} => lock # "tasklet"
    BY <2>1, <2>2 DEF Timely, Starting
  <2>5. \A p \in hwOn : mi_buf_shd[p] # NULL => mi_buf_shd[p] \in filled
    BY <1>p, <2>2, <2>4 DEF Whole
  <2> QED
    BY <1>p, <2>2, <2>3, <2>4, <2>5 DEF Whole, Enabled
<1>7. CASE UpdatePath
  <2>1. /\ lock \in {"tasklet", "ioctl"}
        /\ UNCHANGED <<path, ris, isr, tasklet, hwOn, hwCur, todo>>
        /\ \/ i' = i + 1 /\ lock' = lock
           \/ lock' = "free" /\ \A p \in Paths : p <= i
    BY <1>7, UpdateMoves
  <2>2. Hd' = Hd /\ Left' = Left
    BY <1>p, <2>1, Moves
  <2>3. /\ Hd # "update"
        /\ Hd = "cfg_upd" => lock = "ioctl" /\ hwOn = {}
    BY <1>p, <2>1 DEF Sequenced, Timely, Starting, FramePending, Points
  <2>4. hwOn # {} => ris = {} /\ isr = "idle" /\ ~tasklet
    BY <2>1 DEF Timely, Starting, FramePending
  <2>5. /\ hwOn # {} => \A p \in Paths : p \in hwOn <=> Enabled(p)
        /\ \A p \in hwOn : Late(p)' => p > i
    BY <1>p, <2>1, <2>2, <2>3, <2>4 DEF Timely, Late
  <2>e. \/ lock = "tasklet" /\ lock' = "tasklet" /\ i' = i + 1
        \/ hwOn # {} => ~FramePending'
    BY <2>1, <2>4 DEF FramePending
  <2>6. CASE UNCHANGED <<hwInit, mi_buf, mi_buf_shd, filled>>
    <3>1. \A p \in hwOn : Late(p)' => Late(p)
      BY <1>p, <2>1, <2>5 DEF Late
    <3>2. ~FramePending => ~FramePending'
      BY <2>1 DEF FramePending
    <3>3. ASSUME NEW p \in hwOn, mi_buf_shd[p] # NULL
          PROVE  \/ hwCur'[p] = mi_buf_shd[p] /\ ~FramePending'
                 \/ hwCur'[p] = mi_buf_shd[p] /\ lock' = "tasklet" /\ p < i'
                 \/ mi_buf_shd[p] \in filled /\ hwCur'[p] = mi_buf[p]
      BY <1>p, <2>1, <2>e, <3>2, <3>3 DEF Whole
    <3> QED
      BY <1>p, <2>1, <2>2, <2>6, <3>1, <3>3 DEF Whole, Enabled
  <2>7. ASSUME NEW b \in Bufs, Enabled(i), b # NULL,
               \A p \in Paths :
                  /\ hwInit'[p] = IF p = i THEN b ELSE hwInit[p]
                  /\ mi_buf'[p] = IF p = i THEN b ELSE mi_buf[p]
                  /\ mi_buf_shd'[p] = IF p = i THEN mi_buf[p] ELSE mi_buf_shd[p]
        PROVE  Whole'
    <3>1. \A p \in Paths : Enabled(p) => p = i
      BY <1>p, <2>7 DEF OnePath
    <3>2. \A p \in hwOn : p = i /\ Late(p) /\ ~Late(p)'
      BY <1>p, <2>1, <2>5, <3>1 DEF Late
    <3>3. \A p \in hwOn : mi_buf[p] # NULL => hwCur[p] = mi_buf[p]
      BY <3>2 DEF Whole
    <3>4. \A p \in hwOn : /\ mi_buf_shd'[p] = mi_buf[p]
                          /\ ~FramePending' \/ (lock' = "tasklet" /\ p < i')
      BY <1>p, <2>7, <2>e, <3>2
    <3>5. \A p \in Paths : /\ mi_buf_shd'[p] # NULL => mi_buf'[p] # NULL
                           /\ mi_buf'[p] # NULL => Enabled(p)
                           /\ Hd = "cfg_upd" /\ mi_buf'[p] # NULL => hwInit'[p] = mi_buf'[p]
      BY <2>7 DEF Whole
    <3>6. \A p \in hwOn : hwInit'[p] = mi_buf'[p]
      BY <1>p, <2>7, <3>2
    <3>7. ASSUME NEW p \in hwOn', mi_buf_shd'[p] # NULL
          PROVE  \/ hwCur'[p] = mi_buf_shd'[p] /\ ~FramePending'
                 \/ hwCur'[p] = mi_buf_shd'[p] /\ lock' = "tasklet" /\ p < i'
      BY <2>1, <3>3, <3>4, <3>7
    <3>8. hwOn' = hwOn /\ path' = path /\ Hd' = Hd
      BY <2>1, <2>2
    <3> QED
      BY <3>2, <3>5, <3>6, <3>7, <3>8 DEF Whole, Enabled
  <2> QED
    BY <1>7, <2>6, <2>7, UpdateMoves
<1>8. CASE MiStart
  <2>1. hwOn' = {} /\ "driver" \notin state /\ UNCHANGED <<mi_buf, mi_buf_shd>>
    BY <1>8 DEF MiStart, hw, bufs
  <2>2. Hd = "none" /\ Hd' = "set_driver"
    BY <1>8, <1>p, Moves
  <2>3. NoPointers
    BY <2>1, <2>2 DEF Parked
  <2> QED
    BY <2>1, <2>2, <2>3 DEF Whole, NoPointers
<1>9. CASE MiStop
  <2>1. Hd' \notin {"set_driver", "update", "cfg_upd"}
    BY <1>9, <1>p, Moves
  <2>2. UNCHANGED <<path, ris, isr, tasklet, lock, i, hwOn, hwInit, hwCur, mi_buf,
                    mi_buf_shd, filled>>
    BY <1>9 DEF MiStop, irq, bufs, dev, hw
  <2>3. /\ \A p \in Paths : Late(p)' => Late(p)
        /\ FramePending' <=> FramePending
    BY <2>1, <2>2 DEF Late, FramePending
  <2> QED
    BY <1>p, <2>1, <2>2, <2>3 DEF Whole, Enabled
<1>10. CASE Close
  <2>1. Hd' \notin {"set_driver", "update", "cfg_upd"}
    BY <1>10, <1>p, Moves
  <2>2. UNCHANGED <<path, ris, isr, tasklet, lock, i, hwOn, hwInit, hwCur, mi_buf,
                    mi_buf_shd, filled>>
    BY <1>10 DEF Close, irq, bufs, dev, hw
  <2>3. /\ \A p \in Paths : Late(p)' => Late(p)
        /\ FramePending' <=> FramePending
    BY <2>1, <2>2 DEF Late, FramePending
  <2> QED
    BY <1>p, <2>1, <2>2, <2>3 DEF Whole, Enabled
<1>11. CASE SetDriver
  <2>1. Hd = "set_driver" /\ Left = 4 /\ Hd' = "update"
    BY <1>11, <1>p, Moves DEF Points
  <2>2. hwOn = {}
    BY <2>1 DEF Timely, Starting
  <2>3. UNCHANGED <<hwOn, path, mi_buf, mi_buf_shd>>
    BY <1>11 DEF SetDriver, bufs
  <2> QED
    BY <2>1, <2>2, <2>3 DEF Whole, Enabled
<1>12. CASE UpdateCall
  <2>1. /\ Hd = "update"
        /\ (Left = 3 /\ Hd' = "cfg_upd") \/ Hd' = "none"
    BY <1>12, <1>p, Moves
  <2>2. /\ lock = "free" /\ lock' = "ioctl"
        /\ UNCHANGED <<path, ris, isr, tasklet, mi_buf, mi_buf_shd, hwOn, hwInit, hwCur,
                       filled>>
    BY <1>12 DEF UpdateCall, dev, bufs, hw
  <2>3. Left = 3 => hwOn = {} /\ \A p \in Paths : mi_buf[p] = NULL
    BY <2>1 DEF Timely, Starting, Shifted
  <2>4. /\ \A p \in Paths : Late(p)
        /\ ~FramePending => ~FramePending'
    BY <2>1, <2>2 DEF Late, FramePending
  <2> QED
    BY <1>p, <2>1, <2>2, <2>3, <2>4 DEF Whole, Enabled
<1>13. CASE CfgUpd
  <2>1. Hd = "cfg_upd" /\ Hd' = "update"
    BY <1>13, <1>p, Moves
  <2>2. /\ hwCur' = hwInit /\ hwOn' = {p \in Paths : Enabled(p)}
        /\ UNCHANGED <<path, mi_buf, mi_buf_shd, hwInit>>
    BY <1>13 DEF CfgUpd, dev, bufs
  <2>3. \A p \in Paths : mi_buf_shd[p] = NULL
    BY <2>1 DEF Shifted
  <2> QED
    BY <2>1, <2>2, <2>3 DEF Whole, Enabled
<1>14. CASE MiOff
  <2>1. Hd' \notin {"set_driver", "update", "cfg_upd"}
    BY <1>14, <1>p, Moves
  <2>2. UNCHANGED <<path, mi_buf, mi_buf_shd>> /\ hwOn' = {}
    BY <1>14 DEF MiOff, dev, bufs
  <2> QED
    BY <2>1, <2>2 DEF Whole, Enabled
<1>15. CASE ClearDriver
  <2>1. Cleaning /\ Hd' \notin {"set_driver", "update", "cfg_upd"}
    BY <1>15, <1>p, Moves DEF Cleaning
  <2>2. /\ path' = path /\ hwOn' = hwOn
        /\ \A p \in Paths : mi_buf'[p] = mi_buf[p] /\ mi_buf_shd'[p] = mi_buf_shd[p]
    BY <1>15 DEF ClearDriver, dev, hw, bufs
  <2> QED
    BY <2>1, <2>2 DEF Whole, Enabled, Sequenced
<1>16. CASE CleanVideo
  <2>1. Cleaning /\ Hd' \notin {"set_driver", "update", "cfg_upd"}
    BY <1>16, <1>p, Moves DEF Cleaning
  <2>2. /\ path' = path /\ hwOn' = hwOn
        /\ \A p \in Paths : mi_buf'[p] = NULL /\ mi_buf_shd'[p] = NULL
    BY <1>16 DEF CleanVideo, dev, hw, bufs
  <2> QED
    BY <2>1, <2>2 DEF Whole, Enabled, Sequenced
<1>17. CASE CleanVideoRaced
  <2>1. Cleaning /\ FramePending
    BY <1>17, <1>p, Moves DEF Cleaning, FramePending, CleanVideoRaced
  <2> QED
    BY <2>1 DEF QuietClean
<1>18. CASE CleanQueue
  <2>1. Cleaning /\ Hd' \notin {"set_driver", "update", "cfg_upd"}
    BY <1>18, <1>p, Moves DEF Cleaning
  <2>2. /\ path' = path /\ hwOn' = hwOn
        /\ \A p \in Paths : mi_buf'[p] = mi_buf[p] /\ mi_buf_shd'[p] = mi_buf_shd[p]
    BY <1>18 DEF CleanQueue, dev, hw, bufs
  <2> QED
    BY <2>1, <2>2 DEF Whole, Enabled, Sequenced
<1>19. CASE CleanDwe
  <2>1. Cleaning /\ Hd' \notin {"set_driver", "update", "cfg_upd"}
    BY <1>19, <1>p, Moves DEF Cleaning
  <2>2. /\ path' = path /\ hwOn' = hwOn
        /\ \A p \in Paths : mi_buf'[p] = NULL /\ mi_buf_shd'[p] = NULL
    BY <1>19 DEF CleanDwe, dev, hw, bufs
  <2> QED
    BY <2>1, <2>2 DEF Whole, Enabled, Sequenced
<1>20. CASE Stopped
  <2>1. Hd' \notin {"set_driver", "update", "cfg_upd"}
    BY <1>20, <1>p, Moves
  <2>2. UNCHANGED <<path, ris, isr, tasklet, lock, i, hwOn, hwInit, hwCur, mi_buf,
                    mi_buf_shd, filled>>
    BY <1>20 DEF Stopped, irq, bufs, dev, hw
  <2>3. /\ \A p \in Paths : Late(p)' => Late(p)
        /\ FramePending' <=> FramePending
    BY <2>1, <2>2 DEF Late, FramePending
  <2> QED
    BY <1>p, <2>1, <2>2, <2>3 DEF Whole, Enabled
<1>21. CASE FreeIrq
  <2>1. Hd' \notin {"set_driver", "update", "cfg_upd"}
    BY <1>21, <1>p, Moves
  <2>2. UNCHANGED <<path, ris, isr, tasklet, lock, i, hwOn, hwInit, hwCur, mi_buf,
                    mi_buf_shd, filled>>
    BY <1>21 DEF FreeIrq, irq, bufs, dev, hw
  <2>3. /\ \A p \in Paths : Late(p)' => Late(p)
        /\ FramePending' <=> FramePending
    BY <2>1, <2>2 DEF Late, FramePending
  <2> QED
    BY <1>p, <2>1, <2>2, <2>3 DEF Whole, Enabled
<1>22. CASE \/ Open \/ StreamWrite \/ ReturnAll
            \/ \E b \in Bufs : SetBuffer(b)
            \/ \E b \in Bufs : Notify(b) \/ NotifyPush(b)
            \/ \E next \in {"set", "clear"} : SetStream(next)
            \/ UNCHANGED vars
  <2>1. UNCHANGED <<todo, path, lock, i, ris, isr, tasklet, mi_buf, mi_buf_shd, hwOn,
                    hwInit, hwCur, filled>>
    BY <1>22 DEF Open, SetBuffer, Notify, NotifyPush, SetStream, StreamWrite, ReturnAll, vars, dev,
       bufs, hw, irq, proc, stream
  <2> QED
    BY <2>1, <1>a
<1> QED
  BY <1>1, <1>2, <1>3, <1>4, <1>5, <1>6, <1>7, <1>8, <1>9, <1>10, <1>11, <1>12, <1>13,
     <1>14, <1>15, <1>16, <1>17, <1>18, <1>19, <1>20, <1>21, <1>22
     DEF Next, IsrStep, Ioctl, IoctlStep, RemoteStep

-----------------------------------------------------------------------------
(***************************************************************************)
(* The invariant.                                                          *)
(***************************************************************************)

\* The windows that make a frame end or an ioctl meet the other half done.
Quiet == {"slow_frame", "dirty_start", "dirty_stop", "torn_state"}

\* Each part with the windows it takes closed.
IInv ==
    /\ Inv
    /\ Sequenced /\ LoopLocked /\ LastClose
    /\ Shut({"dirty_stop"}) => QuietClean
    /\ Shut({"late_push"}) => NoneLate
    /\ (ToVideo => Shut({"dirty_stop"})) /\ Shut({"late_push"}) => LastClean
    /\ Shut({"torn_state"}) => Truthful
    /\ Shut({"dirty_stop", "torn_state"}) => Parked
    /\ ToVideo /\ Shut({"dirty_stop", "early_requeue"}) => LockHeld /\ NoOops
    /\ Shut({"two_paths"}) => OnePath
    /\ Shut({"slow_frame", "dirty_start"}) => Timely
    /\ Shut({"slow_frame", "dirty_start", "dirty_stop"}) => Pending
    /\ Shut(Quiet) => Shifted
    /\ ~ToVideo /\ Shut(Quiet) => Kept
    /\ Shut({"slow_frame", "dirty_start", "empty_start", "two_paths"}) => Aimed
    /\ Shut(Quiet) /\ Shut({"two_paths"}) => Whole

\* It holds of a probed, closed device.
LEMMA IInvInit == Init => IInv
<1> SUFFICES ASSUME Init PROVE IInv
  OBVIOUS
<1>1. Inv
  BY InvInit
<1>2. /\ Hd = "none" /\ Left = 0 /\ Programmed
      /\ ~Starting /\ ~Cleaning /\ ~FramePending /\ NoPointers
      /\ hwOn = {} /\ dmaqueue = <<>> /\ "driver" \notin state
      /\ ~irqOn /\ spc = "idle" /\ oops = "none" /\ isr = "idle" /\ lock = "free"
      /\ ~tasklet
  BY EmptySeq DEF Init, Hd, Left, Programmed, Points, Starting, Cleaning,
     FramePending, NoPointers
<1>3. \A p \in Paths : ~Enabled(p) /\ path[p] # "bad"
  BY DEF Init, Enabled
<1>4. Sequenced /\ LoopLocked /\ LastClose /\ NoneLate /\ LastClean
  BY <1>2 DEF Init, Sequenced, LoopLocked, LastClose, NoneLate, LastClean
<1>5. QuietClean /\ Truthful /\ Parked
  BY <1>2 DEF QuietClean, Truthful, Parked
<1>6. LockHeld /\ NoOops
  BY <1>2 DEF LockHeld, NoOops
<1>7. OnePath /\ Timely /\ Pending
  BY <1>2, <1>3 DEF OnePath, Timely, Pending
<1>8. Shifted /\ Aimed /\ Whole
  BY <1>2, <1>3 DEF Shifted, Emptied, NoPointers, Aimed, Whole
<1>9. ~ToVideo => Kept
  BY DEF Init, Kept
<1> QED
  BY <1>1, <1>4, <1>5, <1>6, <1>7, <1>8, <1>9 DEF IInv

\* Every step keeps it.
LEMMA IInvStep == IInv /\ [Next]_vars => IInv'
<1> SUFFICES ASSUME IInv, [Next]_vars PROVE IInv'
  OBVIOUS
<1>1. /\ TypeOK /\ Sequenced /\ LoopLocked /\ LastClose
      /\ ToVideo' = ToVideo /\ Closed' = Closed
  BY EnvFixed DEF IInv, Inv
<1>2. Inv' /\ Sequenced' /\ LoopLocked' /\ LastClose'
  BY <1>1, InvStep, SequencedStep, LoopLockedStep, LastCloseStep DEF IInv
<1>3. Shut({"dirty_stop"}) => QuietClean /\ QuietClean'
  BY <1>1, QuietCleanStep DEF IInv, Shut
<1>16. Shut({"late_push"}) => NoneLate /\ NoneLate'
  BY <1>1, NoneLateStep DEF IInv, Shut
<1>4. (ToVideo => Shut({"dirty_stop"})) /\ Shut({"late_push"}) => LastClean'
  BY <1>1, <1>3, <1>16, LastCleanStep DEF IInv
<1>5. Shut({"torn_state"}) => Truthful /\ Truthful'
  BY <1>1, TruthfulStep DEF IInv, Shut
<1>6. Shut({"dirty_stop", "torn_state"}) => Parked /\ Parked'
  BY <1>1, <1>3, <1>5, ParkedStep DEF IInv, Shut
<1>7. ToVideo /\ Shut({"dirty_stop", "early_requeue"}) => LockHeld' /\ NoOops'
  BY <1>1, <1>3, GuardedStep DEF IInv, Inv, Shut
<1>8. Shut({"two_paths"}) => OnePath /\ OnePath'
  BY OnePathStep DEF IInv, Shut
<1>9. Shut({"slow_frame", "dirty_start"}) => Timely /\ Timely'
  BY <1>1, TimelyStep DEF IInv, Shut
<1>10. Shut({"slow_frame", "dirty_start", "dirty_stop"}) => Pending /\ Pending'
  BY <1>1, <1>3, <1>9, PendingStep DEF IInv, Shut
<1>11. Shut(Quiet) => Shifted /\ Shifted'
  BY <1>1, <1>3, <1>6, <1>9, <1>10, ShiftedStep DEF IInv, Shut, Quiet
<1>12. ~ToVideo /\ Shut(Quiet) => Kept'
  BY <1>1, <1>11, KeptStep DEF IInv
<1>13. Shut({"slow_frame", "dirty_start", "empty_start", "two_paths"}) => Aimed'
  BY <1>1, <1>8, <1>9, AimedStep DEF IInv, Shut
<1>14. Shut(Quiet) /\ Shut({"two_paths"}) => Whole'
  BY <1>1, <1>3, <1>6, <1>8, <1>9, <1>11, WholeStep DEF IInv, Shut, Quiet
<1>15. \A W : Shut(W)' <=> Shut(W)
  BY <1>1 DEF Shut
<1> QED
  BY <1>1, <1>2, <1>3, <1>4, <1>5, <1>6, <1>7, <1>8, <1>9, <1>10, <1>11, <1>12,
     <1>13, <1>14, <1>15, <1>16 DEF IInv

\* In every behaviour the invariant holds.
LEMMA WindowInvariant == Spec => []IInv
BY IInvInit, IInvStep, PTL DEF Spec

\* isr_process_frame meets no null pointer and no list entry is linked twice:
\* linked to the dewarper whatever the timing, linked to the video device
\* with quiet stops and a user space that keeps its hands off.
THEOREM NoFaults == Spec => []NoFault
<1>1. IInv => NoFault
  BY DEF IInv, Inv, DweInv, NoFault, NoOops
<1> QED
  BY <1>1, WindowInvariant, PTL

\* Between MI_STOP and MI_START the driver holds no frame; after the last
\* isp_close no path runs and no handler is registered, and it holds no buffer
\* if isp_buf_notify stood at no push when that close began.
THEOREM Empty == Spec => []EmptyWhenIdle
<1>1. IInv => EmptyWhenIdle
  <2> SUFFICES ASSUME IInv PROVE EmptyWhenIdle
    OBVIOUS
  <2>1. Idle => Hd = "none" /\ Left = 0
    BY EmptySeq DEF Idle, Hd, Left
  <2>2. ASSUME Shut({"dirty_stop", "torn_state"}), "driver" \notin state, Idle
        PROVE  NoPointers
    BY <2>1, <2>2 DEF IInv, Parked
  <2>3. ASSUME ToVideo => Shut({"dirty_stop"}), refcnt = 0, Idle
        PROVE  /\ hwOn = {} /\ ~irqOn
               /\ Shut({"late_push"}) => NoPointers /\ dmaqueue = <<>>
    <3>1. LastClose /\ (Shut({"late_push"}) => LastClean)
      BY <2>3 DEF IInv
    <3> QED
      BY <2>1, <2>3, <3>1 DEF LastClose, LastClean
  <2> QED
    BY <2>2, <2>3 DEF EmptyWhenIdle
<1> QED
  BY <1>1, WindowInvariant, PTL

\* Linked to the dewarper no buffer is forgotten: update_dma_buffer only
\* overwrites a pointer that isr_process_frame has emptied.
THEOREM NothingForgotten == Spec => []NoLeak
<1>1. IInv => NoLeak
  BY DEF IInv, Quiet, Kept, NoLeak
<1> QED
  BY <1>1, WindowInvariant, PTL

\* The hardware writes only to a buffer the driver holds for it.
THEOREM Target == Spec => []HwTarget
<1>1. IInv => HwTarget
  <2> SUFFICES ASSUME IInv, Shut({"slow_frame", "dirty_start", "empty_start", "two_paths"}),
                      NEW p \in hwOn
               PROVE  /\ hwCur[p] # NULL
                      /\ hwCur[p] \in {mi_buf[p], mi_buf_shd[p]}
    BY DEF HwTarget
  <2>1. Aimed
    BY DEF IInv
  <2> QED
    BY <2>1 DEF Aimed
<1> QED
  BY <1>1, WindowInvariant, PTL

\* isr_process_frame hands over only buffers that hold a whole frame and that
\* the hardware has left.
THEOREM WholeFrames == Spec => DeliversFinishedFrame
<1> DEFINE Handover ==
              /\ Shut({"slow_frame", "dirty_start", "dirty_stop", "torn_state", "two_paths"})
              /\ ToVideo => Shut({"early_requeue"})
              /\ isr = "deliver" /\ isr' # "deliver"
           Good == /\ mi_buf_shd[i] \in filled
                   /\ \A p \in hwOn : hwCur[p] # mi_buf_shd[i]
<1>1. ASSUME IInv, [Next]_vars, Handover PROVE Good
  <2>1. /\ Shut(Quiet) /\ Shut({"two_paths"})
        /\ Shut({"slow_frame", "dirty_start"})
        /\ Shut({"slow_frame", "dirty_start", "dirty_stop"})
        /\ Shut({"dirty_stop"})
        /\ ToVideo => Shut({"dirty_stop", "early_requeue"}) /\ "early_requeue" \in Closed
    BY <1>1 DEF Quiet, Shut
  <2>2. /\ TypeOK /\ RolesApart /\ LockHeld
        /\ OnePath /\ Timely /\ Pending /\ Whole
    BY <2>1, <1>1 DEF IInv, Inv, DweInv
  <2>3. /\ i \in Paths /\ mi_buf_shd[i] # NULL /\ lock = "isr" /\ FramePending
        /\ hwOn # {} /\ hwOn \subseteq Paths
    BY <1>1, <2>2 DEF LockHeld, FramePending, Pending, TypeOK
  <2>4. Enabled(i) /\ mi_buf[i] # NULL
    BY <2>2, <2>3 DEF Whole
  <2>5. \A p \in hwOn : p = i
    BY <2>2, <2>3, <2>4 DEF OnePath, Timely
  <2>6. i \in hwOn
    BY <2>3, <2>5
  <2>7. mi_buf_shd[i] \in filled /\ hwCur[i] = mi_buf[i]
    BY <2>2, <2>3, <2>6 DEF Whole
  <2>8. mi_buf[i] # mi_buf_shd[i]
    BY <2>2, <2>3, <2>4 DEF RolesApart
  <2> QED
    BY <2>5, <2>7, <2>8
<1>2. IInv /\ [Next]_vars => [Handover => Good]_vars
  BY <1>1
<1> QED
  BY <1>2, WindowInvariant, PTL DEF Spec, DeliversFinishedFrame
=============================================================================

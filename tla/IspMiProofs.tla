---------------------------- MODULE IspMiProofs ----------------------------
(***************************************************************************)
(* Proofs about IspMi for every set of buffers, every number of paths and  *)
(* of open handles.                                                        *)
(***************************************************************************)
EXTENDS IspMi, VvBufProofs, TLAPS

USE DEF Paths, Flags, PathConfig, BufOrNull, Shift, Reset, Freed, UpdateNextPath

(***************************************************************************)
(* Types.                                                                  *)
(***************************************************************************)

\* The step sequences of isp_mi_start, isp_mi_stop and isp_close.
LEMMA StepsType ==
    /\ StartSteps \in Seq(StepLabels)
    /\ StopSteps \in Seq(StepLabels)
    /\ CloseSteps \in Seq(StepLabels)
    /\ <<"clear_driver", "clean">> \in Seq(StepLabels)
    /\ <<"clean_queue">> \in Seq(StepLabels)
    /\ \A s, t \in Seq(StepLabels) : s \o t \in Seq(StepLabels)
<1>1. /\ StartSteps \in Seq(StepLabels)
      /\ StopSteps \in Seq(StepLabels)
      /\ <<>> \in Seq(StepLabels)
      /\ <<"stopped", "free_irq">> \in Seq(StepLabels)
      /\ <<"clean">> \in Seq(StepLabels)
      /\ <<"clear_driver", "clean">> \in Seq(StepLabels)
      /\ <<"clean_queue">> \in Seq(StepLabels)
  BY DEF StartSteps, StopSteps, StepLabels
<1>2. \A s, t \in Seq(StepLabels) : s \o t \in Seq(StepLabels)
  OBVIOUS
<1>3. CloseSteps \in Seq(StepLabels)
  <2>1. (IF "driver" \in state THEN StopSteps ELSE <<>>) \in Seq(StepLabels)
    BY <1>1
  <2> QED
    BY <1>1, <1>2, <2>1 DEF CloseSteps
<1> QED
  BY <1>1, <1>2, <1>3

\* The link and the closed windows never change.
LEMMA EnvFixed == [Next]_vars => env' = env /\ ToVideo' = ToVideo /\ Closed' = Closed
BY DEF Next, vars, ToVideo, Closed

\* Every operation keeps every variable's type.
LEMMA TypeStep == TypeOK /\ [Next]_vars => TypeOK'
<1> SUFFICES ASSUME TypeOK, [Next]_vars PROVE TypeOK'
  OBVIOUS
<1>0. env' = env
  BY EnvFixed
<1> USE IspMiAssumption, <1>0 DEF TypeOK
<1>1. ASSUME NEW p \in Paths, FrameEnd(p) PROVE TypeOK'
  BY <1>1 DEF FrameEnd, dev, bufs, hw, irq, proc, stream
<1>2. CASE HwIsr
  BY <1>2 DEF HwIsr, dev, bufs, hw, irq, proc, stream
<1>3. CASE IsrLock
  BY <1>3 DEF IsrLock, dev, bufs, hw, irq, proc, stream
<1>4. CASE IsrTest
  <2>1. tasklet' \in BOOLEAN
    BY <1>4 DEF IsrTest, IsrNextPath
  <2>2. i' \in Paths
    BY <1>4 DEF IsrTest, IsrNextPath
  <2> QED
    BY <1>4, <2>1, <2>2 DEF IsrTest, IsrNextPath, Enabled, dev, bufs, hw, irq, proc, stream
<1>5. CASE IsrDeliver
  <2>1. tasklet' \in BOOLEAN
    BY <1>5 DEF IsrDeliver, IsrNextPath, irq
  <2>2. i' \in Paths
    BY <1>5 DEF IsrDeliver, IsrNextPath, irq
  <2>3. CASE mi_buf_shd[i] = NULL
    BY <1>5, <2>3 DEF IsrDeliver, dev, bufs, hw, irq, proc, stream
  <2>4. CASE mi_buf_shd[i] # NULL
    <3>1. isr' \in {"loop", "idle"} /\ lock' \in {lock, "free"}
      BY <1>5, <2>4 DEF IsrDeliver, IsrNextPath
    <3>2. /\ remote' = remote \cup {mi_buf_shd[i]}
          /\ mi_buf_shd' = [mi_buf_shd EXCEPT ![i] = NULL]
          /\ UNCHANGED <<dmaqueue, mi_buf, fresh, oops>>
          /\ UNCHANGED <<dev, hw, proc, stream, filled>>
      BY <1>5, <2>4 DEF IsrDeliver
    <3> QED
      BY <2>1, <2>2, <2>4, <3>1, <3>2 DEF dev, hw, proc, stream
  <2> QED
    BY <1>5, <2>1, <2>2, <2>3, <2>4
<1>6. CASE Tasklet
  <2>1. tasklet' \in BOOLEAN
    BY <1>6 DEF Tasklet
  <2> QED
    BY <2>1, <1>6 DEF Tasklet, dev, bufs, hw, irq, proc, stream
<1>7. CASE UpdatePath
  <2>1. Pullable(dmaqueue) => /\ TryDqbuf(dmaqueue) \in Bufs
                              /\ PullBuf(dmaqueue) \in Seq(Bufs)
    BY PullBufFacts
  <2>2. dmaqueue' \in Seq(Bufs)
    BY <1>7, <2>1, PushBufFacts DEF UpdatePath
  <2>3. i' \in Paths
    BY <1>7 DEF UpdatePath
  <2>4. mi_buf_shd[i] \in BufOrNull /\ mi_buf[i] \in BufOrNull
    BY DEF BufOrNull
  <2>5. CASE Enabled(i) /\ Pullable(dmaqueue) /\ path[i] # "bad"
    <3>1. /\ hwInit' = [hwInit EXCEPT ![i] = TryDqbuf(dmaqueue)]
          /\ mi_buf_shd' = [mi_buf_shd EXCEPT ![i] = mi_buf[i]]
          /\ mi_buf' = [mi_buf EXCEPT ![i] = TryDqbuf(dmaqueue)]
          /\ filled' = filled \ {TryDqbuf(dmaqueue)}
      BY <1>7, <2>5 DEF UpdatePath
    <3>2. lock' \in {"free", "tasklet", "ioctl"}
      BY <1>7 DEF UpdatePath
    <3>3. UNCHANGED <<dev, remote, fresh, imsc, ris, hwOn, hwCur, tasklet,
                      isr, proc, stream, oops>>
      BY <1>7 DEF UpdatePath
    <3> QED
      BY <2>1, <2>2, <2>3, <2>4, <2>5, <3>1, <3>2, <3>3
         DEF dev, bufs, hw, irq, proc, stream
  <2>6. CASE ~(Enabled(i) /\ Pullable(dmaqueue) /\ path[i] # "bad")
    BY <1>7, <2>2, <2>3, <2>6 DEF UpdatePath, dev, bufs, hw, irq, proc, stream
  <2> QED
    BY <2>5, <2>6
<1>8. CASE MiStart
  BY <1>8, StepsType DEF MiStart, Idle, dev, bufs, hw, irq, proc, stream
<1>9. CASE MiStop
  BY <1>9, StepsType DEF MiStop, Idle, dev, bufs, hw, irq, proc, stream
<1>10. CASE Open
  BY <1>10 DEF Open, Idle, dev, bufs, hw, irq, proc, stream
<1>11. CASE Close
  BY <1>11, StepsType DEF Close, Idle, dev, bufs, hw, irq, proc, stream
<1>12. ASSUME NEW b \in Bufs, SetBuffer(b) PROVE TypeOK'
  BY <1>12, PushBufFacts DEF SetBuffer, Idle, dev, bufs, hw, irq, proc, stream
<1>13. CASE SetDriver
  BY <1>13 DEF SetDriver, Enabled, At, dev, bufs, hw, irq, proc, stream
<1>14. CASE UpdateCall
  BY <1>14 DEF UpdateCall, At, dev, bufs, hw, irq, proc, stream
<1>15. CASE CfgUpd
  BY <1>15 DEF CfgUpd, Enabled, At, dev, bufs, hw, irq, proc, stream
<1>16. CASE MiOff
  <2>1. todo' \in Seq(StepLabels)
    <3>1. Tail(todo) \in Seq(StepLabels)
      BY <1>16 DEF MiOff, At
    <3>2. todo' \in {<<"clear_driver", "clean">> \o Tail(todo), Tail(todo)}
      BY <1>16 DEF MiOff
    <3>3. <<"clear_driver", "clean">> \o Tail(todo) \in Seq(StepLabels)
      BY <3>1, StepsType
    <3> QED
      BY <3>1, <3>2, <3>3
  <2> QED
    BY <1>16, <2>1 DEF MiOff, At, dev, bufs, hw, irq, proc, stream
<1>17. CASE ClearDriver
  BY <1>17 DEF ClearDriver, At, dev, bufs, hw, irq, proc, stream
<1>18. CASE CleanVideo
  <2>1. todo' \in Seq(StepLabels)
    BY <1>18, StepsType DEF CleanVideo, At
  <2> QED
    BY <1>18, <2>1 DEF CleanVideo, At, dev, bufs, hw, irq, proc, stream
<1>18a. CASE CleanVideoRaced
  <2>1. todo' \in Seq(StepLabels)
    BY <1>18a, StepsType DEF CleanVideoRaced, At
  <2>2. /\ dmaqueue' \in Seq(Bufs) /\ hwInit' \in [Paths -> BufOrNull]
        /\ filled' \in SUBSET Bufs
        /\ mi_buf' \in [Paths -> BufOrNull] /\ mi_buf_shd' \in [Paths -> BufOrNull]
    BY <1>18a, PullBufFacts DEF CleanVideoRaced
  <2>3. i' \in Paths /\ lock' \in {"free", "isr", "tasklet", "ioctl"}
    <3>1. UpdateNextPath /\ i \in Paths
      BY <1>18a DEF CleanVideoRaced
    <3> QED
      BY <3>1
  <2>4. UNCHANGED <<state, refcnt, irqOn, path, remote, fresh, imsc, ris, hwOn,
                    hwCur, tasklet, isr, dreg, stream, oops>>
    BY <1>18a DEF CleanVideoRaced, dev
  <2> QED
    BY <2>1, <2>2, <2>3, <2>4 DEF stream
<1>19. CASE CleanQueue
  BY <1>19 DEF CleanQueue, At, dev, bufs, hw, irq, proc, stream
<1>20. CASE CleanDwe
  BY <1>20 DEF CleanDwe, At, dev, bufs, hw, irq, proc, stream
<1>21. CASE Stopped
  BY <1>21 DEF Stopped, At, dev, bufs, hw, irq, proc, stream
<1>22. CASE FreeIrq
  <2>1. irqOn' \in BOOLEAN
    BY <1>22 DEF FreeIrq
  <2> QED
    BY <2>1, <1>22 DEF FreeIrq, At, dev, bufs, hw, irq, proc, stream
<1>23. ASSUME NEW b \in Bufs, Notify(b) PROVE TypeOK'
  <2>1. remote' \in SUBSET Bufs /\ fresh' \in SUBSET Bufs /\ pushing' \in SUBSET remote'
    BY <1>23 DEF Notify
  <2> QED
    BY <2>1, <1>23 DEF Notify, dev, hw, irq, proc
<1>23a. ASSUME NEW b \in Bufs, NotifyPush(b) PROVE TypeOK'
  <2>1. remote' \in SUBSET Bufs /\ pushing' \in SUBSET remote'
    BY <1>23a DEF NotifyPush
  <2>2. dmaqueue' \in Seq(Bufs) /\ oops' \in {"none", "double_add", "null_deref"}
    BY <1>23a, PushBufFacts DEF NotifyPush
  <2> QED
    BY <2>1, <2>2, <1>23a DEF NotifyPush, dev, hw, irq, proc
<1>24. ASSUME NEW next \in {"set", "clear"}, SetStream(next) PROVE TypeOK'
  BY <1>24 DEF SetStream, dev, bufs, hw, irq, proc, stream
<1>25. CASE StreamWrite
  BY <1>25 DEF StreamWrite, dev, bufs, hw, irq, proc, stream
<1>26. CASE ReturnAll
  BY <1>26 DEF ReturnAll, dev, bufs, hw, irq, proc, stream
<1>27. CASE UNCHANGED vars
  BY <1>27 DEF vars, dev, bufs, hw, irq, proc, stream
<1> QED
  BY <1>1, <1>2, <1>3, <1>4, <1>5, <1>6, <1>7, <1>8, <1>9, <1>10, <1>11, <1>12, <1>13, <1>14, <1>15, <1>16, <1>17, <1>18, <1>18a, <1>19, <1>20, <1>21, <1>22, <1>23, <1>23a, <1>24, <1>25, <1>26, <1>27
     DEF Next, IsrStep, Ioctl, IoctlStep, RemoteStep

\* Every variable of the driver keeps its type in every behaviour.
THEOREM TypeCorrect == Spec => []TypeOK
<1>1. Init => TypeOK
  BY IspMiAssumption DEF Init, TypeOK
<1> QED
  BY <1>1, TypeStep, PTL DEF Spec
-----------------------------------------------------------------------------
(***************************************************************************)
(* One role per buffer.                                                    *)
(***************************************************************************)

\* Steps that move no buffer inside the driver.
LEMMA RoleUnchanged ==
    ASSUME RolesApart, UNCHANGED <<dmaqueue, mi_buf, mi_buf_shd>>
    PROVE  RolesApart'
BY DEF RolesApart, Distinct, OnList

\* A buffer new to the driver may be queued.
LEMMA RolePush ==
    ASSUME TypeOK, RolesApart, NEW b \in Bufs, ~InIsp(b),
           dmaqueue' = PushBuf(dmaqueue, b), UNCHANGED <<mi_buf, mi_buf_shd>>
    PROVE  RolesApart'
<1>1. /\ dmaqueue \in Seq(Bufs)
      /\ \A p \in Paths : mi_buf[p] # b /\ mi_buf_shd[p] # b
      /\ ~OnList(dmaqueue, b)
  BY DEF TypeOK, InIsp
<1>2. /\ \A c : OnList(dmaqueue', c) <=> OnList(dmaqueue, c) \/ c = b
      /\ Distinct(dmaqueue')
  BY <1>1, PushBufFacts DEF RolesApart
<1> QED
  BY <1>1, <1>2 DEF RolesApart

\* One iteration of update_dma_buffer shifts the buffers of a path.
LEMMA RoleUpdate ==
    ASSUME TypeOK, RolesApart, UpdatePath
    PROVE  RolesApart'
<1> DEFINE b == TryDqbuf(dmaqueue)
           rest == PullBuf(dmaqueue)
<1>1. CASE ~(Enabled(i) /\ Pullable(dmaqueue))
  BY <1>1, RoleUnchanged DEF UpdatePath
<1>2. CASE Enabled(i) /\ Pullable(dmaqueue)
  <2>1. /\ dmaqueue \in Seq(Bufs) /\ i \in Paths
        /\ mi_buf \in [Paths -> BufOrNull] /\ mi_buf_shd \in [Paths -> BufOrNull]
    BY DEF TypeOK
  <2>2. /\ rest \in Seq(Bufs) /\ b \in Bufs
        /\ \A c : OnList(dmaqueue, c) <=> OnList(rest, c) \/ c = b
        /\ Distinct(rest) /\ ~OnList(rest, b)
    BY <1>2, <2>1, PullBufFacts DEF RolesApart
  <2>3. CASE path[i] = "bad"
    <3>1. dmaqueue' = PushBuf(rest, b) /\ UNCHANGED <<mi_buf, mi_buf_shd>>
      BY <1>2, <2>3 DEF UpdatePath
    <3>2. /\ Distinct(dmaqueue')
          /\ \A c : OnList(dmaqueue', c) <=> OnList(rest, c) \/ c = b
      BY <2>2, <3>1, PushBufFacts
    <3> QED
      BY <2>2, <3>1, <3>2 DEF RolesApart
  <2>4. CASE path[i] # "bad"
    <3>1. /\ dmaqueue' = rest
          /\ mi_buf_shd' = [mi_buf_shd EXCEPT ![i] = mi_buf[i]]
          /\ mi_buf' = [mi_buf EXCEPT ![i] = b]
      BY <1>2, <2>4 DEF UpdatePath
    <3>2. \A p \in Paths : /\ mi_buf'[p] = IF p = i THEN b ELSE mi_buf[p]
                           /\ mi_buf_shd'[p] = IF p = i THEN mi_buf[p]
                                                 ELSE mi_buf_shd[p]
      BY <2>1, <3>1
    <3>3. b # NULL /\ OnList(dmaqueue, b)
      BY <2>2, IspMiAssumption
    <3>4. \A p \in Paths : mi_buf[p] # b /\ mi_buf_shd[p] # b
      BY <3>3 DEF RolesApart
    <3> HIDE DEF b, rest
    <3> QED
      BY <2>1, <2>2, <3>1, <3>2, <3>3, <3>4 DEF RolesApart
  <2> QED
    BY <2>3, <2>4
<1> QED
  BY <1>1, <1>2

\* isr_process_frame and clean_dma_buffer only take buffers away.
LEMMA RoleRemove ==
    ASSUME TypeOK, RolesApart,
           dmaqueue' = dmaqueue \/ dmaqueue' = <<>>,
           \A p \in Paths : /\ mi_buf'[p] \in {mi_buf[p], NULL}
                            /\ mi_buf_shd'[p] \in {mi_buf_shd[p], NULL}
    PROVE  RolesApart'
<1>1. /\ Distinct(dmaqueue) => Distinct(dmaqueue')
      /\ \A c : OnList(dmaqueue', c) => OnList(dmaqueue, c)
  <2>1. CASE dmaqueue' = dmaqueue
    BY <2>1
  <2>2. CASE dmaqueue' = <<>>
    BY <2>2 DEF Distinct, OnList
  <2> QED
    BY <2>1, <2>2
<1> QED
  BY <1>1 DEF RolesApart

\* clean_dma_buffer racing with one iteration of update_dma_buffer leaves the
\* buffers of that path, shifted, and no other.
LEMMA RoleRaced ==
    ASSUME TypeOK, RolesApart, CleanVideoRaced
    PROVE  RolesApart'
<1> DEFINE b == TryDqbuf(dmaqueue)
<1>1. /\ dmaqueue \in Seq(Bufs) /\ i \in Paths /\ Pullable(dmaqueue)
  BY DEF TypeOK, CleanVideoRaced
<1>2. /\ b \in Bufs
      /\ \A c : OnList(dmaqueue, c) <=> OnList(PullBuf(dmaqueue), c) \/ c = b
      /\ Distinct(PullBuf(dmaqueue)) /\ ~OnList(PullBuf(dmaqueue), b)
  BY <1>1, PullBufFacts DEF RolesApart
<1>3. /\ dmaqueue' = PullBuf(dmaqueue)
      /\ \A p \in Paths : /\ mi_buf'[p] = IF p = i THEN b ELSE NULL
                          /\ mi_buf_shd'[p] = IF p = i THEN mi_buf[p] ELSE NULL
  BY DEF CleanVideoRaced
<1>4. b # NULL /\ mi_buf[i] # b
  BY <1>1, <1>2, IspMiAssumption DEF RolesApart
<1> HIDE DEF b
<1> QED
  BY <1>1, <1>2, <1>3, <1>4 DEF RolesApart

\* Every operation keeps the roles apart, provided a buffer that comes in is
\* not inside already.
LEMMA RoleStep ==
    ASSUME TypeOK, RolesApart, [Next]_vars,
           \A b \in Bufs : SetBuffer(b) \/ NotifyPush(b) => ~InIsp(b)
    PROVE  RolesApart'
<1> USE DEF dev, bufs, hw, irq, proc, stream
<1>1. CASE IsrDeliver
  BY <1>1, RoleUnchanged, RoleRemove DEF IsrDeliver, TypeOK
<1>2. CASE UpdatePath
  BY <1>2, RoleUpdate
<1>3. ASSUME NEW b \in Bufs, SetBuffer(b) PROVE RolesApart'
  BY <1>3, RolePush DEF SetBuffer
<1>4. ASSUME NEW b \in Bufs, NotifyPush(b) PROVE RolesApart'
  BY <1>4, RolePush, RoleUnchanged DEF NotifyPush
<1>5. CASE CleanVideo \/ CleanDwe \/ CleanQueue
  BY <1>5, RoleRemove DEF CleanVideo, CleanDwe, CleanQueue
<1>5a. CASE CleanVideoRaced
  BY <1>5a, RoleRaced
<1>6. CASE \/ \E p \in Paths : FrameEnd(p)
           \/ HwIsr \/ IsrLock \/ IsrTest \/ Tasklet
           \/ MiStart \/ MiStop \/ Open \/ Close
           \/ SetDriver \/ UpdateCall \/ CfgUpd \/ MiOff \/ ClearDriver
           \/ Stopped \/ FreeIrq
           \/ \E b \in Bufs : Notify(b)
           \/ \E next \in {"set", "clear"} : SetStream(next)
           \/ StreamWrite \/ ReturnAll
  <2>1. UNCHANGED <<dmaqueue, mi_buf, mi_buf_shd>>
    BY <1>6 DEF FrameEnd, HwIsr, IsrLock, IsrTest, Tasklet, MiStart, MiStop,
         Open, Close, SetDriver, UpdateCall, CfgUpd, MiOff, ClearDriver,
         Stopped, FreeIrq, Notify, SetStream, StreamWrite, ReturnAll
  <2> QED
    BY <2>1, RoleUnchanged
<1>7. CASE UNCHANGED vars
  BY <1>7, RoleUnchanged DEF vars
<1> QED
  BY <1>1, <1>2, <1>3, <1>4, <1>5, <1>5a, <1>6, <1>7
     DEF Next, IsrStep, Ioctl, IoctlStep, RemoteStep
-----------------------------------------------------------------------------
(***************************************************************************)
(* Linked to the dewarper.                                                 *)
(***************************************************************************)

\* The inductive invariant: roles and owners are disjoint, dev->lock guards
\* the interrupt handler's loop.
NoOops == oops = "none"
DweInv == /\ TypeOK /\ ~ToVideo /\ RolesApart /\ OneOwner
          /\ LockHeld /\ NoOops /\ spc # "return"

\* update_dma_buffer brings no buffer into the driver.
LEMMA UpdateKeeps ==
    ASSUME TypeOK, UpdatePath, NEW b \in Bufs, InIsp(b)'
    PROVE  InIsp(b)
<1>1. CASE ~(Enabled(i) /\ Pullable(dmaqueue))
  BY <1>1 DEF UpdatePath, InIsp, OnList
<1>2. CASE Enabled(i) /\ Pullable(dmaqueue)
  <2>1. /\ PullBuf(dmaqueue) \in Seq(Bufs) /\ TryDqbuf(dmaqueue) \in Bufs
        /\ \A c : OnList(dmaqueue, c) <=>
                  OnList(PullBuf(dmaqueue), c) \/ c = TryDqbuf(dmaqueue)
    BY <1>2, PullBufFacts DEF TypeOK
  <2>2. CASE path[i] = "bad"
    <3>1. /\ dmaqueue' = PushBuf(PullBuf(dmaqueue), TryDqbuf(dmaqueue))
          /\ UNCHANGED <<mi_buf, mi_buf_shd>>
      BY <1>2, <2>2 DEF UpdatePath
    <3>2. \A c : OnList(dmaqueue', c) <=> OnList(dmaqueue, c)
      BY <2>1, <3>1, PushBufFacts
    <3> QED
      BY <3>1, <3>2 DEF InIsp
  <2>3. CASE path[i] # "bad"
    <3>1. /\ dmaqueue' = PullBuf(dmaqueue)
          /\ mi_buf_shd' = [mi_buf_shd EXCEPT ![i] = mi_buf[i]]
          /\ mi_buf' = [mi_buf EXCEPT ![i] = TryDqbuf(dmaqueue)]
      BY <1>2, <2>3 DEF UpdatePath
    <3> QED
      BY <2>1, <3>1 DEF InIsp, TypeOK
  <2> QED
    BY <2>2, <2>3
<1> QED
  BY <1>1, <1>2

\* isr_process_frame brings none in, and parts with the one it delivers.
LEMMA DeliverKeeps ==
    ASSUME TypeOK, RolesApart, IsrDeliver, mi_buf_shd[i] # NULL,
           NEW b \in Bufs, InIsp(b)'
    PROVE  InIsp(b) /\ b # mi_buf_shd[i]
<1>1. /\ i \in Paths /\ mi_buf_shd \in [Paths -> BufOrNull]
      /\ dmaqueue' = dmaqueue /\ mi_buf' = mi_buf
      /\ mi_buf_shd' = [mi_buf_shd EXCEPT ![i] = NULL]
  BY DEF IsrDeliver, TypeOK
<1>2. CASE OnList(dmaqueue, b)
  BY <1>1, <1>2 DEF InIsp, RolesApart
<1>3. ASSUME NEW p \in Paths, b = mi_buf[p] PROVE InIsp(b) /\ b # mi_buf_shd[i]
  <2>1. b # NULL
    BY IspMiAssumption
  <2> QED
    BY <1>1, <1>3, <2>1 DEF InIsp, RolesApart
<1>4. ASSUME NEW p \in Paths, b = mi_buf_shd'[p] PROVE InIsp(b) /\ b # mi_buf_shd[i]
  <2>1. b # NULL /\ p # i /\ b = mi_buf_shd[p]
    BY <1>1, <1>4, IspMiAssumption
  <2> QED
    BY <1>1, <1>4, <2>1 DEF InIsp, RolesApart
<1>5. OnList(dmaqueue', b) <=> OnList(dmaqueue, b)
  BY <1>1
<1> QED
  BY <1>1, <1>2, <1>3, <1>4, <1>5 DEF InIsp

\* What leaves the driver is not referred to any more, what enters it was
\* outside.
LEMMA OwnerStep ==
    ASSUME TypeOK, RolesApart, OneOwner, ~ToVideo, spc # "return", [Next]_vars
    PROVE  OneOwner'
<1> USE IspMiAssumption DEF dev, bufs, hw, irq, proc, stream
<1>1. ASSUME NEW b \in Bufs, UNCHANGED bufs PROVE InIsp(b)' <=> InIsp(b)
  BY <1>1 DEF InIsp, OnList
<1>2. CASE IsrDeliver
  <2>1. CASE mi_buf_shd[i] = NULL
    BY <1>2, <2>1, <1>1 DEF IsrDeliver, OneOwner
  <2>2. CASE mi_buf_shd[i] # NULL
    <3>1. /\ i \in Paths /\ mi_buf_shd[i] \in Bufs
          /\ remote' = remote \cup {mi_buf_shd[i]}
          /\ mi_buf_shd' = [mi_buf_shd EXCEPT ![i] = NULL]
          /\ UNCHANGED <<dmaqueue, mi_buf, fresh>>
      BY <1>2, <2>2 DEF IsrDeliver, TypeOK
    <3>2. \A b \in Bufs : InIsp(b)' => InIsp(b) /\ b # mi_buf_shd[i]
      BY <1>2, <2>2, DeliverKeeps
    <3>3. InIsp(mi_buf_shd[i])
      BY <3>1 DEF InIsp
    <3> QED
      BY <3>1, <3>2, <3>3 DEF OneOwner
  <2> QED
    BY <2>1, <2>2
<1>3. CASE UpdatePath
  <2>1. UNCHANGED <<remote, fresh>>
    BY <1>3 DEF UpdatePath
  <2> QED
    BY <1>3, <2>1, UpdateKeeps DEF OneOwner
<1>4. ASSUME NEW c \in Bufs, SetBuffer(c) PROVE OneOwner'
  <2>1. /\ c \in fresh /\ fresh' = fresh \ {c} /\ dmaqueue' = PushBuf(dmaqueue, c)
        /\ UNCHANGED <<mi_buf, mi_buf_shd, remote>>
    BY <1>4 DEF SetBuffer
  <2>2. ASSUME NEW b \in Bufs PROVE InIsp(b)' => InIsp(b) \/ b = c
    BY <2>1, PushBufFacts DEF InIsp, TypeOK
  <2> QED
    BY <2>1, <2>2 DEF OneOwner
<1>5. ASSUME NEW c \in Bufs, Notify(c) \/ NotifyPush(c) PROVE OneOwner'
  <2>1. /\ c \in remote
        /\ UNCHANGED <<mi_buf, mi_buf_shd>>
        /\ \/ UNCHANGED <<remote, fresh, dmaqueue>>
           \/ remote' = remote \ {c} /\ fresh' = fresh /\ dmaqueue' = PushBuf(dmaqueue, c)
           \/ remote' = remote \ {c} /\ fresh' = fresh /\ dmaqueue' = dmaqueue
           \/ remote' = remote \ {c} /\ fresh' = fresh \cup {c} /\ dmaqueue' = dmaqueue
    BY <1>5 DEF Notify, NotifyPush, TypeOK
  <2>2. ASSUME NEW b \in Bufs
        PROVE  InIsp(b)' => InIsp(b) \/ (b = c /\ fresh' = fresh /\ remote' = remote \ {c})
    <3>1. CASE /\ fresh' = fresh /\ remote' = remote \ {c}
               /\ dmaqueue' = PushBuf(dmaqueue, c)
      <4>1. OnList(dmaqueue', b) <=> OnList(dmaqueue, b) \/ b = c
        BY <3>1, PushBufFacts DEF TypeOK
      <4> QED
        BY <2>1, <3>1, <4>1 DEF InIsp
    <3>2. CASE dmaqueue' = dmaqueue
      BY <2>1, <3>2 DEF InIsp
    <3> QED
      BY <2>1, <3>1, <3>2
  <2> QED
    BY <2>1, <2>2 DEF OneOwner
<1>6. CASE CleanDwe
  <2>1. /\ fresh' = fresh \cup {b \in Bufs : InIsp(b)} /\ remote' = remote
        /\ dmaqueue' = <<>>
        /\ \A p \in Paths : mi_buf'[p] = NULL /\ mi_buf_shd'[p] = NULL
    BY <1>6 DEF CleanDwe
  <2>2. \A b \in Bufs : ~InIsp(b)'
    BY <2>1 DEF InIsp, OnList
  <2> QED
    BY <2>1, <2>2 DEF OneOwner
<1>7. CASE CleanQueue
  BY <1>7 DEF CleanQueue, InIsp, OnList, OneOwner
<1>8. CASE CleanVideo \/ CleanVideoRaced \/ ReturnAll
  BY <1>8 DEF CleanVideo, CleanVideoRaced, ReturnAll
<1>9. CASE \/ \E p \in Paths : FrameEnd(p)
           \/ HwIsr \/ IsrLock \/ IsrTest \/ Tasklet
           \/ MiStart \/ MiStop \/ Open \/ Close
           \/ SetDriver \/ UpdateCall \/ CfgUpd \/ MiOff \/ ClearDriver
           \/ Stopped \/ FreeIrq
           \/ \E next \in {"set", "clear"} : SetStream(next)
           \/ StreamWrite \/ UNCHANGED vars
  <2>1. UNCHANGED bufs
    BY <1>9 DEF FrameEnd, HwIsr, IsrLock, IsrTest, Tasklet, MiStart, MiStop,
         Open, Close, SetDriver, UpdateCall, CfgUpd, MiOff, ClearDriver,
         Stopped, FreeIrq, SetStream, StreamWrite, vars
  <2> QED
    BY <2>1, <1>1 DEF OneOwner
<1> QED
  BY <1>2, <1>3, <1>4, <1>5, <1>6, <1>7, <1>8, <1>9
     DEF Next, IsrStep, Ioctl, IoctlStep, RemoteStep

\* dev->lock keeps the buffer the interrupt handler is about to deliver, so
\* that it meets no null pointer; nor is a buffer that comes back still
\* linked.
LEMMA FaultStep ==
    ASSUME TypeOK, OneOwner, LockHeld, NoOops, ~ToVideo, spc # "return",
           [Next]_vars
    PROVE  LockHeld' /\ NoOops' /\ spc' # "return"
<1> USE DEF LockHeld, NoOops, dev, bufs, hw, irq, proc, stream
<1>1. CASE IsrTest
  BY <1>1 DEF IsrTest, IsrNextPath
<1>2. CASE IsrDeliver
  BY <1>2 DEF IsrDeliver, IsrNextPath
<1>3. CASE UpdatePath
  <2>1. isr \notin {"loop", "deliver"} /\ lock' # "isr"
    BY <1>3 DEF UpdatePath
  <2> QED
    BY <1>3, <2>1 DEF UpdatePath
<1>4. ASSUME NEW b \in Bufs, NotifyPush(b) PROVE LockHeld' /\ NoOops' /\ spc' # "return"
  <2>1. ~OnList(dmaqueue, b)
    BY <1>4 DEF NotifyPush, OneOwner, InIsp, TypeOK
  <2> QED
    BY <1>4, <2>1 DEF NotifyPush
<1>5. CASE CleanDwe
  BY <1>5 DEF CleanDwe
<1>6. CASE HwIsr \/ IsrLock \/ Tasklet \/ UpdateCall
  BY <1>6 DEF HwIsr, IsrLock, Tasklet, UpdateCall
<1>7. CASE \/ StreamWrite
           \/ \E next \in {"set", "clear"} : SetStream(next)
  BY <1>7 DEF StreamWrite, SetStream
<1>8. CASE CleanVideo \/ CleanVideoRaced \/ ReturnAll
  BY <1>8 DEF CleanVideo, CleanVideoRaced, ReturnAll
<1>9. CASE \/ \E p \in Paths : FrameEnd(p)
           \/ \E b \in Bufs : SetBuffer(b) \/ Notify(b)
           \/ MiStart \/ MiStop \/ Open \/ Close
           \/ SetDriver \/ CfgUpd \/ MiOff \/ ClearDriver
           \/ CleanQueue \/ Stopped \/ FreeIrq
           \/ UNCHANGED vars
  <2>1. UNCHANGED <<isr, lock, i, mi_buf_shd, oops, spc>>
    BY <1>9 DEF FrameEnd, SetBuffer, Notify, MiStart, MiStop, Open, Close, SetDriver,
         CfgUpd, MiOff, ClearDriver, CleanQueue, Stopped, FreeIrq, vars
  <2> QED
    BY <2>1
<1> QED
  BY <1>1, <1>2, <1>3, <1>4, <1>5, <1>6, <1>7, <1>8, <1>9
     DEF Next, IsrStep, Ioctl, IoctlStep, RemoteStep

\* With the dewarper every step keeps the inductive invariant.
LEMMA DweStep == DweInv /\ [Next]_vars => DweInv'
<1> SUFFICES ASSUME DweInv, [Next]_vars PROVE DweInv'
  OBVIOUS
<1>1. \A b \in Bufs : SetBuffer(b) \/ NotifyPush(b) => ~InIsp(b)
  BY DEF SetBuffer, NotifyPush, DweInv, OneOwner, TypeOK
<1>2. RolesApart'
  BY <1>1, RoleStep DEF DweInv
<1> QED
  BY <1>2, TypeStep, OwnerStep, FaultStep, EnvFixed DEF DweInv

\* With the dewarper the initial states satisfy it.
LEMMA DweInit == ~ToVideo /\ Init => DweInv
<1> SUFFICES ASSUME ~ToVideo, Init PROVE DweInv
  OBVIOUS
<1>1. TypeOK
  BY IspMiAssumption DEF Init, TypeOK
<1>2. \A b \in Bufs : ~InIsp(b)
  BY IspMiAssumption DEF Init, InIsp, OnList
<1>3. RolesApart
  BY DEF Init, RolesApart, Distinct
<1> QED
  BY <1>1, <1>2, <1>3 DEF Init, DweInv, OneOwner, LockHeld, NoOops

\* What isp_buf_notify is about to push the ISP does not refer to.
PushedOnce == \A b \in pushing : ~InIsp(b)

\* A buffer comes into the driver only by isp_buf_alloc or by that push.
LEMMA EntersStep ==
    ASSUME TypeOK, RolesApart, ToVideo, [Next]_vars, NEW b \in Bufs, InIsp(b)'
    PROVE  InIsp(b) \/ NotifyPush(b)
<1> USE IspMiAssumption DEF dev, bufs, hw, irq, proc, stream
<1>1. CASE IsrDeliver
  <2>1. CASE mi_buf_shd[i] = NULL
    BY <1>1, <2>1 DEF IsrDeliver, InIsp, OnList
  <2>2. CASE mi_buf_shd[i] # NULL
    BY <1>1, <2>2, DeliverKeeps
  <2> QED
    BY <2>1, <2>2
<1>2. CASE UpdatePath
  BY <1>2, UpdateKeeps
<1>3. ASSUME NEW c \in Bufs, NotifyPush(c) PROVE InIsp(b) \/ NotifyPush(b)
  <2>1. /\ UNCHANGED <<mi_buf, mi_buf_shd>>
        /\ dmaqueue' = PushBuf(dmaqueue, c) \/ dmaqueue' = dmaqueue
    BY <1>3 DEF NotifyPush
  <2>2. OnList(dmaqueue', b) => OnList(dmaqueue, b) \/ b = c
    <3>1. CASE dmaqueue' = PushBuf(dmaqueue, c)
      BY <3>1, PushBufFacts DEF TypeOK
    <3>2. CASE dmaqueue' = dmaqueue
      BY <3>2
    <3> QED
      BY <2>1, <3>1, <3>2
  <2>3. InIsp(b) \/ b = c
    BY <2>1, <2>2 DEF InIsp
  <2> QED
    BY <1>3, <2>3
<1>4. CASE CleanVideo \/ CleanQueue
  <2>1. /\ \A p \in Paths : /\ mi_buf'[p] \in {mi_buf[p], NULL}
                            /\ mi_buf_shd'[p] \in {mi_buf_shd[p], NULL}
        /\ dmaqueue' \in {dmaqueue, <<>>}
    BY <1>4 DEF CleanVideo, CleanQueue, TypeOK
  <2>2. b # NULL
    BY IspMiAssumption
  <2>3. OnList(dmaqueue', b) => OnList(dmaqueue, b)
    BY <2>1 DEF OnList
  <2> QED
    BY <2>1, <2>2, <2>3 DEF InIsp
<1>4a. CASE CleanVideoRaced
  <2>1. /\ i \in Paths
        /\ OnList(dmaqueue', b) => OnList(dmaqueue, b)
        /\ OnList(dmaqueue, TryDqbuf(dmaqueue))
    BY <1>4a, PullBufFacts DEF CleanVideoRaced, TypeOK
  <2>2. \A p \in Paths :
           /\ mi_buf'[p] = IF p = i THEN TryDqbuf(dmaqueue) ELSE NULL
           /\ mi_buf_shd'[p] = IF p = i THEN mi_buf[p] ELSE NULL
    BY <1>4a DEF CleanVideoRaced
  <2>3. b # NULL
    BY IspMiAssumption
  <2> QED
    BY <2>1, <2>2, <2>3 DEF InIsp
<1>5. CASE (\E c \in Bufs : SetBuffer(c)) \/ CleanDwe
  BY <1>5 DEF SetBuffer, CleanDwe
<1>6. CASE \/ \E p \in Paths : FrameEnd(p)
           \/ HwIsr \/ IsrLock \/ IsrTest \/ Tasklet
           \/ MiStart \/ MiStop \/ Open \/ Close
           \/ SetDriver \/ UpdateCall \/ CfgUpd \/ MiOff \/ ClearDriver
           \/ Stopped \/ FreeIrq
           \/ \E c \in Bufs : Notify(c)
           \/ \E next \in {"set", "clear"} : SetStream(next)
           \/ StreamWrite \/ ReturnAll \/ UNCHANGED vars
  <2>1. UNCHANGED <<dmaqueue, mi_buf, mi_buf_shd>>
    BY <1>6 DEF FrameEnd, HwIsr, IsrLock, IsrTest, Tasklet, MiStart, MiStop,
         Open, Close, SetDriver, UpdateCall, CfgUpd, MiOff, ClearDriver,
         Stopped, FreeIrq, Notify, SetStream, StreamWrite, ReturnAll, vars
  <2> QED
    BY <2>1 DEF InIsp, OnList
<1> QED
  BY <1>1, <1>2, <1>3, <1>4, <1>4a, <1>5, <1>6
     DEF Next, IsrStep, Ioctl, IoctlStep, RemoteStep

\* Only isp_buf_notify adds to the buffers it is about to push.
LEMMA PushingStep ==
    ASSUME TypeOK, [Next]_vars, NEW b \in pushing'
    PROVE  b \in Bufs /\ (b \in pushing \/ Notify(b)) /\ ~NotifyPush(b)
<1> USE DEF dev, bufs, hw, irq, proc, stream
<1>1. CASE \E c \in Bufs : Notify(c)
  BY <1>1 DEF Notify, NotifyPush, TypeOK
<1>2. CASE \E c \in Bufs : NotifyPush(c)
  BY <1>2 DEF NotifyPush, TypeOK
<1>3. CASE ~\E c \in Bufs : Notify(c) \/ NotifyPush(c)
  <2>1. pushing' = pushing
    <3>1. CASE IsrDeliver
      BY <3>1 DEF IsrDeliver
    <3>2. CASE UpdatePath
      BY <3>2 DEF UpdatePath
    <3>3. CASE HwIsr \/ IsrLock \/ IsrTest \/ Tasklet \/ \E p \in Paths : FrameEnd(p)
      BY <3>3 DEF HwIsr, IsrLock, IsrTest, Tasklet, FrameEnd
    <3>4. CASE Ioctl
      BY <3>4 DEF Ioctl, MiStart, MiStop, Open, Close, SetBuffer
    <3>5. CASE IoctlStep
      BY <3>5 DEF IoctlStep, SetDriver, UpdateCall, CfgUpd, MiOff, ClearDriver, CleanVideo,
           CleanVideoRaced, CleanQueue, CleanDwe, Stopped, FreeIrq
    <3>6. CASE RemoteStep \/ \E next \in {"set", "clear"} : SetStream(next)
      BY <3>6 DEF RemoteStep, SetStream, StreamWrite, ReturnAll
    <3>7. CASE UNCHANGED vars
      BY <3>7 DEF vars
    <3> QED
      BY <1>3, <3>1, <3>2, <3>3, <3>4, <3>5, <3>6, <3>7 DEF Next, IsrStep
  <2> QED
    BY <1>3, <2>1 DEF TypeOK
<1> QED
  BY <1>1, <1>2, <1>3

\* The invariant for either link: linked to the video device, roles stay
\* apart as long as user space returns no buffer the ISP still refers to.
Inv == /\ TypeOK
       /\ ~ToVideo => DweInv
       /\ ToVideo /\ "early_requeue" \in Closed => RolesApart /\ PushedOnce

\* It holds of a probed, closed device.
LEMMA InvInit == Init => Inv
<1>1. Init => TypeOK /\ RolesApart /\ PushedOnce
  BY IspMiAssumption DEF Init, TypeOK, RolesApart, Distinct, PushedOnce
<1> QED
  BY <1>1, DweInit DEF Inv

\* Every operation and interrupt step keeps it.
LEMMA InvStep == Inv /\ [Next]_vars => Inv'
<1> SUFFICES ASSUME Inv, [Next]_vars PROVE Inv'
  OBVIOUS
<1>1. CASE ~ToVideo
  BY <1>1, DweStep, TypeStep, EnvFixed DEF Inv
<1>2. CASE ToVideo /\ "early_requeue" \in Closed
  <2>1. \A b \in Bufs : SetBuffer(b) \/ NotifyPush(b) => ~InIsp(b)
    BY <1>2 DEF SetBuffer, NotifyPush, Inv, PushedOnce
  <2>2. ASSUME NEW b \in pushing' PROVE ~InIsp(b)'
    <3>1. b \in Bufs /\ ~NotifyPush(b) /\ ~InIsp(b)
      BY <1>2, <2>2, PushingStep DEF Inv, PushedOnce, Notify
    <3> QED
      BY <1>2, <3>1, EntersStep DEF Inv
  <2>3. RolesApart'
    BY <1>2, <2>1, RoleStep DEF Inv
  <2>4. PushedOnce'
    BY <2>2 DEF PushedOnce
  <2> QED
    BY <1>2, <2>3, <2>4, TypeStep, EnvFixed DEF Inv
<1>3. CASE ToVideo /\ "early_requeue" \notin Closed
  BY <1>3, TypeStep, EnvFixed DEF Inv
<1> QED
  BY <1>1, <1>2, <1>3

\* In every behaviour the invariant holds.
LEMMA Invariant == Spec => []Inv
BY InvInit, InvStep, PTL DEF Spec

\* A buffer has one role, under every timing; linked to the video device it
\* takes that user space queues no buffer early.
THEOREM Roles == Spec => []OneRole
<1>1. Inv => OneRole
  BY DEF Inv, DweInv, OneRole, Shut
<1> QED
  BY <1>1, Invariant, PTL

\* Linked to the dewarper, with every timing window open, a buffer has one
\* owner, and neither the interrupt handler nor the queue faults.
THEOREM DweOwnership == Spec => [](OneOwner /\ (~ToVideo => NoFault))
<1>1. Inv => OneOwner /\ (~ToVideo => NoFault)
  BY DEF Inv, DweInv, OneOwner, NoFault, NoOops
<1> QED
  BY <1>1, Invariant, PTL
-----------------------------------------------------------------------------
(***************************************************************************)
(* Linked to the dewarper, the driver implements BufferFlow.               *)
(***************************************************************************)

\* Where a buffer is, read off its owner.
View ==
    \A b \in Bufs :
        /\ OwnerOf(b) \in {"free", "queued", "next", "filling", "remote", "lost"}
        /\ OwnerOf(b) = "remote" <=> b \in remote
        /\ OwnerOf(b) = "free" <=> b \in fresh
        /\ OwnerOf(b) = "queued" <=> OnList(dmaqueue, b)
        /\ OwnerOf(b) = "next" <=> \E p \in Paths : mi_buf[p] = b
        /\ OwnerOf(b) = "filling" <=> \E p \in Paths : mi_buf_shd[p] = b

\* Under the invariant the cases of OwnerOf exclude each other.
LEMMA OwnerView == DweInv => View
<1> SUFFICES ASSUME DweInv, NEW b \in Bufs
             PROVE  /\ OwnerOf(b) \in {"free", "queued", "next", "filling", "remote", "lost"}
                    /\ OwnerOf(b) = "remote" <=> b \in remote
                    /\ OwnerOf(b) = "free" <=> b \in fresh
                    /\ OwnerOf(b) = "queued" <=> OnList(dmaqueue, b)
                    /\ OwnerOf(b) = "next" <=> \E p \in Paths : mi_buf[p] = b
                    /\ OwnerOf(b) = "filling" <=> \E p \in Paths : mi_buf_shd[p] = b
  BY DEF View
<1> DEFINE onList == OnList(dmaqueue, b)
           next == \E p \in Paths : mi_buf[p] = b
           filling == \E p \in Paths : mi_buf_shd[p] = b
<1>0. ~ToVideo
  BY DEF DweInv
<1>1. /\ b \in remote => b \notin fresh /\ ~onList /\ ~next /\ ~filling
      /\ b \in fresh => ~onList /\ ~next /\ ~filling
  BY <1>0 DEF DweInv, OneOwner, InIsp
<1>2. b # NULL
  BY IspMiAssumption
<1>3. /\ next => ~onList /\ ~filling
      /\ filling => ~onList
  BY <1>2 DEF DweInv, RolesApart
<1>4. OwnerOf(b) = IF b \in remote THEN "remote" ELSE IF b \in fresh THEN "free"
                   ELSE IF onList THEN "queued" ELSE IF next THEN "next"
                   ELSE IF filling THEN "filling" ELSE "lost"
  BY <1>0, <1>1, <1>3 DEF OwnerOf
<1> HIDE DEF onList, next, filling
<1>5. /\ OwnerOf(b) \in {"free", "queued", "next", "filling", "remote", "lost"}
      /\ OwnerOf(b) = "remote" <=> b \in remote
      /\ OwnerOf(b) = "free" <=> b \in fresh
      /\ OwnerOf(b) = "queued" <=> onList
      /\ OwnerOf(b) = "next" <=> next
      /\ OwnerOf(b) = "filling" <=> filling
  BY <1>1, <1>3, <1>4
<1> QED
  BY <1>5 DEF onList, next, filling

\* A step that leaves every queue and pointer alone is a stutter.
LEMMA FlowStutter ==
    ASSUME ~ToVideo, ~ToVideo', UNCHANGED bufs
    PROVE  [b \in Bufs |-> OwnerOf(b)]' = [b \in Bufs |-> OwnerOf(b)]
BY DEF bufs, OwnerOf, OnList

\* update_dma_buffer maps to Advance, or to a stutter.
LEMMA FlowUpdate ==
    ASSUME DweInv, View, View', ~ToVideo, ~ToVideo',
           UpdatePath
    PROVE  Flow!Advance \/ UNCHANGED [b \in Bufs |-> OwnerOf(b)]
<1> DEFINE b == TryDqbuf(dmaqueue)
           rest == PullBuf(dmaqueue)
           N == {mi_buf[i]} \ {NULL}
           F == {mi_buf_shd[i]} \ {NULL}
<1>1. /\ dmaqueue \in Seq(Bufs) /\ i \in Paths
      /\ mi_buf \in [Paths -> BufOrNull] /\ mi_buf_shd \in [Paths -> BufOrNull]
      /\ UNCHANGED <<remote, fresh>>
  BY DEF DweInv, TypeOK, UpdatePath
<1>2. CASE ~(Enabled(i) /\ Pullable(dmaqueue))
  BY <1>1, <1>2, FlowStutter DEF UpdatePath, bufs
<1>3. CASE Enabled(i) /\ Pullable(dmaqueue)
  <2>1. /\ rest \in Seq(Bufs) /\ b \in Bufs
        /\ \A c : OnList(dmaqueue, c) <=> OnList(rest, c) \/ c = b
        /\ ~OnList(rest, b)
    BY <1>1, <1>3, PullBufFacts DEF DweInv, RolesApart
  <2>2. CASE path[i] = "bad"
    <3>1. dmaqueue' = PushBuf(rest, b) /\ UNCHANGED <<mi_buf, mi_buf_shd>>
      BY <1>3, <2>2 DEF UpdatePath
    <3>2. \A c : OnList(dmaqueue', c) <=> OnList(dmaqueue, c)
      BY <2>1, <3>1, PushBufFacts
    <3> QED
      BY <1>1, <3>1, <3>2 DEF OwnerOf
  <2>3. CASE path[i] # "bad"
    <3>1. /\ dmaqueue' = rest
          /\ mi_buf_shd' = [mi_buf_shd EXCEPT ![i] = mi_buf[i]]
          /\ mi_buf' = [mi_buf EXCEPT ![i] = b]
      BY <1>3, <2>3 DEF UpdatePath
    <3>2. /\ N \in Flow!AtMostOne(Flow!Having("next"))
          /\ F \in Flow!AtMostOne(Flow!Having("filling"))
      BY <1>1 DEF View, Flow!Having, Flow!AtMostOne
    <3>3. b \in Flow!Having("queued")
      BY <2>1 DEF View, Flow!Having
    <3>4. ASSUME NEW c \in Bufs
          PROVE  OwnerOf(c)' = IF c = b THEN "next" ELSE IF c \in N THEN "filling"
                               ELSE IF c \in F THEN "lost" ELSE OwnerOf(c)
      <4>1. c # NULL
        BY IspMiAssumption
      <4>2. /\ OnList(dmaqueue', c) <=> OnList(dmaqueue, c) /\ c # b
            /\ (\E p \in Paths : mi_buf'[p] = c) <=>
                 c = b \/ \E p \in Paths : p # i /\ mi_buf[p] = c
            /\ (\E p \in Paths : mi_buf_shd'[p] = c) <=>
                 mi_buf[i] = c \/ \E p \in Paths : p # i /\ mi_buf_shd[p] = c
        BY <1>1, <2>1, <3>1
      <4>3. /\ (\E p \in Paths : p # i /\ mi_buf[p] = c) <=>
                 OwnerOf(c) = "next" /\ mi_buf[i] # c
            /\ (\E p \in Paths : p # i /\ mi_buf_shd[p] = c) <=>
                 OwnerOf(c) = "filling" /\ mi_buf_shd[i] # c
        <5>1. /\ OwnerOf(c) = "next" <=> \E p \in Paths : mi_buf[p] = c
              /\ OwnerOf(c) = "filling" <=> \E p \in Paths : mi_buf_shd[p] = c
          BY DEF View
        <5>2. \A p \in Paths : p # i =>
                 /\ mi_buf[p] = c => mi_buf[i] # c
                 /\ mi_buf_shd[p] = c => mi_buf_shd[i] # c
          BY <1>1, <4>1 DEF DweInv, RolesApart
        <5> QED
          BY <1>1, <5>1, <5>2
      <4>4. /\ OwnerOf(c)' \in {"free", "queued", "next", "filling", "remote", "lost"}
            /\ OwnerOf(c)' = "remote" <=> OwnerOf(c) = "remote"
            /\ OwnerOf(c)' = "free" <=> OwnerOf(c) = "free"
            /\ OwnerOf(c)' = "queued" <=> OwnerOf(c) = "queued" /\ c # b
            /\ OwnerOf(c)' = "next" <=>
                 c = b \/ (OwnerOf(c) = "next" /\ mi_buf[i] # c)
            /\ OwnerOf(c)' = "filling" <=>
                 mi_buf[i] = c \/ (OwnerOf(c) = "filling" /\ mi_buf_shd[i] # c)
        BY <1>1, <4>2, <4>3 DEF View
      <4>5. /\ OwnerOf(c) \in {"free", "queued", "next", "filling", "remote", "lost"}
            /\ c = b => OwnerOf(c) = "queued"
            /\ c \in N <=> mi_buf[i] = c
            /\ c \in F <=> mi_buf_shd[i] = c
            /\ mi_buf[i] = c => OwnerOf(c) = "next"
            /\ mi_buf_shd[i] = c => OwnerOf(c) = "filling"
        BY <1>1, <2>1, <4>1 DEF View
      <4> HIDE DEF b, rest, N, F
      <4> QED
        BY <4>4, <4>5
    <3> HIDE DEF b, N, F
    <3>5. [c \in Bufs |-> OwnerOf(c)]' =
             [c \in Bufs |-> IF c = b THEN "next" ELSE IF c \in N THEN "filling"
                             ELSE IF c \in F THEN "lost"
                             ELSE [d \in Bufs |-> OwnerOf(d)][c]]
      BY <3>4
    <3> QED
      BY <3>2, <3>3, <3>5 DEF Flow!Advance
  <2> QED
    BY <2>2, <2>3
<1> QED
  BY <1>2, <1>3

\* A step that moves one buffer maps to Pass.
LEMMA FlowPass ==
    ASSUME NEW b \in Bufs, NEW from, NEW to,
           OwnerOf(b) = from, OwnerOf(b)' = to,
           \A c \in Bufs \ {b} : OwnerOf(c)' = OwnerOf(c)
    PROVE  Flow!Pass(b, from, to)
<1>1. [c \in Bufs |-> OwnerOf(c)]' =
         [[c \in Bufs |-> OwnerOf(c)] EXCEPT ![b] = to]
  OBVIOUS
<1> QED
  BY <1>1 DEF Flow!Pass

\* isr_process_frame's delivery is a Pass from "filling" to "remote".
LEMMA FlowDeliver ==
    ASSUME DweInv, View, View', ~ToVideo, ~ToVideo',
           IsrDeliver
    PROVE  \E b \in Bufs : Flow!Pass(b, "filling", "remote")
<1>0. PICK b \in Bufs : b = mi_buf_shd[i]
  BY DEF IsrDeliver, DweInv, LockHeld, TypeOK
<1>1. /\ i \in Paths /\ b = mi_buf_shd[i]
      /\ remote' = remote \cup {b}
      /\ mi_buf_shd' = [mi_buf_shd EXCEPT ![i] = NULL]
      /\ UNCHANGED <<dmaqueue, mi_buf, fresh>>
      /\ mi_buf_shd \in [Paths -> BufOrNull]
  BY <1>0, IspMiAssumption DEF IsrDeliver, DweInv, LockHeld, TypeOK
<1>2. OwnerOf(b) = "filling" /\ OwnerOf(b)' = "remote"
  BY <1>1 DEF View
<1>3. ASSUME NEW c \in Bufs \ {b} PROVE OwnerOf(c)' = OwnerOf(c)
  <2>1. c # NULL
    BY IspMiAssumption
  <2>2. (\E p \in Paths : mi_buf_shd'[p] = c) <=> \E p \in Paths : mi_buf_shd[p] = c
    BY <1>1, <2>1
  <2>3. c \in remote' <=> c \in remote
    BY <1>1
  <2> QED
    BY <1>1, <2>2, <2>3 DEF OwnerOf, OnList
<1> QED
  BY <1>1, <1>2, <1>3, FlowPass

\* isp_buf_alloc passes a buffer from "free" to "queued".
LEMMA FlowAlloc ==
    ASSUME DweInv, View, View', ~ToVideo, ~ToVideo',
           NEW b \in Bufs, SetBuffer(b)
    PROVE  Flow!Pass(b, "free", "queued")
<1>1. /\ b \in fresh /\ fresh' = fresh \ {b}
      /\ dmaqueue' = PushBuf(dmaqueue, b)
      /\ UNCHANGED <<mi_buf, mi_buf_shd, remote>>
  BY DEF SetBuffer
<1>2. \A c : OnList(dmaqueue', c) <=> OnList(dmaqueue, c) \/ c = b
  BY <1>1, PushBufFacts DEF DweInv, TypeOK
<1>3. OwnerOf(b) = "free" /\ OwnerOf(b)' = "queued"
  BY <1>1, <1>2 DEF View
<1>4. ASSUME NEW c \in Bufs \ {b} PROVE OwnerOf(c)' = OwnerOf(c)
  <2>1. /\ c \in fresh' <=> c \in fresh
        /\ OnList(dmaqueue', c) <=> OnList(dmaqueue, c)
    BY <1>1, <1>2
  <2> QED
    BY <1>1, <2>1 DEF OwnerOf
<1> QED
  BY <1>3, <1>4, FlowPass

\* isp_buf_notify passes a buffer from "remote" to "free", or at the push to
\* "queued".
LEMMA FlowNotify ==
    ASSUME DweInv, View, View', ~ToVideo, ~ToVideo', NEW b \in Bufs,
           Notify(b) \/ NotifyPush(b)
    PROVE  \/ Flow!Pass(b, "remote", "queued") \/ Flow!Pass(b, "remote", "free")
           \/ UNCHANGED [c \in Bufs |-> OwnerOf(c)]
<1>1. b \in remote /\ ~OnList(dmaqueue, b) /\ UNCHANGED <<mi_buf, mi_buf_shd>>
  BY DEF Notify, NotifyPush, DweInv, OneOwner, InIsp, TypeOK
<1>2. CASE UNCHANGED <<remote, fresh, dmaqueue>>
  BY <1>1, <1>2, FlowStutter DEF bufs
<1>3. CASE ~UNCHANGED <<remote, fresh, dmaqueue>>
  <2>1. /\ remote' = remote \ {b}
        /\ \/ fresh' = fresh /\ dmaqueue' = PushBuf(dmaqueue, b)
           \/ fresh' = fresh \cup {b} /\ dmaqueue' = dmaqueue
    BY <1>1, <1>3 DEF Notify, NotifyPush
  <2>2. \A c : OnList(PushBuf(dmaqueue, b), c) <=> OnList(dmaqueue, c) \/ c = b
    BY PushBufFacts DEF DweInv, TypeOK
  <2>3. ASSUME NEW c \in Bufs \ {b} PROVE OwnerOf(c)' = OwnerOf(c)
    <3>1. /\ c \in fresh' <=> c \in fresh
          /\ c \in remote' <=> c \in remote
          /\ OnList(dmaqueue', c) <=> OnList(dmaqueue, c)
      BY <2>1, <2>2
    <3> QED
      BY <1>1, <3>1 DEF OwnerOf
  <2>4. /\ OwnerOf(b) = "remote"
        /\ OwnerOf(b)' = "queued" \/ OwnerOf(b)' = "free"
    BY <1>1, <2>1, <2>2 DEF View
  <2> QED
    BY <2>3, <2>4, FlowPass
<1> QED
  BY <1>2, <1>3

\* clean_dma_buffer flushes.
LEMMA FlowClean ==
    ASSUME DweInv, View, View', ~ToVideo, ~ToVideo',
           CleanDwe
    PROVE  Flow!Flush
<1>1. ASSUME NEW b \in Bufs
      PROVE  OwnerOf(b)' = IF OwnerOf(b) \in {"queued", "next", "filling"}
                             THEN "free" ELSE OwnerOf(b)
  <2>1. /\ fresh' = fresh \cup {c \in Bufs : InIsp(c)} /\ remote' = remote
        /\ dmaqueue' = <<>>
        /\ \A p \in Paths : mi_buf'[p] = NULL /\ mi_buf_shd'[p] = NULL
    BY DEF CleanDwe
  <2>2. InIsp(b) <=> OwnerOf(b) \in {"queued", "next", "filling"}
    BY DEF InIsp, View
  <2>3. /\ ~OnList(dmaqueue', b)
        /\ \A p \in Paths : mi_buf'[p] # b /\ mi_buf_shd'[p] # b
    BY <2>1, IspMiAssumption DEF OnList
  <2>4. b \in fresh' <=> b \in fresh \/ InIsp(b)
    BY <2>1
  <2> QED
    BY <2>1, <2>2, <2>3, <2>4 DEF View
<1> QED
  BY <1>1 DEF Flow!Flush

\* Every step of the driver maps to a step of BufferFlow or to a stutter.
LEMMA FlowStep ==
    ASSUME DweInv, View, View', ~ToVideo, ~ToVideo', [Next]_vars
    PROVE  [Flow!Next]_[b \in Bufs |-> OwnerOf(b)]
<1> USE DEF dev, hw, irq, proc, stream
<1>1. CASE UpdatePath
  BY <1>1, FlowUpdate DEF Flow!Next
<1>2. CASE IsrDeliver
  BY <1>2, FlowDeliver DEF Flow!Next
<1>3. CASE \E b \in Bufs : SetBuffer(b)
  BY <1>3, FlowAlloc DEF Flow!Next
<1>4. CASE \E b \in Bufs : Notify(b) \/ NotifyPush(b)
  BY <1>4, FlowNotify DEF Flow!Next
<1>5. CASE CleanDwe
  BY <1>5, FlowClean DEF Flow!Next
<1>6. CASE CleanVideo \/ CleanVideoRaced \/ CleanQueue \/ ReturnAll
  BY <1>6 DEF CleanVideo, CleanVideoRaced, CleanQueue, ReturnAll, DweInv
<1>7. CASE \/ \E p \in Paths : FrameEnd(p)
           \/ HwIsr \/ IsrLock \/ IsrTest \/ Tasklet
           \/ MiStart \/ MiStop \/ Open \/ Close
           \/ SetDriver \/ UpdateCall \/ CfgUpd \/ MiOff \/ ClearDriver
           \/ Stopped \/ FreeIrq
           \/ \E next \in {"set", "clear"} : SetStream(next)
           \/ StreamWrite \/ UNCHANGED vars
  <2>1. UNCHANGED bufs
    BY <1>7 DEF FrameEnd, HwIsr, IsrLock, IsrTest, Tasklet, MiStart, MiStop,
         Open, Close, SetDriver, UpdateCall, CfgUpd, MiOff, ClearDriver,
         Stopped, FreeIrq, SetStream, StreamWrite, vars
  <2> QED
    BY <2>1, FlowStutter
<1> QED
  BY <1>1, <1>2, <1>3, <1>4, <1>5, <1>6, <1>7
     DEF Next, IsrStep, Ioctl, IoctlStep, RemoteStep

\* Linked to the dewarper, with every timing window open, the driver moves
\* every buffer along the road of BufferFlow.
THEOREM DweFlow == Spec => FlowSpec
<1>1. Init => Flow!Init
  <2> SUFFICES ASSUME Init PROVE Flow!Init
    OBVIOUS
  <2>1. \A b \in Bufs : OwnerOf(b) = "free"
    <3>1. CASE ToVideo
      BY <3>1 DEF OwnerOf
    <3>2. CASE ~ToVideo
      BY <3>2, DweInit, OwnerView DEF View, Init
    <3> QED
      BY <3>1, <3>2
  <2> QED
    BY <2>1 DEF Flow!Init
<1>2. Inv => (~ToVideo => View)
  BY OwnerView DEF Inv
<1>3. /\ Inv /\ (~ToVideo => View)
      /\ (Inv /\ (~ToVideo => View))'
      /\ [Next]_vars
      => [Flow!Next]_[b \in Bufs |-> OwnerOf(b)]
  <2> SUFFICES ASSUME Inv, ~ToVideo => View, (Inv /\ (~ToVideo => View))',
                      [Next]_vars
               PROVE  [Flow!Next]_[b \in Bufs |-> OwnerOf(b)]
    OBVIOUS
  <2>1. CASE ToVideo
    <3>1. ToVideo'
      BY <2>1, EnvFixed
    <3> QED
      BY <2>1, <3>1 DEF OwnerOf
  <2>2. CASE ~ToVideo
    <3>1. ~ToVideo'
      BY <2>2, EnvFixed
    <3>2. DweInv /\ View /\ View'
      BY <2>2, <3>1 DEF Inv
    <3> QED
      BY <2>2, <3>1, <3>2, FlowStep
  <2> QED
    BY <2>1, <2>2
<1> QED
  BY <1>1, <1>2, <1>3, Invariant, PTL DEF Spec, FlowSpec, Flow!Spec
-----------------------------------------------------------------------------
(***************************************************************************)
(* Who shares a buffer.                                                    *)
(***************************************************************************)

\* vvbuf_ready parts with the buffer it delivers, isp_buf_notify with the one
\* it pushes.
LEMMA RemoteStepFacts ==
    ASSUME TypeOK, RolesApart, ToVideo, spc # "return", [Next]_vars, NEW b \in Bufs,
           b \in remote', InIsp(b)'
    PROVE  b \in remote /\ ~NotifyPush(b)
<1> USE DEF dev, bufs, hw, irq, proc, stream
<1>1. ~NotifyPush(b)
  BY DEF NotifyPush
<1>2. CASE IsrDeliver
  BY <1>1, <1>2, DeliverKeeps DEF IsrDeliver
<1>3. CASE ~IsrDeliver
  <2>1. remote' \subseteq remote
    <3>1. CASE \E c \in Bufs : Notify(c) \/ NotifyPush(c)
      BY <3>1 DEF Notify, NotifyPush
    <3>2. CASE UpdatePath
      BY <3>2 DEF UpdatePath
    <3>3. CASE HwIsr \/ IsrLock \/ IsrTest \/ Tasklet \/ \E p \in Paths : FrameEnd(p)
      BY <3>3 DEF HwIsr, IsrLock, IsrTest, Tasklet, FrameEnd
    <3>4. CASE Ioctl
      BY <3>4 DEF Ioctl, MiStart, MiStop, Open, Close, SetBuffer
    <3>5. CASE IoctlStep
      BY <3>5 DEF IoctlStep, SetDriver, UpdateCall, CfgUpd, MiOff, ClearDriver, CleanVideo,
           CleanVideoRaced, CleanQueue, CleanDwe, Stopped, FreeIrq
    <3>6. CASE RemoteStep \/ \E next \in {"set", "clear"} : SetStream(next)
      BY <3>6 DEF RemoteStep, SetStream, StreamWrite, ReturnAll
    <3>7. CASE UNCHANGED vars
      BY <3>7 DEF vars
    <3> QED
      BY <1>3, <3>1, <3>2, <3>3, <3>4, <3>5, <3>6, <3>7 DEF Next, IsrStep
  <2> QED
    BY <1>1, <2>1
<1> QED
  BY <1>2, <1>3

\* Linked to the video device, only STREAMOFF makes user space and the driver
\* share a buffer.
LEMMA SharedStep ==
    ASSUME TypeOK, RolesApart, ToVideo, spc # "return", [Next]_vars
    PROVE  Shared' \subseteq Shared
<1>1. remote' \subseteq Bufs
  BY TypeStep DEF TypeOK
<1>2. ASSUME NEW b \in remote', InIsp(b)' PROVE b \in remote /\ InIsp(b)
  BY <1>1, <1>2, RemoteStepFacts, EntersStep
<1> QED
  BY <1>2 DEF Shared

\* Linked to the video device, the driver and user space come to share a
\* buffer only through stop_streaming (isp_buf_notify, vvbuf_ready and
\* clean_dma_buffer never leave one with both), if user space queues no
\* buffer early.
THEOREM SharedByStreamoff == Spec => SharedOnlyByStreamoff
<1>1. Inv /\ Inv' /\ [Next]_vars
        => [Shut({"early_requeue"}) /\ spc # "return" => Shared' \subseteq Shared]_vars
  <2> SUFFICES ASSUME Inv, Inv', [Next]_vars, "early_requeue" \in Closed,
                      spc # "return"
               PROVE  Shared' \subseteq Shared
    BY DEF Shut
  <2>1. CASE ToVideo
    BY <2>1, SharedStep DEF Inv
  <2>2. CASE ~ToVideo
    BY <2>2, EnvFixed DEF Inv, DweInv, OneOwner, Shared, TypeOK
  <2> QED
    BY <2>1, <2>2
<1> QED
  BY <1>1, Invariant, PTL DEF Spec, SharedOnlyByStreamoff
=============================================================================

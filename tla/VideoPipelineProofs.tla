------------------------ MODULE VideoPipelineProofs ------------------------
(***************************************************************************)
(* Proofs about VideoPipeline for any number of handles and formats.       *)
(***************************************************************************)
EXTENDS VideoPipeline, FiniteSetTheorems, TLAPS

Closing == {"close_stop", "close_look", "close_del", "close_end"}
Setting == {"fmt", "event", "new", "set", "claim", "alloc"}

(***************************************************************************)
(* The invariant.  Each part needs the parts before it, and the windows    *)
(* closed that Inv names.                                                  *)
(***************************************************************************)
Base ==
    /\ TypeOK
    /\ \A h \in Handles : /\ pc[h] \in Closing => ~reqd[h]
                          /\ pc[h] = "fmt" => want[h] \in Formats

\* One ioctl at a time.
Alone == \A g, h \in Handles : ~Idle(g) /\ ~Idle(h) => g = h

\* At most one handle requests buffers, only it has any, and who streams has.
Requests ==
    /\ \A g, h \in Handles : reqd[g] /\ reqd[h] => g = h
    /\ \A h \in Handles :
         /\ pc[h] = "claim" => \A g \in Others(h) : ~reqd[g]
         /\ pc[h] = "alloc" \/ (pc[h] \in {"event", "new", "set"} /\ op[h] = "reqbufs") => reqd[h]
         /\ bufs[h] # NONE => reqd[h] \/ pc[h] \in Closing
         /\ state[h] = 2 => bufs[h] # NONE

\* At most one handle streams, and pipeline_status tells whether one does.
Streams ==
    /\ \A g, h \in Handles : state[g] = 2 /\ state[h] = 2 => g = h
    /\ \A h \in Handles :
         /\ pc[h] \in Setting \cup {"stop", "close_del"} => \A g \in Handles : state[g] # 2
         /\ pc[h] \in {"start", "close_stop"} => state[h] = 2
         /\ pc[h] \in {"close_look", "close_end"} => state[h] # 2
         /\ state[h] = 2 => active
    /\ (\A h \in Handles : pc[h] # "start") =>
         (pipeline_status = "STREAMON" <=> \E h \in Handles : state[h] = 2)

\* If its posts are answered, the daemon's stream exists while some handle
\* has it, and runs for the handle that streams.
HasStream(h) == state[h] >= 1
Lifetime ==
    /\ \A h \in Handles :
         /\ state[h] = 2 /\ pc[h] # "start" => order = "START" /\ owner = h
         /\ pc[h] \in {"set", "alloc"} => pipeline_status # "INIT"
         /\ pc[h] = "new" => pipeline_status = "INIT"
         /\ pc[h] = "stop" => pipeline_status = "STREAMOFF"
         /\ pc[h] = "close_del" => \A g \in Others(h) : ~HasStream(g)
         /\ pc[h] = "close_end" /\ pipeline_status # "INIT" =>
              \E g \in Others(h) : HasStream(g)
    /\ pipeline_status # "INIT" => \E h \in Handles : HasStream(h)
    /\ pipeline_status = "INIT" /\ (\A h \in Handles : pc[h] # "start") =>
         order = "DEL" /\ ~active

\* Without guests, pipeline_status tells the last order.
LastOrder ==
    [INIT |-> "DEL", CREATED |-> "NEW", FMTSETTED |-> "SET_FMT", REQBUFED |-> "SET_FMT",
     STREAMON |-> "START", STREAMOFF |-> "STOP"]

OrderAtStep(h) ==
    /\ pc[h] \in {"fmt", "event"} => pipeline_status \notin {"REQBUFED", "STREAMON"}
    /\ pc[h] = "set" => pipeline_status \in {"CREATED", "FMTSETTED", "STREAMOFF"}
    /\ pc[h] = "alloc" => pipeline_status \in {"FMTSETTED", "REQBUFED"}
    /\ pc[h] = "start" => pipeline_status \in {"FMTSETTED", "REQBUFED", "STREAMOFF"}
    /\ pc[h] = "stop" => order = "START" /\ owner = h
    /\ pc[h] = "close_del" => pipeline_status # "INIT"

\* Buffers are requested by a handle that has the stream, or is about to.
NoGuest(h) ==
    /\ HasStream(h) /\ pc[h] # "close_end" => pipeline_status # "INIT"
    /\ bufs[h] # NONE => HasStream(h)
    /\ pc[h] = "claim" \/ (pc[h] \in {"event", "new"} /\ op[h] = "reqbufs") =>
         HasStream(h) \/ pipeline_status = "INIT"
    /\ (pc[h] = "set" /\ op[h] = "reqbufs") \/ pc[h] = "alloc" => HasStream(h)

OrdersFollow ==
    /\ \A h \in Handles : OrderAtStep(h) /\ NoGuest(h)
    /\ (\A h \in Handles : pc[h] # "stop") => order = LastOrder[pipeline_status]
    /\ pipeline_status = "CREATED" => \E h \in Handles : pc[h] = "set"

\* Buffers have the device's format, which the daemon was told.
SettingFmt(h) == pc[h] \in {"event", "new", "set"} /\ op[h] = "s_fmt"
Fits ==
    /\ \A h \in Handles :
         /\ bufs[h] # NONE /\ pc[h] # "close_end" => bufs[h] = told /\ told = fmt
         /\ pc[h] = "fmt" \/ SettingFmt(h) => \A g \in Handles : bufs[g] = NONE
         /\ pc[h] = "alloc" => told = fmt
    /\ pipeline_status \in {"FMTSETTED", "REQBUFED"} =>
         told = fmt \/ \E h \in Handles : SettingFmt(h)

\* A device that refuses formats has buffers, and whoever closes the handle
\* that has them is the last one with the stream.
Busy ==
    /\ \A h \in Handles :
         /\ pc[h] \in {"event", "new", "set", "claim", "alloc"} => fmt # NONE
         /\ pc[h] = "close_look" /\ pipeline_status = "REQBUFED" /\ bufs[h] # NONE =>
              \A g \in Others(h) : ~HasStream(g)
    /\ pipeline_status = "REQBUFED" =>
         \E h \in Handles : bufs[h] # NONE /\ pc[h] # "close_end"

Inv ==
    /\ Base
    /\ Shut({"overtaken"}) => Alone /\ Requests /\ Streams
    /\ Shut({"unanswered", "overtaken"}) => Lifetime
    /\ Shut({"unanswered", "overtaken", "guest"}) => OrdersFollow
    /\ Shut({"unanswered", "overtaken", "guest", "refit", "remode"}) => Fits
    /\ Shut({"unanswered", "overtaken", "freed", "alloc_fails"}) => Busy
-----------------------------------------------------------------------------
USE VideoPipelineAssumption
USE DEF Goto, Enter, Others, Idle, device, handle, orders, Post, Answered, Unanswered, Deliver,
        OwnerAfter

(***************************************************************************)
(* The steps.                                                              *)
(***************************************************************************)

\* Types, and what an ioctl knows of its own handle.
LEMMA BaseStep ==
    ASSUME Base, [Next]_vars
    PROVE  Base'
<1> USE DEF Statuses, Closing, Base, TypeOK
<1>1. CASE UNCHANGED vars
  BY <1>1 DEF vars
<1>2. ASSUME NEW f \in Formats, SetModeinfo(f), closed' = closed PROVE Base'
  BY <1>2 DEF SetModeinfo
<1>3. ASSUME NEW h \in Handles, Step(h), closed' = closed PROVE Base'
  <2>1. CASE Open(h)
    BY <1>3, <2>1 DEF Open
  <2>2. CASE \E f \in Formats : SFmt(h, f)
    BY <1>3, <2>2 DEF SFmt
  <2>3. CASE SetDeviceFmt(h)
    BY <1>3, <2>3 DEF SetDeviceFmt
  <2>4. CASE FmtEvent(h)
    BY <1>3, <2>4 DEF FmtEvent
  <2>5. CASE FmtNew(h)
    BY <1>3, <2>5 DEF FmtNew, AfterEvent
  <2>6. CASE FmtSet(h)
    BY <1>3, <2>6 DEF FmtSet, AfterEvent
  <2>7. CASE Reqbufs(h)
    BY <1>3, <2>7 DEF Reqbufs, MayRequest
  <2>8. CASE Claim(h)
    BY <1>3, <2>8 DEF Claim
  <2>9. CASE Alloc(h)
    BY <1>3, <2>9 DEF Alloc
  <2>10. CASE ReqbufsZero(h)
    BY <1>3, <2>10 DEF ReqbufsZero, MayRequest
  <2>11. CASE Streamon(h)
    BY <1>3, <2>11 DEF Streamon
  <2>12. CASE Start(h)
    BY <1>3, <2>12 DEF Start
  <2>13. CASE Streamoff(h)
    BY <1>3, <2>13 DEF Streamoff
  <2>14. CASE Stop(h)
    BY <1>3, <2>14 DEF Stop
  <2>15. CASE Close(h)
    BY <1>3, <2>15 DEF Close
  <2>16. CASE CloseStop(h)
    BY <1>3, <2>16 DEF CloseStop
  <2>17. CASE CloseLook(h)
    BY <1>3, <2>17 DEF CloseLook
  <2>18. CASE CloseDel(h)
    BY <1>3, <2>18 DEF CloseDel
  <2>19. CASE CloseEnd(h)
    BY <1>3, <2>19 DEF CloseEnd
  <2> QED
    BY <1>3, <2>1, <2>2, <2>3, <2>4, <2>5, <2>6, <2>7, <2>8, <2>9, <2>10, <2>11, <2>12,
       <2>13, <2>14, <2>15, <2>16, <2>17, <2>18, <2>19 DEF Step
<1> QED
  BY <1>1, <1>2, <1>3 DEF Next

\* With ioctls one at a time, whoever acts finds the other handles idle.
LEMMA OthersIdle ==
    ASSUME Alone, Shut({"overtaken"}), NEW h \in Handles, Step(h), ~Open(h)
    PROVE  \A g \in Others(h) : Idle(g)
BY DEF Alone, Shut, Step, SFmt, SetDeviceFmt, FmtEvent, FmtNew, FmtSet, Reqbufs, Claim,
   Alloc,
       ReqbufsZero, Streamon, Start, Streamoff, Stop, Close, CloseStop, CloseLook, CloseDel, CloseEnd

\* One ioctl at a time.
LEMMA AloneStep ==
    ASSUME Base, Alone, Shut({"overtaken"}), [Next]_vars, Base'
    PROVE  Alone'
<1> USE DEF Alone
<1>0. DOMAIN pc = Handles
  BY DEF Base, TypeOK
<1>1. CASE UNCHANGED vars
  BY <1>1 DEF vars
<1>2. ASSUME NEW f \in Formats, SetModeinfo(f), closed' = closed PROVE Alone'
  BY <1>2 DEF SetModeinfo
<1>3. ASSUME NEW h \in Handles, Step(h), closed' = closed PROVE Alone'
  <2>0. ~Open(h) => \A g \in Others(h) : Idle(g)
    BY <1>3, OthersIdle
  <2>1. CASE Open(h)
    BY <1>3, <2>1, <1>0 DEF Open
  <2>2. CASE \E f \in Formats : SFmt(h, f)
    BY <1>3, <2>2, <2>0, <1>0 DEF SFmt, Open
  <2>3. CASE SetDeviceFmt(h)
    BY <1>3, <2>3, <2>0, <1>0 DEF SetDeviceFmt
  <2>4. CASE FmtEvent(h)
    BY <1>3, <2>4, <2>0, <1>0 DEF FmtEvent
  <2>5. CASE FmtNew(h)
    BY <1>3, <2>5, <2>0, <1>0 DEF FmtNew, AfterEvent
  <2>6. CASE FmtSet(h)
    BY <1>3, <2>6, <2>0, <1>0 DEF FmtSet, AfterEvent
  <2>7. CASE Reqbufs(h)
    BY <1>3, <2>7, <2>0, <1>0 DEF Reqbufs, MayRequest, Open
  <2>8. CASE Claim(h)
    BY <1>3, <2>8, <2>0, <1>0 DEF Claim
  <2>9. CASE Alloc(h)
    BY <1>3, <2>9, <2>0, <1>0 DEF Alloc
  <2>10. CASE ReqbufsZero(h)
    BY <1>3, <2>10, <2>0, <1>0 DEF ReqbufsZero, MayRequest, Open
  <2>11. CASE Streamon(h)
    BY <1>3, <2>11, <2>0, <1>0 DEF Streamon, Open
  <2>12. CASE Start(h)
    BY <1>3, <2>12, <2>0, <1>0 DEF Start
  <2>13. CASE Streamoff(h)
    BY <1>3, <2>13, <2>0, <1>0 DEF Streamoff, Open
  <2>14. CASE Stop(h)
    BY <1>3, <2>14, <2>0, <1>0 DEF Stop
  <2>15. CASE Close(h)
    BY <1>3, <2>15, <2>0, <1>0 DEF Close, Open
  <2>16. CASE CloseStop(h)
    BY <1>3, <2>16, <2>0, <1>0 DEF CloseStop
  <2>17. CASE CloseLook(h)
    BY <1>3, <2>17, <2>0, <1>0 DEF CloseLook
  <2>18. CASE CloseDel(h)
    BY <1>3, <2>18, <2>0, <1>0 DEF CloseDel
  <2>19. CASE CloseEnd(h)
    BY <1>3, <2>19, <2>0, <1>0 DEF CloseEnd
  <2> QED
    BY <1>3, <2>1, <2>2, <2>3, <2>4, <2>5, <2>6, <2>7, <2>8, <2>9, <2>10, <2>11, <2>12,
       <2>13, <2>14, <2>15, <2>16, <2>17, <2>18, <2>19 DEF Step
<1> QED
  BY <1>1, <1>2, <1>3 DEF Next

\* Who requests buffers, and has them.
LEMMA RequestsStep ==
    ASSUME Base, Alone, Shut({"overtaken"}), Requests, Streams, [Next]_vars, Base'
    PROVE  Requests'
<1> USE DEF Requests, Closing, Base, TypeOK, Streams, Setting
<1>1. CASE UNCHANGED vars
  BY <1>1 DEF vars
<1>2. ASSUME NEW f \in Formats, SetModeinfo(f), closed' = closed PROVE Requests'
  BY <1>2 DEF SetModeinfo
<1>3. ASSUME NEW h \in Handles, Step(h), closed' = closed PROVE Requests'
  <2>0. ~Open(h) => \A g \in Others(h) : Idle(g)
    BY <1>3, OthersIdle
  <2>1. CASE Open(h)
    BY <1>3, <2>1 DEF Open
  <2>2. CASE \E f \in Formats : SFmt(h, f)
    BY <1>3, <2>2, <2>0 DEF SFmt, Open
  <2>3. CASE SetDeviceFmt(h)
    BY <1>3, <2>3, <2>0 DEF SetDeviceFmt
  <2>4. CASE FmtEvent(h)
    BY <1>3, <2>4, <2>0 DEF FmtEvent
  <2>5. CASE FmtNew(h)
    BY <1>3, <2>5, <2>0 DEF FmtNew, AfterEvent
  <2>6. CASE FmtSet(h)
    BY <1>3, <2>6, <2>0 DEF FmtSet, AfterEvent
  <2>7. CASE Reqbufs(h)
    BY <1>3, <2>7, <2>0 DEF Reqbufs, MayRequest, Open
  <2>8. CASE Claim(h)
    <3>1. \A g \in Others(h) : ~reqd[g] /\ Idle(g)
      BY <2>0, <2>8 DEF Claim, Open
    <3>2. \A g \in Handles : reqd'[g] <=> g = h
      BY <3>1, <2>8 DEF Claim
    <3>3. UNCHANGED <<bufs, state>>
      BY <2>8 DEF Claim
    <3>4. pc'[h] \in {"event", "alloc"} /\ \A g \in Others(h) : pc'[g] = "idle"
      BY <3>1, <2>8 DEF Claim
    <3> QED
      BY <3>1, <3>2, <3>3, <3>4
  <2>9. CASE Alloc(h)
    BY <1>3, <2>9, <2>0 DEF Alloc
  <2>10. CASE ReqbufsZero(h)
    BY <1>3, <2>10, <2>0 DEF ReqbufsZero, MayRequest, Open
  <2>11. CASE Streamon(h)
    BY <1>3, <2>11, <2>0 DEF Streamon, Open
  <2>12. CASE Start(h)
    BY <1>3, <2>12, <2>0 DEF Start
  <2>13. CASE Streamoff(h)
    BY <1>3, <2>13, <2>0 DEF Streamoff, Open
  <2>14. CASE Stop(h)
    BY <1>3, <2>14, <2>0 DEF Stop
  <2>15. CASE Close(h)
    BY <1>3, <2>15, <2>0 DEF Close, Open
  <2>16. CASE CloseStop(h)
    BY <1>3, <2>16, <2>0 DEF CloseStop
  <2>17. CASE CloseLook(h)
    BY <1>3, <2>17, <2>0 DEF CloseLook
  <2>18. CASE CloseDel(h)
    BY <1>3, <2>18, <2>0 DEF CloseDel
  <2>19. CASE CloseEnd(h)
    BY <1>3, <2>19, <2>0 DEF CloseEnd
  <2> QED
    BY <1>3, <2>1, <2>2, <2>3, <2>4, <2>5, <2>6, <2>7, <2>8, <2>9, <2>10, <2>11, <2>12,
       <2>13, <2>14, <2>15, <2>16, <2>17, <2>18, <2>19 DEF Step
<1> QED
  BY <1>1, <1>2, <1>3 DEF Next

\* Who streams.
LEMMA StreamsStep ==
    ASSUME Base, Alone, Shut({"overtaken"}), Requests, Streams, [Next]_vars, Base'
    PROVE  Streams'
<1> USE DEF Streams, Setting, Base, TypeOK, Requests, Closing
<1>1. CASE UNCHANGED vars
  BY <1>1 DEF vars
<1>2. ASSUME NEW f \in Formats, SetModeinfo(f), closed' = closed PROVE Streams'
  BY <1>2 DEF SetModeinfo
<1>3. ASSUME NEW h \in Handles, Step(h), closed' = closed PROVE Streams'
  <2>0. ~Open(h) => \A g \in Others(h) : Idle(g)
    BY <1>3, OthersIdle
  <2>1. CASE Open(h)
    BY <1>3, <2>1 DEF Open
  <2>2. CASE \E f \in Formats : SFmt(h, f)
    BY <1>3, <2>2, <2>0 DEF SFmt, Open
  <2>3. CASE SetDeviceFmt(h)
    BY <1>3, <2>3, <2>0 DEF SetDeviceFmt
  <2>4. CASE FmtEvent(h)
    BY <1>3, <2>4, <2>0 DEF FmtEvent
  <2>5. CASE FmtNew(h)
    BY <1>3, <2>5, <2>0 DEF FmtNew, AfterEvent
  <2>6. CASE FmtSet(h)
    BY <1>3, <2>6, <2>0 DEF FmtSet, AfterEvent
  <2>7. CASE Reqbufs(h)
    BY <1>3, <2>7, <2>0 DEF Reqbufs, MayRequest, Open
  <2>8. CASE Claim(h)
    BY <1>3, <2>8, <2>0 DEF Claim
  <2>9. CASE Alloc(h)
    BY <1>3, <2>9, <2>0 DEF Alloc
  <2>10. CASE ReqbufsZero(h)
    BY <1>3, <2>10, <2>0 DEF ReqbufsZero, MayRequest, Open
  <2>11. CASE Streamon(h)
    BY <1>3, <2>11, <2>0 DEF Streamon, Open
  <2>12. CASE Start(h)
    BY <1>3, <2>12, <2>0 DEF Start
  <2>13. CASE Streamoff(h)
    BY <1>3, <2>13, <2>0 DEF Streamoff, Open
  <2>14. CASE Stop(h)
    BY <1>3, <2>14, <2>0 DEF Stop
  <2>15. CASE Close(h)
    BY <1>3, <2>15, <2>0 DEF Close, Open
  <2>16. CASE CloseStop(h)
    BY <1>3, <2>16, <2>0 DEF CloseStop
  <2>17. CASE CloseLook(h)
    BY <1>3, <2>17, <2>0 DEF CloseLook
  <2>18. CASE CloseDel(h)
    BY <1>3, <2>18, <2>0 DEF CloseDel
  <2>19. CASE CloseEnd(h)
    BY <1>3, <2>19, <2>0 DEF CloseEnd
  <2> QED
    BY <1>3, <2>1, <2>2, <2>3, <2>4, <2>5, <2>6, <2>7, <2>8, <2>9, <2>10, <2>11, <2>12,
       <2>13, <2>14, <2>15, <2>16, <2>17, <2>18, <2>19 DEF Step
<1> QED
  BY <1>1, <1>2, <1>3 DEF Next

\* The life of the daemon's stream.
LEMMA LifetimeStep ==
    ASSUME Base, Alone, Shut({"unanswered", "overtaken"}), Requests, Streams, Lifetime, [Next]_vars, Base'
    PROVE  Lifetime'
<1> USE DEF Lifetime, HasStream, Base, TypeOK, Streams, Setting, Shut
<1>1. CASE UNCHANGED vars
  BY <1>1 DEF vars
<1>2. ASSUME NEW f \in Formats, SetModeinfo(f), closed' = closed PROVE Lifetime'
  BY <1>2 DEF SetModeinfo
<1>3. ASSUME NEW h \in Handles, Step(h), closed' = closed PROVE Lifetime'
  <2>0. ~Open(h) => \A g \in Others(h) : Idle(g)
    BY <1>3, OthersIdle
  <2>1. CASE Open(h)
    BY <1>3, <2>1 DEF Open
  <2>2. CASE \E f \in Formats : SFmt(h, f)
    BY <1>3, <2>2, <2>0 DEF SFmt, Open
  <2>3. CASE SetDeviceFmt(h)
    BY <1>3, <2>3, <2>0 DEF SetDeviceFmt
  <2>4. CASE FmtEvent(h)
    BY <1>3, <2>4, <2>0 DEF FmtEvent
  <2>5. CASE FmtNew(h)
    <3>1. \A g \in Handles : state[g] # 2
      BY <2>5 DEF FmtNew
    <3>2. /\ pipeline_status' = "CREATED" /\ state' = [state EXCEPT ![h] = 1]
          /\ pc' = [pc EXCEPT ![h] = "set"]
      BY <2>5 DEF FmtNew
    <3> QED
      BY <2>0, <2>5, <3>1, <3>2 DEF FmtNew, Open
  <2>6. CASE FmtSet(h)
    <3>1. \A g \in Handles : state[g] # 2
      BY <2>6 DEF FmtSet
    <3>2. /\ pipeline_status' = "FMTSETTED" /\ pipeline_status # "INIT" /\ state' = state
          /\ pc' = [pc EXCEPT ![h] = AfterEvent(h)]
      BY <2>6 DEF FmtSet
    <3>3. pc'[h] \in {"idle", "alloc"} /\ \A g \in Others(h) : pc'[g] = "idle"
      BY <2>0, <2>6, <3>2 DEF FmtSet, AfterEvent, Open
    <3> QED
      BY <3>1, <3>2, <3>3
  <2>7. CASE Reqbufs(h)
    BY <1>3, <2>7, <2>0 DEF Reqbufs, MayRequest, Open
  <2>8. CASE Claim(h)
    BY <1>3, <2>8, <2>0 DEF Claim
  <2>9. CASE Alloc(h)
    <3>1. \A g \in Handles : state[g] # 2
      BY <2>9 DEF Alloc
    <3>2. /\ pipeline_status' = "REQBUFED" /\ pipeline_status # "INIT" /\ state' = state
      BY <2>9 DEF Alloc
    <3>3. \A g \in Handles : pc'[g] = "idle"
      BY <2>0, <2>9 DEF Alloc, Open
    <3> QED
      BY <3>1, <3>2, <3>3
  <2>10. CASE ReqbufsZero(h)
    BY <1>3, <2>10, <2>0 DEF ReqbufsZero, MayRequest, Open
  <2>11. CASE Streamon(h)
    BY <1>3, <2>11, <2>0 DEF Streamon, Open
  <2>12. CASE Start(h)
    BY <1>3, <2>12, <2>0 DEF Start
  <2>13. CASE Streamoff(h)
    BY <1>3, <2>13, <2>0 DEF Streamoff, Open
  <2>14. CASE Stop(h)
    BY <1>3, <2>14, <2>0 DEF Stop
  <2>15. CASE Close(h)
    BY <1>3, <2>15, <2>0 DEF Close, Open
  <2>16. CASE CloseStop(h)
    BY <1>3, <2>16, <2>0 DEF CloseStop
  <2>17. CASE CloseLook(h)
    BY <1>3, <2>17, <2>0 DEF CloseLook
  <2>18. CASE CloseDel(h)
    <3>1. \A g \in Handles : state[g] # 2
      BY <2>18 DEF CloseDel
    <3>2. /\ pipeline_status' = "INIT" /\ order' = "DEL" /\ ~active' /\ state' = state
      BY <2>18 DEF CloseDel
    <3>3. pc'[h] = "close_end" /\ \A g \in Others(h) : pc'[g] = "idle"
      BY <2>0, <2>18 DEF CloseDel, Open
    <3> QED
      BY <3>1, <3>2, <3>3
  <2>19. CASE CloseEnd(h)
    <3>1. UNCHANGED <<pipeline_status, order, owner, active>>
      BY <2>19 DEF CloseEnd
    <3>2. \A g \in Handles : pc'[g] = "idle" /\ (g # h => pc[g] = "idle")
      BY <2>0, <2>19 DEF CloseEnd, Open
    <3>3. state'[h] = -1 /\ \A g \in Others(h) : state'[g] = state[g]
      BY <2>19 DEF CloseEnd
    <3>4. pipeline_status # "INIT" => \E g \in Others(h) : HasStream(g)
      BY <2>19 DEF CloseEnd
    <3> QED
      BY <2>19, <3>1, <3>2, <3>3, <3>4 DEF CloseEnd
  <2> QED
    BY <1>3, <2>1, <2>2, <2>3, <2>4, <2>5, <2>6, <2>7, <2>8, <2>9, <2>10, <2>11, <2>12,
       <2>13, <2>14, <2>15, <2>16, <2>17, <2>18, <2>19 DEF Step
<1> QED
  BY <1>1, <1>2, <1>3 DEF Next

\* pipeline_status tells the last order.
LEMMA OrdersStep ==
    ASSUME Base, Alone, Shut({"unanswered", "overtaken", "guest"}), Requests, Streams, Lifetime,
           OrdersFollow, [Next]_vars, Base'
    PROVE  OrdersFollow'
<1> USE DEF OrdersFollow, OrderAtStep, NoGuest, HasStream, LastOrder, Base, TypeOK,
        Statuses, Requests, Streams, Setting, Closing, Lifetime, Shut
<1>1. CASE UNCHANGED vars
  BY <1>1 DEF vars
<1>2. ASSUME NEW f \in Formats, SetModeinfo(f), closed' = closed PROVE OrdersFollow'
  BY <1>2 DEF SetModeinfo
<1>3. ASSUME NEW h \in Handles, Step(h), closed' = closed PROVE OrdersFollow'
  <2>0. ~Open(h) => \A g \in Others(h) : Idle(g)
    BY <1>3, OthersIdle
  <2>1. CASE Open(h)
    BY <1>3, <2>1 DEF Open
  <2>2. CASE \E f \in Formats : SFmt(h, f)
    BY <1>3, <2>2, <2>0 DEF SFmt, Open
  <2>3. CASE SetDeviceFmt(h)
    BY <1>3, <2>3, <2>0 DEF SetDeviceFmt
  <2>4. CASE FmtEvent(h)
    BY <1>3, <2>4, <2>0 DEF FmtEvent
  <2>5. CASE FmtNew(h)
    <3>1. /\ pipeline_status' = "CREATED" /\ order' = "NEW" /\ state' = [state EXCEPT ![h] = 1]
          /\ UNCHANGED <<bufs, op>> /\ pc' = [pc EXCEPT ![h] = "set"]
      BY <2>5 DEF FmtNew
    <3>2. pc'[h] = "set" /\ \A g \in Others(h) : pc[g] = "idle" /\ pc'[g] = "idle"
      BY <2>0, <3>1, <2>5 DEF FmtNew, Open
    <3>3. \A g \in Others(h) : bufs[g] # NONE => state[g] >= 1
      OBVIOUS
    <3>4. bufs[h] = NONE \/ state'[h] >= 1
      BY <3>1
    <3> QED
      BY <3>1, <3>2, <3>3, <3>4
  <2>6. CASE FmtSet(h)
    <3>1. /\ pipeline_status' = "FMTSETTED" /\ order' = "SET_FMT"
          /\ UNCHANGED <<bufs, op, state, owner>> /\ pc' = [pc EXCEPT ![h] = AfterEvent(h)]
      BY <2>6 DEF FmtSet
    <3>2. (pc'[h] = "idle" \/ (pc'[h] = "alloc" /\ op[h] = "reqbufs"))
          /\ pc[h] = "set" /\ \A g \in Others(h) : pc[g] = "idle" /\ pc'[g] = "idle"
      BY <2>0, <3>1, <2>6 DEF FmtSet, AfterEvent, Open
    <3> QED
      BY <3>1, <3>2
  <2>7. CASE Reqbufs(h)
    BY <1>3, <2>7, <2>0 DEF Reqbufs, MayRequest, Open
  <2>8. CASE Claim(h)
    BY <1>3, <2>8, <2>0 DEF Claim
  <2>9. CASE Alloc(h)
    <3>1. /\ pipeline_status' = "REQBUFED" /\ UNCHANGED <<state, order, owner, op>>
          /\ pc[h] = "alloc" /\ \A g \in Others(h) : bufs'[g] = bufs[g]
      BY <2>9 DEF Alloc
    <3>2. pc'[h] = "idle" /\ \A g \in Others(h) : pc[g] = "idle" /\ pc'[g] = "idle"
      BY <2>0, <2>9 DEF Alloc, Open
    <3>3. order = "SET_FMT" /\ HasStream(h)
      BY <3>1, <3>2
    <3> QED
      BY <3>1, <3>2, <3>3
  <2>10. CASE ReqbufsZero(h)
    BY <1>3, <2>10, <2>0 DEF ReqbufsZero, MayRequest, Open
  <2>11. CASE Streamon(h)
    BY <1>3, <2>11, <2>0 DEF Streamon, Open
  <2>12. CASE Start(h)
    BY <1>3, <2>12, <2>0 DEF Start
  <2>13. CASE Streamoff(h)
    BY <1>3, <2>13, <2>0 DEF Streamoff, Open
  <2>14. CASE Stop(h)
    BY <1>3, <2>14, <2>0 DEF Stop
  <2>15. CASE Close(h)
    BY <1>3, <2>15, <2>0 DEF Close, Open
  <2>16. CASE CloseStop(h)
    BY <1>3, <2>16, <2>0 DEF CloseStop
  <2>17. CASE CloseLook(h)
    BY <1>3, <2>17, <2>0 DEF CloseLook
  <2>18. CASE CloseDel(h)
    <3>1. /\ pipeline_status' = "INIT" /\ order' = "DEL" /\ UNCHANGED <<state, op, bufs>>
          /\ \A g \in Others(h) : ~HasStream(g)
      BY <2>18 DEF CloseDel
    <3>2. pc'[h] = "close_end" /\ pc[h] = "close_del" /\ \A g \in Others(h) : pc[g] = "idle" /\ pc'[g] = "idle"
      BY <2>0, <2>18 DEF CloseDel, Open
    <3> QED
      BY <3>1, <3>2
  <2>19. CASE CloseEnd(h)
    BY <1>3, <2>19, <2>0 DEF CloseEnd
  <2> QED
    BY <1>3, <2>1, <2>2, <2>3, <2>4, <2>5, <2>6, <2>7, <2>8, <2>9, <2>10, <2>11, <2>12,
       <2>13, <2>14, <2>15, <2>16, <2>17, <2>18, <2>19 DEF Step
<1> QED
  BY <1>1, <1>2, <1>3 DEF Next

\* Buffers have the format the daemon was told.
LEMMA FitsStep ==
    ASSUME Base, Alone, Shut({"unanswered", "overtaken", "guest", "refit", "remode"}), Requests,
           Streams, Lifetime, OrdersFollow, Fits, [Next]_vars, Base'
    PROVE  Fits'
<1> USE DEF Fits, SettingFmt, Base, TypeOK, Streams, Setting, Closing, Shut
<1>1. CASE UNCHANGED vars
  BY <1>1 DEF vars
<1>2. ASSUME NEW f \in Formats, SetModeinfo(f), closed' = closed PROVE Fits'
  BY <1>2 DEF SetModeinfo
<1>3. ASSUME NEW h \in Handles, Step(h), closed' = closed PROVE Fits'
  <2>0. ~Open(h) => \A g \in Others(h) : Idle(g)
    BY <1>3, OthersIdle
  <2>1. CASE Open(h)
    BY <1>3, <2>1 DEF Open
  <2>2. CASE \E f \in Formats : SFmt(h, f)
    BY <1>3, <2>2, <2>0 DEF SFmt, Open
  <2>3. CASE SetDeviceFmt(h)
    <3>1. /\ UNCHANGED <<pipeline_status, bufs, told>> /\ op'[h] = "s_fmt"
          /\ \A g \in Handles : bufs[g] = NONE
      BY <2>3 DEF SetDeviceFmt
    <3>2. pc'[h] = "event" /\ \A g \in Others(h) : pc[g] = "idle" /\ pc'[g] = "idle"
      BY <2>0, <2>3 DEF SetDeviceFmt, Open
    <3> QED
      BY <3>1, <3>2
  <2>4. CASE FmtEvent(h)
    BY <1>3, <2>4, <2>0 DEF FmtEvent
  <2>5. CASE FmtNew(h)
    BY <1>3, <2>5, <2>0 DEF FmtNew, AfterEvent
  <2>6. CASE FmtSet(h)
    BY <1>3, <2>6, <2>0 DEF FmtSet, AfterEvent
  <2>7. CASE Reqbufs(h)
    BY <1>3, <2>7, <2>0 DEF Reqbufs, MayRequest, Open
  <2>8. CASE Claim(h)
    <3>1. UNCHANGED <<pipeline_status, bufs, told, fmt>> /\ op'[h] = "reqbufs"
      BY <2>8 DEF Claim
    <3>2. pc[h] = "claim" /\ \A g \in Others(h) : pc[g] = "idle" /\ pc'[g] = "idle"
      BY <2>0, <2>8 DEF Claim, Open
    <3>3. pc'[h] = "event" \/ (pc'[h] = "alloc" /\ pipeline_status \in {"FMTSETTED", "REQBUFED"})
      BY <2>8, <3>2, <2>0 DEF Claim, Streams, Setting, Statuses, Open
    <3>4. \A g \in Handles : ~SettingFmt(g)
      BY <3>2
    <3> QED
      BY <3>1, <3>2, <3>3, <3>4
  <2>9. CASE Alloc(h)
    <3>1. /\ pipeline_status' = "REQBUFED" /\ UNCHANGED <<told, fmt>> /\ told = fmt
          /\ bufs'[h] \in {fmt, NONE, bufs[h]}
          /\ \A g \in Others(h) : bufs'[g] = bufs[g]
      BY <2>9 DEF Alloc
    <3>2. pc'[h] = "idle" /\ pc[h] = "alloc" /\ \A g \in Others(h) : pc[g] = "idle" /\ pc'[g] = "idle"
      BY <2>0, <2>9 DEF Alloc, Open
    <3> QED
      BY <3>1, <3>2
  <2>10. CASE ReqbufsZero(h)
    BY <1>3, <2>10, <2>0 DEF ReqbufsZero, MayRequest, Open
  <2>11. CASE Streamon(h)
    BY <1>3, <2>11, <2>0 DEF Streamon, Open
  <2>12. CASE Start(h)
    BY <1>3, <2>12, <2>0 DEF Start
  <2>13. CASE Streamoff(h)
    BY <1>3, <2>13, <2>0 DEF Streamoff, Open
  <2>14. CASE Stop(h)
    BY <1>3, <2>14, <2>0 DEF Stop
  <2>15. CASE Close(h)
    BY <1>3, <2>15, <2>0 DEF Close, Open
  <2>16. CASE CloseStop(h)
    BY <1>3, <2>16, <2>0 DEF CloseStop
  <2>17. CASE CloseLook(h)
    BY <1>3, <2>17, <2>0 DEF CloseLook
  <2>18. CASE CloseDel(h)
    <3>1. /\ pipeline_status' = "INIT" /\ UNCHANGED bufs
          /\ \A g \in Others(h) : bufs[g] = NONE
      BY <2>18 DEF CloseDel, Lifetime, OrdersFollow, NoGuest
    <3>2. pc'[h] = "close_end" /\ \A g \in Others(h) : pc[g] = "idle" /\ pc'[g] = "idle"
      BY <2>0, <2>18 DEF CloseDel, Open
    <3> QED
      BY <3>1, <3>2
  <2>19. CASE CloseEnd(h)
    BY <1>3, <2>19, <2>0 DEF CloseEnd
  <2> QED
    BY <1>3, <2>1, <2>2, <2>3, <2>4, <2>5, <2>6, <2>7, <2>8, <2>9, <2>10, <2>11, <2>12,
       <2>13, <2>14, <2>15, <2>16, <2>17, <2>18, <2>19 DEF Step
<1> QED
  BY <1>1, <1>2, <1>3 DEF Next

\* A device that refuses formats has buffers.
LEMMA BusyStep ==
    ASSUME Base, Alone, Shut({"unanswered", "overtaken", "freed", "alloc_fails"}), Requests,
           Streams, Lifetime, Busy, [Next]_vars, Base'
    PROVE  Busy'
<1> USE DEF Busy, HasStream, Base, TypeOK, Streams, Setting, Requests, Closing, Lifetime,
        Shut
<1>1. CASE UNCHANGED vars
  BY <1>1 DEF vars
<1>2. ASSUME NEW f \in Formats, SetModeinfo(f), closed' = closed PROVE Busy'
  BY <1>2 DEF SetModeinfo
<1>3. ASSUME NEW h \in Handles, Step(h), closed' = closed PROVE Busy'
  <2>0. ~Open(h) => \A g \in Others(h) : Idle(g)
    BY <1>3, OthersIdle
  <2>1. CASE Open(h)
    BY <1>3, <2>1 DEF Open
  <2>2. CASE \E f \in Formats : SFmt(h, f)
    BY <1>3, <2>2, <2>0 DEF SFmt, Open
  <2>3. CASE SetDeviceFmt(h)
    BY <1>3, <2>3, <2>0 DEF SetDeviceFmt
  <2>4. CASE FmtEvent(h)
    BY <1>3, <2>4, <2>0 DEF FmtEvent
  <2>5. CASE FmtNew(h)
    BY <1>3, <2>5, <2>0 DEF FmtNew, AfterEvent
  <2>6. CASE FmtSet(h)
    BY <1>3, <2>6, <2>0 DEF FmtSet, AfterEvent
  <2>7. CASE Reqbufs(h)
    BY <1>3, <2>7, <2>0 DEF Reqbufs, MayRequest, Open
  <2>8. CASE Claim(h)
    BY <1>3, <2>8, <2>0 DEF Claim
  <2>9. CASE Alloc(h)
    <3>1. /\ pipeline_status' = "REQBUFED" /\ UNCHANGED <<state, fmt>> /\ fmt # NONE /\ state[h] # 2
      BY <2>9 DEF Alloc
    <3>2. bufs' = [bufs EXCEPT ![h] = fmt]
      BY <3>1, <2>9 DEF Alloc
    <3>3. bufs'[h] # NONE /\ \A g \in Handles : pc'[g] = "idle"
      BY <2>0, <2>9, <3>1, <3>2 DEF Alloc, Open
    <3> QED
      BY <3>1, <3>3
  <2>10. CASE ReqbufsZero(h)
    BY <1>3, <2>10, <2>0 DEF ReqbufsZero, MayRequest, Open
  <2>11. CASE Streamon(h)
    BY <1>3, <2>11, <2>0 DEF Streamon, Open
  <2>12. CASE Start(h)
    BY <1>3, <2>12, <2>0 DEF Start
  <2>13. CASE Streamoff(h)
    BY <1>3, <2>13, <2>0 DEF Streamoff, Open
  <2>14. CASE Stop(h)
    BY <1>3, <2>14, <2>0 DEF Stop
  <2>15. CASE Close(h)
    BY <1>3, <2>15, <2>0 DEF Close, Open
  <2>16. CASE CloseStop(h)
    BY <1>3, <2>16, <2>0 DEF CloseStop
  <2>17. CASE CloseLook(h)
    BY <1>3, <2>17, <2>0 DEF CloseLook
  <2>18. CASE CloseDel(h)
    BY <1>3, <2>18, <2>0 DEF CloseDel
  <2>19. CASE CloseEnd(h)
    BY <1>3, <2>19, <2>0 DEF CloseEnd
  <2> QED
    BY <1>3, <2>1, <2>2, <2>3, <2>4, <2>5, <2>6, <2>7, <2>8, <2>9, <2>10, <2>11, <2>12,
       <2>13, <2>14, <2>15, <2>16, <2>17, <2>18, <2>19 DEF Step
<1> QED
  BY <1>1, <1>2, <1>3 DEF Next

LEMMA InitInv == Init => Inv
<1> SUFFICES ASSUME Init PROVE Inv
  OBVIOUS
<1> USE DEF Init
<1>1. Base
  <2>1. state \in [Handles -> -1 .. 2] /\ \A h \in Handles : Idle(h) /\ ~reqd[h] /\ bufs[h] = NONE
    OBVIOUS
  <2> QED
    BY <2>1 DEF Base, TypeOK, Statuses, Closing
<1>2. Alone /\ Requests /\ Streams
  BY DEF Alone, Requests, Streams, Setting
<1>3. Lifetime
  BY DEF Lifetime, HasStream
<1>4. OrdersFollow
  BY DEF OrdersFollow, OrderAtStep, NoGuest, HasStream, LastOrder
<1>5. Fits
  BY DEF Fits, SettingFmt
<1>6. Busy
  BY DEF Busy
<1> QED
  BY <1>1, <1>2, <1>3, <1>4, <1>5, <1>6 DEF Inv

LEMMA StepInv == Inv /\ [Next]_vars => Inv'
<1> SUFFICES ASSUME Inv, [Next]_vars PROVE Inv'
  OBVIOUS
<1>1. closed' = closed
  BY DEF Next, vars
<1>2. Base'
  BY BaseStep DEF Inv
<1>3. Shut({"overtaken"}) => Alone' /\ Requests' /\ Streams'
  BY <1>2, AloneStep, RequestsStep, StreamsStep DEF Inv
<1>4. Shut({"unanswered", "overtaken"}) => Lifetime'
  BY <1>2, LifetimeStep DEF Inv, Shut
<1>5. Shut({"unanswered", "overtaken", "guest"}) => OrdersFollow'
  BY <1>2, OrdersStep DEF Inv, Shut
<1>6. Shut({"unanswered", "overtaken", "guest", "refit", "remode"}) => Fits'
  BY <1>2, FitsStep DEF Inv, Shut
<1>7. Shut({"unanswered", "overtaken", "freed", "alloc_fails"}) => Busy'
  BY <1>2, BusyStep DEF Inv, Shut
<1> QED
  BY <1>1, <1>2, <1>3, <1>4, <1>5, <1>6, <1>7 DEF Inv, Shut
-----------------------------------------------------------------------------
(***************************************************************************)
(* The theorems.                                                           *)
(***************************************************************************)
LEMMA Invariance == Spec => []Inv
BY InitInv, StepInv, PTL DEF Spec

\* Handle, device and daemon keep their types; a closed handle keeps neither
\* a request nor buffers.
THEOREM TypeCorrect == Spec => []TypeOK
<1>1. Inv => TypeOK
  BY DEF Inv, Base
<1> QED
  BY <1>1, Invariance, PTL

\* With ioctls one at a time, pipeline_status and active agree with the
\* handles on who streams, of which there is at most one.
THEOREM StatusAgrees == Spec => []StreamingAgrees
<1>1. ASSUME Inv, Shut({"overtaken"}), Settled
      PROVE  Cardinality(Streaming) <= 1
  <2>1. \A g, h \in Streaming : g = h
    BY <1>1 DEF Inv, Streams, Streaming
  <2>2. CASE Streaming = {}
    BY <2>2, FS_EmptySet
  <2>3. ASSUME NEW h \in Streaming PROVE Cardinality(Streaming) <= 1
    <3>1. Streaming = {h}
      BY <2>1
    <3> QED
      BY <3>1, FS_Singleton
  <2> QED
    BY <2>2, <2>3
<1>2. ASSUME Inv, Shut({"overtaken"}), Settled
      PROVE  /\ pipeline_status = "STREAMON" <=> Streaming # {}
             /\ \A h \in Streaming :
                  active /\ (Shut({"unanswered"}) => order = "START" /\ owner = h)
  BY <1>2 DEF Inv, Streams, Lifetime, Settled, Streaming, Shut
<1>3. Inv => StreamingAgrees
  BY <1>1, <1>2 DEF StreamingAgrees
<1> QED
  BY <1>3, Invariance, PTL

\* With its posts answered, the last close of a handle leaves the daemon
\* without a stream and the device as after probe.
THEOREM LastCloseLeavesNothing == Spec => []LastCloseDeletes
<1>1. ASSUME Inv, Shut({"unanswered", "overtaken"}), \A h \in Handles : state[h] = -1
      PROVE  order = "DEL" /\ pipeline_status = "INIT" /\ ~active
  <2>1. Lifetime /\ \A h \in Handles : pc[h] = "idle" /\ ~HasStream(h)
    BY <1>1 DEF Inv, Base, TypeOK, HasStream
  <2> QED
    BY <2>1 DEF Lifetime
<1>2. Inv => LastCloseDeletes
  BY <1>1 DEF LastCloseDeletes
<1> QED
  BY <1>2, Invariance, PTL

\* A streaming handle's buffers have the format the daemon was told last.
THEOREM BuffersAlwaysFit == Spec => []BuffersFit
<1>1. ASSUME Inv, Shut({"unanswered", "overtaken", "guest", "refit", "remode"}),
             NEW h \in Handles, state[h] = 2
      PROVE  bufs[h] = told
  <2>1. bufs[h] # NONE /\ pc[h] # "close_end"
    BY <1>1 DEF Inv, Shut, Requests, Streams
  <2> QED
    BY <1>1, <2>1 DEF Inv, Fits
<1>2. Inv => BuffersFit
  BY <1>1 DEF BuffersFit, Streaming
<1> QED
  BY <1>2, Invariance, PTL

\* A device is never stuck in REQBUFED with no buffers anywhere.
THEOREM NeverStuckBusy == Spec => []BusyHasBuffers
<1>1. Inv => BusyHasBuffers
  BY DEF Inv, Busy, BusyHasBuffers
<1> QED
  BY <1>1, Invariance, PTL

\* The orders posted to the daemon are those StreamFlow allows: the pipeline
\* of ioctls implements it, with ioctls one at a time, answered posts and no
\* handle that requests buffers for another one's stream.
THEOREM PipelineFlow == Spec => FlowSpec
<1>1. Init => Flow!Init
  BY DEF Init, Flow!Init
<1>2. Inv /\ [Next]_vars
        => [Shut({"unanswered", "overtaken", "guest"}) => Flow!Next]_<<order, owner>>
  <2> SUFFICES ASSUME Inv, [Next]_vars, Shut({"unanswered", "overtaken", "guest"})
               PROVE  Flow!Next \/ UNCHANGED <<order, owner>>
    OBVIOUS
  <2> USE DEF Flow!Next, Flow!New, Flow!SetFmt, Flow!Start, Flow!Stop, Flow!Del, Shut
  <2>1. Base /\ Requests /\ Streams /\ Lifetime /\ OrdersFollow
    BY DEF Inv
  <2>2. ASSUME NEW h \in Handles, Step(h) PROVE Flow!Next \/ UNCHANGED <<order, owner>>
    <3> USE DEF OrdersFollow, OrderAtStep, LastOrder
    <3>0. pc[h] # "idle" => \A g \in Others(h) : pc[g] = "idle"
      BY DEF Inv, Alone
    <3>1. CASE FmtNew(h)
      BY <2>1, <3>0, <3>1 DEF FmtNew, Lifetime
    <3>2. CASE FmtSet(h)
      BY <2>1, <3>0, <3>2 DEF FmtSet
    <3>3. CASE Start(h)
      BY <2>1, <3>0, <3>3 DEF Start
    <3>4. CASE Stop(h)
      BY <2>1, <3>4 DEF Stop
    <3>5. CASE CloseStop(h)
      BY <2>1, <3>5 DEF CloseStop, Streams, Lifetime
    <3>6. CASE CloseDel(h)
      BY <2>1, <3>0, <3>6 DEF CloseDel, Streams, Setting, Base, TypeOK, Statuses
    <3> QED
      BY <2>2, <3>1, <3>2, <3>3, <3>4, <3>5, <3>6 DEF Step, Open, SFmt, SetDeviceFmt,
         FmtEvent,
         Reqbufs, Claim, Alloc, ReqbufsZero, Streamon, Streamoff, Close, CloseLook, CloseEnd
  <2> QED
    BY <2>2 DEF Next, SetModeinfo, vars
<1> QED
  BY <1>1, <1>2, Invariance, PTL DEF Spec, FlowSpec
=============================================================================

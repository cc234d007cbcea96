------------------------------ MODULE StreamFlow ------------------------------
(***************************************************************************)
(* What a video device promises the camera daemon about the orders it      *)
(* posts for its one stream: a stream is created before anything is asked  *)
(* of it, has a format before it starts, is started by one handle at a     *)
(* time, stopped by that handle, and deleted only when stopped.            *)
(***************************************************************************)
CONSTANTS Handles, \* the device's handles
          NONE     \* no handle

VARIABLES order,   \* the last order: NEW, SET_FMT, START, STOP or DEL
          owner    \* the handle that started the stream

vars == <<order, owner>>

Init == order = "DEL" /\ owner = NONE

New == order = "DEL" /\ order' = "NEW" /\ UNCHANGED owner

SetFmt == order \in {"NEW", "STOP"} /\ order' = "SET_FMT" /\ UNCHANGED owner

Start(h) == order \in {"SET_FMT", "STOP"} /\ order' = "START" /\ owner' = h

Stop(h) == order = "START" /\ owner = h /\ order' = "STOP" /\ owner' = NONE

Del == order \notin {"START", "DEL"} /\ order' = "DEL" /\ UNCHANGED owner

Next == New \/ SetFmt \/ Del \/ \E h \in Handles : Start(h) \/ Stop(h)

Spec == Init /\ [][Next]_vars
===============================================================================

---------------------------- MODULE BufferFlow ----------------------------
(***************************************************************************)
(* What the ISP driver promises about the frame buffers it allocated: each *)
(* has one owner, and it changes hands along one road.  A buffer is        *)
(* allocated into the queue, becomes the next frame's, is filled, goes to  *)
(* the remote end of the link and comes back to the queue; a flush frees   *)
(* all the driver holds.  A buffer that is pushed out while it is filled   *)
(* is lost.                                                                *)
(***************************************************************************)
CONSTANT Bufs

VARIABLE owner

Owners == {"free", "queued", "next", "filling", "remote", "lost"}

Having(o) == {b \in Bufs : owner[b] = o}

Init == owner = [b \in Bufs |-> "free"]

Pass(b, from, to) ==
    /\ owner[b] = from
    /\ owner' = [owner EXCEPT ![b] = to]

AtMostOne(S) == {T \in SUBSET S : \A c, d \in T : c = d}

\* A queued buffer is programmed: it pushes the next one on to be filled,
\* and that one pushes out a buffer not delivered in time.
Advance ==
    \E b \in Having("queued"),
       N \in AtMostOne(Having("next")), F \in AtMostOne(Having("filling")) :
         owner' = [c \in Bufs |-> IF c = b THEN "next"
                                  ELSE IF c \in N THEN "filling"
                                  ELSE IF c \in F THEN "lost"
                                  ELSE owner[c]]

\* The driver frees all it holds and none of what it does not.
Flush == owner' = [b \in Bufs |-> IF owner[b] \in {"queued", "next", "filling"}
                                    THEN "free" ELSE owner[b]]

Next == \/ Advance \/ Flush
        \/ \E b \in Bufs : \/ Pass(b, "free", "queued")
                           \/ Pass(b, "filling", "remote")
                           \/ Pass(b, "remote", "queued")
                           \/ Pass(b, "remote", "free")

Spec == Init /\ [][Next]_owner
=============================================================================

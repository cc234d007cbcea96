------------------------------ MODULE MCIspMi ------------------------------
(* IspMi for TLC: the buffers are interchangeable; the environments of     *)
(* each run.                                                               *)
EXTENDS IspMi, TLC

Symmetry == Permutations(Bufs)

Dewarper(closed) == [link |-> "dewarper", closed |-> closed]
Video(closed) == [link |-> "video", closed |-> closed]

\* Every frame end is handled in time, starts and stops are quiet.
Quiet == {"slow_frame", "dirty_start", "dirty_stop", "torn_state"}

\* The dewarper's link with everything open but torn updates, but dirty
\* starts, and with stops that are quiet (everything open at once is left to
\* the theorems of IspMiProofs); the video device's with user space that
\* keeps its hands off, with quiet stops, and with both, some starts quiet or
\* updates whole.
OpenEnvs ==
    {Dewarper({"torn_state", "late_push"}),
     Dewarper({"dirty_start"}),
     Dewarper({"dirty_stop", "torn_state"}),
     Video({"early_requeue", "torn_state"}),
     Video({"dirty_stop", "dirty_start", "torn_state"}),
     Video({"early_requeue", "dirty_stop", "torn_state", "late_push"})}

\* The hardware does not overtake the driver, and every path gets buffers ...
InTime == {"slow_frame", "dirty_start", "empty_start", "two_paths"}

\* ... while stops come in the middle of a frame end, or updates of `state'
\* are torn.
WindowEnvs ==
    {Dewarper(Quiet),
     Dewarper(Quiet \cup {"two_paths"}),
     Dewarper(InTime \cup {"torn_state"}),
     Dewarper(InTime \cup {"dirty_stop"})}

\* Timely frames; one of abrupt starts, abrupt stops and torn updates.
LiveEnvs == {Dewarper(Quiet \ {w}) : w \in Quiet \ {"slow_frame"}}
=============================================================================

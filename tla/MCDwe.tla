------------------------------- MODULE MCDwe -------------------------------
(* Dwe for TLC: the environments of each run.                              *)
EXTENDS Dwe

\* Either the engine is stopped when quiet, or `state' is updated whole, or
\* user space queues what the dewarper still has.
OpenEnvs ==
    {{"late_tasklet", "early_requeue"},
     {"torn_state", "early_requeue"},
     {"torn_state", "idle_in_flight", "close_started"}}

Whole == {"torn_state", "late_tasklet", "early_requeue"}

\* `state' is updated whole and the engine stopped when quiet; then closes
\* without stop and engine errors, interrupts of an inactive dewarper, or
\* none of these.
WindowEnvs ==
    {Whole \cup {"idle_in_flight", "double_start"},
     Whole \cup {"hw_error", "double_start"},
     Windows \ {"double_start"}}

\* With two subdevices: frames that nobody looks for.
TwoEnvs == {Windows \ {"lost_wakeup", "unseen_frame"}}
=============================================================================

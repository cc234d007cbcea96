--------------------------- MODULE MCIspDeferred ---------------------------
(* IspDeferred for TLC: the environments of the runs.                      *)
EXTENDS IspDeferred

\* Frames end during copies and subscribers leave at any time; settings of gamma drop each
\* other and a handle leaves while the handler posts; the handler and the ioctls overwrite
\* each other's isp_ctrl.
DeferredEnvs == {Windows \ {"frame_in_copy", "other_leaves"},
                 Windows \ {"gamma_enable", "late_call"},
                 Windows \ {"torn_ctrl"}}

OpenEnvs == {{}}
=============================================================================

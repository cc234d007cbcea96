------------------------------ MODULE MCSensor ------------------------------
(* Sensor for TLC: the environments of the run.                            *)
EXTENDS Sensor, TLC

\* Formats and modes at any time; two s_stream at once, and set_fmt in a stream.
SensorEnvs == {Windows \ {"fmt_after_fps", "mode_after_fps"},
               Windows \ {"streams_overlap", "fmt_in_stream"}}

\* resume_status is read only while suspended, and every suspend sets it.
Seen == <<closed, cached, stream_status, suspended, suspended /\ resume_status, spc, regs, granted>>

Alike == Permutations(Channels)
=============================================================================

--------------------------- MODULE MCVideoPipeline ---------------------------
(* VideoPipeline for TLC: the environments of the run.                     *)
EXTENDS VideoPipeline, TLC

\* One ioctl at a time, everything else open; then with each set of windows
\* closed that a property asks for.
PipelineEnvs == {{"overtaken"}, {"overtaken", "unanswered", "guest"},
                 {"overtaken", "unanswered", "guest", "refit", "remode"},
                 {"overtaken", "unanswered", "freed", "alloc_fails"}}

Alike == Permutations(Handles) \cup Permutations(Formats)
==============================================================================

---------------------------- MODULE MCVideoEvent ----------------------------
(* VideoEvent for TLC: the environments of the runs, and symmetry.         *)
EXTENDS VideoEvent, TLC

\* Late answers and dead daemons; unpaired subscriptions and overlapping
\* arguments; applications that come and go in an orderly environment.
EventEnvs == {Windows \ {"late_answer", "daemon_dies"}, Windows \ {"shared_args", "unpaired"},
              Windows \ {"app_closes"}}

\* For liveness: the daemon answers late, not at all, or dies.
LiveEnvs == {Windows \ {"late_answer", "daemon_dies"}}

AlikePosters == Permutations(Posters)
=============================================================================

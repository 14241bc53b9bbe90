----------------------------- MODULE MCWorkerPool -----------------------------
(* What the runs of WorkerPool give its constants.  A version is named after what *)
(* is wrong with its bundle.                                                      *)
EXTENDS WorkerPool, TLC

PoolCategories == {"none", "agent", "bundle", "paused", "version_not_found",
                   "recycle_pending", "executor_unavailable", "no_agent_module"}

Bundles ==
  [v \in Versions |-> IF v \in {"missing", "broken", "no_agent"} THEN v ELSE "ok"]

\* Workers started alike are interchangeable.
WorkerSymmetry == Permutations(Workers)
================================================================================

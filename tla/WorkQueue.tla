------------------------------- MODULE WorkQueue -------------------------------
(***************************************************************************)
(* What a dispatcher promises the caller of enqueue, with no leases, no     *)
(* workers and no clock: every unit of work is in one place at a time, a    *)
(* unit handed out may come back to the queue any number of times, and a    *)
(* unit that is done or parked stays so.  Dispatcher implements this        *)
(* (WorkerPoolProofs!Implements, and the PROPERTY of MCDispatcher.cfg).     *)
(***************************************************************************)
CONSTANT Unit   \* the units of work that may ever be submitted

VARIABLE phase  \* phase[u]: where the unit u is

Phases == {"absent", "queued", "held", "done", "parked"}

Init == phase = [u \in Unit |-> "absent"]

Move(u, from, to) ==
  /\ phase[u] = from
  /\ phase' = [phase EXCEPT ![u] = to]

Submit(u) == Move(u, "absent", "queued")
Grant(u)  == Move(u, "queued", "held")
GiveBack(u) == Move(u, "held", "queued")
Finish(u) == Move(u, "held", "done")
Park(u)   == Move(u, "held", "parked")

Next == \E u \in Unit : Submit(u) \/ Grant(u) \/ GiveBack(u) \/ Finish(u) \/ Park(u)

Spec == Init /\ [][Next]_phase

================================================================================

----------------------------- MODULE MCDispatcher -----------------------------
(* Two workers, one version, two items: enough for a lease to expire while    *)
(* another is live, for two leases to expire in one sweep, for a heartbeat    *)
(* between the reaper's clock reading and its lock, and for a stale call.     *)
EXTENDS Dispatcher
================================================================================

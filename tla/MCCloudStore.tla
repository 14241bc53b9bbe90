----------------------------- MODULE MCCloudStore -----------------------------
(* One run of four writes beside the unfollowed ones, and journals of up to     *)
(* three entries with a batch of one: enough for a drain to halt at its first  *)
(* or a later entry, to stop at its batch, and to be cut off anywhere.         *)
EXTENDS CloudStore
================================================================================

------------------------------- MODULE MCLedger -------------------------------
EXTENDS Ledger

\* Processes are interchangeable.
ProcSymmetry == Permutations(Procs)
================================================================================

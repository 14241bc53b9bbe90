------------------------------- MODULE Bundles --------------------------------
(***************************************************************************)
(* Which code a lease runs.                                                 *)
(*                                                                         *)
(* The worker processes of one host share a directory of extracted bundles  *)
(* (runtime/_bundle_cache.py).  A process that does not have the bundle of   *)
(* its lease in memory takes it from there, or fetches it, extracts it in a  *)
(* directory of its own and renames that into place; then it imports it and  *)
(* runs the body under a finder that serves the bundle's own modules         *)
(* (runtime/_bundle_loader.py, worker.py).  This is the in-process path: an  *)
(* executor child serves one key and so is one that restarts at every other. *)
(*                                                                         *)
(* A bundle is an entrypoint and a package beside it with a submodule.  Its  *)
(* code, at import or in the body, may import the package ("beside"), have   *)
(* the package import its submodule relative to itself ("relative"), or ask  *)
(* for the submodule by its dotted name ("dotted").  Processes may be        *)
(* killed, fetches and extractions fail and, where LockWorks is FALSE, two   *)
(* may hold the file lock at once.                                          *)
(***************************************************************************)
EXTENDS Naturals, Functions

CONSTANTS
  Procs,        \* worker processes on the host
  Deployments,  \* <<account, agent, version>> of the bundles there are
  None,         \* no directory, no lock holder, no module
  LockWorks,    \* whether flock always excludes the other processes
  MaxLoads,     \* bound: leases of a bundle that the process does not have in memory
  MaxFaults     \* bound: kills, failed fetches and extractions, locks that let two in

Account(d) == d[1]
Version(d) == d[3]

ASSUME BundlesAssumption ==
  /\ LockWorks \in BOOLEAN /\ None \notin Deployments \cup Procs
  /\ MaxLoads \in Nat /\ MaxFaults \in Nat

\* The finder knows a bundle by its account and version: two agents of one account at
\* one version share what it knows.
Token(d) == <<Account(d), Version(d)>>
Tokens == {Token(d) : d \in Deployments}

VARIABLES
  tree,     \* the directory vN of each bundle: whose files, and whether all are there
  partial,  \* the directories vN.partial-<uuid>: of each bundle and process
  lock,     \* who holds each lock file
  proc,     \* each process: where it is, its lease, and its memory
  loads, faults

vars == <<tree, partial, lock, proc, loads, faults>>
disk == <<tree, partial, lock>>

NoTree == [of |-> None, whole |-> FALSE]

\* A directory that is being extracted, and one with its last file and its sidecars.
Half(d) == [of |-> d, whole |-> FALSE]
Whole(d) == [of |-> d, whole |-> TRUE]

Ways == {"beside", "relative", "dotted"}

NothingGot == [way |-> "beside", of |-> None]

\* resident is what has been imported, roots the finder's directories, scope the token
\* it serves.  The rest is in sys.modules: beside is pkg, the name all bundles use; below
\* is pkg.sub, and so is that; named is the submodule under the name of each token's own.
\* For the properties, got is what the last import of this scope returned, and first the
\* scope in which pkg.sub was asked for first.
Fresh ==
  [at |-> "poll", lease |-> None, resident |-> {}, roots |-> [t \in Tokens |-> None],
   scope |-> None, beside |-> None, below |-> None, named |-> [t \in Tokens |-> None],
   got |-> NothingGot, first |-> None]

At(p, where) == proc[p].at = where
Lease(p) == proc[p].lease
Goes(p, where) == proc' = [proc EXCEPT ![p].at = where]

\* The item fails, or is done; the process goes on with the next.
NextItem(p) == proc' = [proc EXCEPT ![p].at = "poll", ![p].lease = None]

Fault == faults < MaxFaults /\ faults' = faults + 1

-----------------------------------------------------------------------------
(* ensure_bundle. *)

\* A bundle that is in memory is not looked for on disk.
Take(p, d) ==
  /\ At(p, "poll")
  /\ \/ d \in proc[p].resident /\ UNCHANGED loads
     \/ d \notin proc[p].resident /\ loads < MaxLoads /\ loads' = loads + 1
  /\ proc' = [proc EXCEPT ![p].lease = d,
                          ![p].at = IF d \in proc[p].resident THEN "body" ELSE "look"]
  /\ UNCHANGED <<disk, faults>>

Cached(d) == tree[d] # NoTree

Look(p) ==
  /\ At(p, "look")
  /\ Goes(p, IF Cached(Lease(p)) THEN "import" ELSE "lock")
  /\ UNCHANGED <<disk, loads, faults>>

Lock(p) ==
  /\ At(p, "lock")
  /\ \/ lock[Lease(p)] = None /\ UNCHANGED faults
     \/ lock[Lease(p)] # None /\ ~LockWorks /\ Fault
  /\ lock' = [lock EXCEPT ![Lease(p)] = p]
  /\ Goes(p, "recheck")
  /\ UNCHANGED <<tree, partial, loads>>

\* (mutant) The lock is given back when the rename has been done.
MutUnlocked(p) ==
  IF At(p, "rename") THEN [lock EXCEPT ![Lease(p)] = IF @ = p THEN None ELSE @] ELSE lock

\* __exit__ gives the lock back on every way out.
Unlocked(p) == [lock EXCEPT ![Lease(p)] = IF @ = p THEN None ELSE @]

Recheck(p) ==
  /\ At(p, "recheck")
  /\ IF Cached(Lease(p))
     THEN lock' = Unlocked(p) /\ Goes(p, "import")
     ELSE UNCHANGED lock /\ Goes(p, "fetch")
  /\ UNCHANGED <<tree, partial, loads, faults>>

\* What arrives is checked against its hash before a directory is made.
Fetch(p) ==
  /\ At(p, "fetch")
  /\ \/ Goes(p, "extract") /\ UNCHANGED <<lock, faults>>
     \/ Fault /\ lock' = Unlocked(p) /\ NextItem(p)
  /\ UNCHANGED <<tree, partial, loads>>

\* (mutant) The files are extracted where they belong.
MutExtract(p) ==
  /\ At(p, "extract")
  /\ tree' = [tree EXCEPT ![Lease(p)] = Half(Lease(p))]
  /\ Goes(p, "seal")
  /\ UNCHANGED <<partial, lock, loads, faults>>

\* The files are extracted into a directory of this process's own.
Extract(p) ==
  /\ At(p, "extract")
  /\ partial' = [partial EXCEPT ![<<Lease(p), p>>] = Half(Lease(p))]
  /\ Goes(p, "seal")
  /\ UNCHANGED <<tree, lock, loads, faults>>

\* The last file and the sidecars, or an error, after which the directory is removed.
Seal(p) ==
  /\ At(p, "seal")
  /\ \/ /\ partial' = [partial EXCEPT ![<<Lease(p), p>>] = Whole(Lease(p))]
        /\ Goes(p, "rename")
        /\ UNCHANGED <<lock, faults>>
     \/ /\ Fault
        /\ partial' = [partial EXCEPT ![<<Lease(p), p>>] = NoTree]
        /\ lock' = Unlocked(p)
        /\ NextItem(p)
  /\ UNCHANGED <<tree, loads>>

\* A directory that is there already, somebody else's, is kept and used.
Rename(p) ==
  /\ At(p, "rename")
  /\ tree' = [tree EXCEPT ![Lease(p)] = IF @ = NoTree THEN partial[<<Lease(p), p>>] ELSE @]
  /\ partial' = [partial EXCEPT ![<<Lease(p), p>>] = NoTree]
  /\ lock' = Unlocked(p)
  /\ Goes(p, "import")
  /\ UNCHANGED <<loads, faults>>

\* The kernel gives a dead process's locks back; its partial directory stays for good.
\* Another process takes its place.
Killed(p) ==
  /\ ~At(p, "poll") /\ Fault
  /\ proc' = [proc EXCEPT ![p] = Fresh]
  /\ lock' = [d \in Deployments |-> IF lock[d] = p THEN None ELSE lock[d]]
  /\ UNCHANGED <<tree, partial, loads>>

-----------------------------------------------------------------------------
(* Importing and running. *)

\* The finder is asked only for a name that is not in sys.modules.
Beside(m) == IF m.beside = None THEN m.roots[m.scope] ELSE m.beside

\* import pkg: the alias lasts until the scope ends.
Imported(m) ==
  [m EXCEPT !.beside = Beside(m), !.got = [way |-> "beside", of |-> Beside(m)]]

\* from .sub import x, in pkg, or from pkg import sub: the package goes by its versioned
\* name, and so does what is imported below it; that stays.
ImportedRelative(m) ==
  LET sub == IF m.named[m.scope] = None THEN Beside(m) ELSE m.named[m.scope]
  IN [m EXCEPT !.beside = Beside(m), !.named[m.scope] = sub,
               !.got = [way |-> "relative", of |-> sub]]

\* from pkg.sub import x: the finder declines every name but a top-level one, so that the
\* path of the package decides, once.  No frame records the name and nothing removes it:
\* who asks later is given the same module, and its own package is not looked at.
ImportedDotted(m) ==
  IF m.below = None
  THEN [m EXCEPT !.beside = Beside(m), !.below = Beside(m), !.first = m.scope,
                 !.got = [way |-> "dotted", of |-> Beside(m)]]
  ELSE [m EXCEPT !.got = [way |-> "dotted", of |-> m.below]]

\* (mutant) The names stay when the scope ends.
MutScopeEnded(m) == [m EXCEPT !.scope = None, !.got = NothingGot]

\* The names of the scope's frame, top-level ones, are taken out of sys.modules, however
\* it ends.
ScopeEnded(m) == [m EXCEPT !.scope = None, !.beside = None, !.got = NothingGot]

\* import_bundle_module: the root is registered and the entrypoint executed.
Import(p) ==
  /\ At(p, "import")
  /\ proc' = [proc EXCEPT ![p].roots[Token(Lease(p))] = tree[Lease(p)].of,
                          ![p].scope = Token(Lease(p)), ![p].at = "top"]
  /\ UNCHANGED <<disk, loads, faults>>

Body(p) ==
  /\ At(p, "body")
  /\ proc' = [proc EXCEPT ![p].scope = Token(Lease(p)), ![p].at = "runs"]
  /\ UNCHANGED <<disk, loads, faults>>

\* The entrypoint or the body imports, in any of the ways and any number of times.
ImportBeside(p) ==
  /\ proc[p].at \in {"top", "runs"}
  /\ \E m \in {Imported(proc[p]), ImportedRelative(proc[p]), ImportedDotted(proc[p])} :
       proc' = [proc EXCEPT ![p] = m]
  /\ UNCHANGED <<disk, loads, faults>>

\* The entrypoint ends and the bundle is resident.
Loaded(p) ==
  /\ At(p, "top")
  /\ proc' = [proc EXCEPT ![p] =
                [ScopeEnded(@) EXCEPT !.at = "body",
                                      !.resident = proc[p].resident \cup {Lease(p)}]]
  /\ UNCHANGED <<disk, loads, faults>>

\* The scope ends and the lease with it.
Left(m) == [ScopeEnded(m) EXCEPT !.at = "poll", !.lease = None]

\* It raises; the next lease imports it again.
LoadFails(p) ==
  /\ At(p, "top")
  /\ proc' = [proc EXCEPT ![p] = Left(@)]
  /\ UNCHANGED <<disk, loads, faults>>

\* The body returns or raises.
BodyEnds(p) ==
  /\ At(p, "runs")
  /\ proc' = [proc EXCEPT ![p] = Left(@)]
  /\ UNCHANGED <<disk, loads, faults>>

-----------------------------------------------------------------------------
BundlesInit ==
  /\ tree = [d \in Deployments |-> NoTree]
  /\ partial = [x \in Deployments \X Procs |-> NoTree]
  /\ lock = [d \in Deployments |-> None]
  /\ proc = [p \in Procs |-> Fresh]
  /\ loads = 0 /\ faults = 0

Ensures(p) ==
  Look(p) \/ Lock(p) \/ Recheck(p) \/ Fetch(p) \/ Extract(p) \/ Seal(p) \/ Rename(p)

Runs(p) ==
  Import(p) \/ Body(p) \/ ImportBeside(p) \/ Loaded(p) \/ LoadFails(p) \/ BodyEnds(p)

BundlesNext ==
  \E p \in Procs :
    \/ \E d \in Deployments : Take(p, d)
    \/ Ensures(p) \/ Runs(p) \/ Killed(p)

\* A process goes on with its lease, and customer code may take for ever; who waits for
\* a lock gets it if it is free again and again.  No fault is owed, a lock that lets two
\* in neither.
BundlesSpec ==
  /\ BundlesInit /\ [][BundlesNext]_vars
  /\ \A p \in Procs : SF_vars(Ensures(p) /\ UNCHANGED faults)

-----------------------------------------------------------------------------
(* What must hold. *)

\* A bundle's directory appears once, with all its files and sidecars, and nobody changes
\* it under the processes that import from it, whoever is killed half-way and whether or
\* not the lock works.
OnceAndWhole ==
  [][\A d \in Deployments : tree'[d] # tree[d] =>
       tree[d] = NoTree /\ tree'[d] = Whole(d)]_vars

\* Whose module an import must return: the lease's own account and version, or, for a
\* submodule by its dotted name, those of the scope that was first in this process to ask.
Owner(m) == IF m.got.way = "dotted" THEN m.first ELSE Token(m.lease)

\* What a lease's code imports, top-level or relative to a package, is a module of its own
\* account and version, whichever the process has run before (plan 47: "one account's code
\* ran against another's items").  Dotted names are outside what the finder does: pkg.sub
\* is that of the first lease to ask, of whatever account, until the process ends, and so
\* a lease's own just when no other was before it.  The agent is not in it: the finder does
\* not know it.
RunsItsOwnCode ==
  \A p \in Procs : proc[p].got.of # None => Token(proc[p].got.of) = Owner(proc[p])

\* A process that looks for a bundle has it in the end, or an error: no lock is left
\* behind by a failed fetch, a failed extraction or a dead process.
AskedIsAnswered ==
  \A p \in Procs : proc[p].at \in {"look", "lock"} ~> proc[p].at \in {"import", "poll"}
================================================================================

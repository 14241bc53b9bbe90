---------------------------- MODULE BundlesProofs -----------------------------
(***************************************************************************)
(* Proofs about Bundles: a bundle's directory appears once and whole, and a *)
(* lease's code imports from its own account and version, or by a dotted    *)
(* name from that of the first scope to ask, for any processes and bundles, *)
(* any number of leases and faults, and a lock that works or does not.      *)
(***************************************************************************)
EXTENDS Bundles, TLAPS

-----------------------------------------------------------------------------
(* The invariant. *)

Bundle == Deployments \cup {None}

\* A process.
Shape(m) ==
  /\ DOMAIN m = {"at", "lease", "resident", "roots", "scope", "beside", "below", "named",
                 "got", "first"}
  /\ m.at \in {"poll", "look", "lock", "recheck", "fetch", "extract", "seal", "rename",
               "import", "top", "body", "runs"}
  /\ m.lease \in Bundle /\ (m.at # "poll" => m.lease \in Deployments)
  /\ m.resident \subseteq Deployments /\ m.roots \in [Tokens -> Bundle]
  /\ m.beside \in Bundle /\ m.below \in Bundle /\ m.named \in [Tokens -> Bundle]
  /\ m.got \in [way : Ways, of : Bundle]

\* The finder's roots are of their own token, and there for all that is resident.
Rooted(m) ==
  /\ \A t \in Tokens : m.roots[t] # None => Token(m.roots[t]) = t
  /\ \A d \in m.resident : m.roots[Token(d)] # None
  /\ m.at = "body" => m.lease \in m.resident

\* In a scope the top-level modules are of the lease's token, out of it there are none.
Scoped(m) ==
  /\ m.at \in {"top", "runs"} => m.scope = Token(m.lease) /\ m.roots[m.scope] # None
  /\ m.beside # None => m.at \in {"top", "runs"} /\ Token(m.beside) = m.scope
  /\ m.got.of # None => m.at \in {"top", "runs"} /\ Token(m.got.of) = Owner(m)

\* What stays in sys.modules: under a token's name a module of its own, and under the
\* dotted name one of who asked for it first.
Kept(m) ==
  /\ \A t \in Tokens : m.named[t] # None => Token(m.named[t]) = t
  /\ m.below # None => Token(m.below) = m.first

\* What a process extracts is its bundle, and what it imports from is all there.
Placed(m, p, trees, partials) ==
  /\ m.at = "seal" => partials[<<m.lease, p>>] = Half(m.lease)
  /\ m.at = "rename" => partials[<<m.lease, p>>] = Whole(m.lease)
  /\ m.at = "import" => trees[m.lease] = Whole(m.lease)

Sound(m, p, trees, partials) ==
  Shape(m) /\ Rooted(m) /\ Scoped(m) /\ Kept(m) /\ Placed(m, p, trees, partials)

BInv ==
  /\ DOMAIN tree = Deployments /\ \A d \in Deployments : tree[d] \in {NoTree, Whole(d)}
  /\ DOMAIN partial = Deployments \X Procs
  /\ DOMAIN proc = Procs /\ \A p \in Procs : Sound(proc[p], p, tree, partial)

\* A directory that appears is whole.
Appears ==
  \A d \in Deployments : tree'[d] # tree[d] => tree[d] = NoTree /\ tree'[d] = Whole(d)

USE BundlesAssumption

-----------------------------------------------------------------------------
(* Lemmas. *)

\* A bundle's token is one of the tokens.
LEMMA TokenOf ==
  ASSUME NEW d \in Deployments
  PROVE  Token(d) \in Tokens /\ d # None /\ NoTree # Whole(d)
BY DEF Tokens, NoTree, Whole

\* A step of one process keeps the invariant if it leaves that process sound, adds no
\* directory but a whole one, and keeps to its own partial directories.
LEMMA StepKeeps ==
  ASSUME BInv, NEW p \in Procs, NEW m,
         proc' = [proc EXCEPT ![p] = m], Sound(m, p, tree', partial'),
         DOMAIN tree' = Deployments, Appears,
         DOMAIN partial' = Deployments \X Procs,
         \A d \in Deployments, q \in Procs \ {p} : partial'[<<d, q>>] = partial[<<d, q>>]
  PROVE  BInv'
<1>1. DOMAIN proc' = Procs /\ proc'[p] = m /\ \A q \in Procs \ {p} : proc'[q] = proc[q]
  BY DEF BInv
<1>2. ASSUME NEW q \in Procs \ {p} PROVE Sound(proc'[q], q, tree', partial')
  <2>1. Sound(proc[q], q, tree, partial)
    BY DEF BInv
  <2>2. proc[q].at # "poll" => proc[q].lease \in Deployments
    BY <2>1 DEF Sound, Shape
  <2>3. Placed(proc[q], q, tree', partial')
    BY <2>1, <2>2, TokenOf DEF Sound, Placed, Appears
  <2>4. QED BY <1>1, <2>1, <2>3 DEF Sound
<1>3. \A q \in Procs : Sound(proc'[q], q, tree', partial')
  BY <1>1, <1>2
<1>4. \A d \in Deployments : tree'[d] \in {NoTree, Whole(d)}
  BY DEF BInv, Appears
<1>5. QED BY <1>1, <1>3, <1>4 DEF BInv

\* What a process remembers, apart from where it is.
Remembers(n, m) ==
  /\ DOMAIN n = DOMAIN m /\ n.resident = m.resident /\ n.roots = m.roots
  /\ n.named = m.named /\ n.below = m.below /\ n.first = m.first

LEMMA Remembered ==
  ASSUME NEW n, NEW m, Remembers(n, m)
  PROVE  Kept(m) => Kept(n)
BY DEF Remembers, Kept

\* A process that only goes elsewhere, to no place where it has modules or needs files.
LEMMA Elsewhere ==
  ASSUME NEW p \in Procs, NEW m, NEW trees, NEW partials, Shape(m), Rooted(m), Scoped(m),
         Kept(m), NEW where \in {"look", "lock", "recheck", "fetch", "extract", "seal", "rename", "import"},
         m.lease \in Deployments, m.at \notin {"top", "body", "runs"},
         Placed([m EXCEPT !.at = where], p, trees, partials)
  PROVE  Sound([m EXCEPT !.at = where], p, trees, partials)
<1> DEFINE n == [m EXCEPT !.at = where]
<1>1. Shape(n)
  BY DEF Shape
<1>2. /\ n.at = where /\ n.lease = m.lease /\ n.scope = m.scope
      /\ n.beside = m.beside /\ n.got = m.got /\ Remembers(n, m)
  BY DEF Shape, Remembers
<1>3. Rooted(n) /\ Scoped(n) /\ Kept(n)
  BY <1>2, Remembered DEF Rooted, Scoped, Remembers
<1>4. QED BY <1>1, <1>3 DEF Sound

\* A process that goes on with its next item.
LEMMA Polls ==
  ASSUME NEW p \in Procs, NEW m, NEW trees, NEW partials, Shape(m), Rooted(m), Kept(m),
         NEW n, Remembers(n, m), n.at = "poll", n.lease = None, n.beside = None,
         n.got \in [way : Ways, of : {None}]
  PROVE  Sound(n, p, trees, partials)
<1>1. Shape(n)
  BY DEF Shape, Remembers, Bundle
<1>2. Rooted(n) /\ Scoped(n) /\ Placed(n, p, trees, partials)
  BY DEF Remembers, Rooted, Scoped, Placed
<1>3. QED BY <1>1, <1>2, Remembered DEF Sound

-----------------------------------------------------------------------------
(* The steps. *)

LEMMA TakeKeeps ==
  ASSUME BInv, NEW p \in Procs, NEW d \in Deployments, Take(p, d)
  PROVE  BInv' /\ Appears
<1> DEFINE m == proc[p]
           where == IF d \in m.resident THEN "body" ELSE "look"
           n == [m EXCEPT !.lease = d, !.at = where]
<1>1. Sound(m, p, tree, partial) /\ m.at = "poll"
  BY DEF BInv, Take, At
<1>2. proc' = [proc EXCEPT ![p] = n] /\ UNCHANGED <<tree, partial>>
  BY DEF Take, BInv, disk
<1>3. Shape(n)
  BY <1>1 DEF Sound, Shape, Bundle
<1>4. /\ n.at = where /\ n.lease = d /\ n.scope = m.scope
      /\ n.beside = m.beside /\ n.got = m.got /\ Remembers(n, m)
  BY <1>1 DEF Sound, Shape, Remembers
<1> HIDE DEF n
<1>5. Kept(n) /\ Rooted(n) /\ Scoped(n) /\ Placed(n, p, tree, partial)
  <2>1. Kept(n)
    BY <1>1, <1>4, Remembered DEF Sound
  <2>2. Rooted(n) /\ Scoped(n) /\ Placed(n, p, tree, partial)
    BY <1>1, <1>4 DEF Sound, Rooted, Scoped, Placed, Remembers
  <2>3. QED BY <2>1, <2>2
<1>6. Sound(n, p, tree', partial') /\ Appears
  BY <1>2, <1>3, <1>5 DEF Sound, Appears
<1>7. QED BY <1>2, <1>6, StepKeeps DEF BInv

\* Looking, locking, fetching: nothing on disk but the lock.
LEMMA EnsureKeeps ==
  ASSUME BInv, NEW p \in Procs, Look(p) \/ Lock(p) \/ Recheck(p) \/ Fetch(p)
  PROVE  BInv' /\ Appears
<1> DEFINE m == proc[p]
<1>1. Sound(m, p, tree, partial) /\ m.at \in {"look", "lock", "recheck", "fetch"}
  BY DEF BInv, Look, Lock, Recheck, Fetch, At
<1>2. UNCHANGED <<tree, partial>>
  BY DEF Look, Lock, Recheck, Fetch, disk
<1>3. m.lease \in Deployments
  BY <1>1 DEF Sound, Shape
<1>4. ASSUME NEW where \in {"lock", "recheck", "fetch", "extract", "import"}, Goes(p, where),
             where = "import" => Cached(m.lease)
      PROVE  BInv'
  <2>1. [m EXCEPT !.at = where].at = where /\ [m EXCEPT !.at = where].lease = m.lease
    BY <1>1 DEF Sound, Shape
  <2>2. Placed([m EXCEPT !.at = where], p, tree', partial')
    BY <1>2, <1>3, <1>4, <2>1 DEF Placed, Cached, BInv
  <2>3. Sound([m EXCEPT !.at = where], p, tree', partial')
    BY <1>1, <1>3, <2>2, Elsewhere DEF Sound
  <2>4. proc' = [proc EXCEPT ![p] = [m EXCEPT !.at = where]]
    BY <1>4 DEF Goes
  <2>5. QED BY <1>2, <2>3, <2>4, StepKeeps DEF BInv, Appears
<1>5. ASSUME NextItem(p) PROVE BInv'
  <2> DEFINE n == [m EXCEPT !.at = "poll", !.lease = None]
  <2>1. proc' = [proc EXCEPT ![p] = n]
    BY <1>5 DEF NextItem, BInv
  <2>2. /\ n.at = "poll" /\ n.lease = None /\ n.beside = None
        /\ n.got \in [way : Ways, of : {None}] /\ Remembers(n, m)
    BY <1>1 DEF Sound, Shape, Scoped, Remembers
  <2>3. Sound(n, p, tree', partial')
    BY <1>1, <2>2, Polls DEF Sound
  <2>4. QED BY <1>2, <2>1, <2>3, StepKeeps DEF BInv, Appears
<1>6. BInv'
  BY <1>4, <1>5 DEF Look, Lock, Recheck, Fetch, Lease
<1>7. QED BY <1>2, <1>6 DEF Appears

LEMMA ExtractKeeps ==
  ASSUME BInv, NEW p \in Procs, Extract(p)
  PROVE  BInv' /\ Appears
<1> DEFINE m == proc[p]
           n == [m EXCEPT !.at = "seal"]
<1>1. Sound(m, p, tree, partial) /\ m.at = "extract" /\ m.lease \in Deployments
  BY DEF BInv, Extract, At, Sound, Shape
<1>2. /\ partial' = [partial EXCEPT ![<<m.lease, p>>] = Half(m.lease)]
      /\ proc' = [proc EXCEPT ![p] = n] /\ UNCHANGED tree
  BY DEF Extract, Goes, Lease
<1>3. /\ DOMAIN partial' = Deployments \X Procs /\ partial'[<<m.lease, p>>] = Half(m.lease)
      /\ \A d \in Deployments, q \in Procs \ {p} : partial'[<<d, q>>] = partial[<<d, q>>]
  BY <1>1, <1>2 DEF BInv
<1>4. n.at = "seal" /\ n.lease = m.lease
  BY <1>1 DEF Sound, Shape
<1>5. Placed(n, p, tree', partial')
  BY <1>3, <1>4 DEF Placed
<1>6. Sound(n, p, tree', partial')
  BY <1>1, <1>5, Elsewhere DEF Sound
<1>7. DOMAIN tree' = Deployments /\ Appears
  BY <1>2 DEF BInv, Appears
<1> HIDE DEF n
<1>8. QED BY <1>2, <1>3, <1>6, <1>7, StepKeeps

LEMMA SealKeeps ==
  ASSUME BInv, NEW p \in Procs, Seal(p)
  PROVE  BInv' /\ Appears
<1> DEFINE m == proc[p]
<1>1. /\ Sound(m, p, tree, partial) /\ m.at = "seal" /\ m.lease \in Deployments
      /\ partial[<<m.lease, p>>] = Half(m.lease)
  BY DEF BInv, Seal, At, Sound, Shape, Placed
<1>2. UNCHANGED tree
  BY DEF Seal
<1>3. CASE /\ partial' = [partial EXCEPT ![<<m.lease, p>>] = Whole(m.lease)]
           /\ Goes(p, "rename")
  <2> DEFINE n == [m EXCEPT !.at = "rename"]
  <2>1. partial' = [partial EXCEPT ![<<m.lease, p>>] = Whole(m.lease)]
    BY <1>3
  <2>2. /\ DOMAIN partial' = Deployments \X Procs /\ partial'[<<m.lease, p>>] = Whole(m.lease)
        /\ \A d \in Deployments, q \in Procs \ {p} : partial'[<<d, q>>] = partial[<<d, q>>]
    BY <1>1, <2>1 DEF BInv
  <2>3. n.at = "rename" /\ n.lease = m.lease
    BY <1>1 DEF Sound, Shape
  <2>4. Placed(n, p, tree', partial')
    BY <2>3, <2>2 DEF Placed
  <2>5. Sound(n, p, tree', partial')
    BY <1>1, <2>4, Elsewhere DEF Sound
  <2>6. proc' = [proc EXCEPT ![p] = n]
    BY <1>3 DEF Goes
  <2>7. DOMAIN tree' = Deployments /\ Appears
    BY <1>2 DEF BInv, Appears
  <2> HIDE DEF n
  <2>8. QED BY <2>5, <2>6, <2>2, <2>7, StepKeeps
<1>4. CASE /\ partial' = [partial EXCEPT ![<<m.lease, p>>] = NoTree] /\ NextItem(p)
  <2> DEFINE n == [m EXCEPT !.at = "poll", !.lease = None]
  <2>1. /\ DOMAIN partial' = Deployments \X Procs
        /\ \A d \in Deployments, q \in Procs \ {p} : partial'[<<d, q>>] = partial[<<d, q>>]
    BY <1>1, <1>4 DEF BInv
  <2>2. proc' = [proc EXCEPT ![p] = n]
    BY <1>4 DEF NextItem, BInv
  <2>3. /\ n.at = "poll" /\ n.lease = None /\ n.beside = None
        /\ n.got \in [way : Ways, of : {None}] /\ Remembers(n, m)
    BY <1>1 DEF Sound, Shape, Scoped, Remembers
  <2>4. Sound(n, p, tree', partial')
    BY <1>1, <2>3, Polls DEF Sound
  <2>5. QED BY <1>2, <2>1, <2>2, <2>4, StepKeeps DEF BInv, Appears
<1>5. QED BY <1>3, <1>4 DEF Seal, Lease

LEMMA RenameKeeps ==
  ASSUME BInv, NEW p \in Procs, Rename(p)
  PROVE  BInv' /\ Appears
<1> DEFINE m == proc[p]
           n == [m EXCEPT !.at = "import"]
<1>1. /\ Sound(m, p, tree, partial) /\ m.at = "rename" /\ m.lease \in Deployments
      /\ partial[<<m.lease, p>>] = Whole(m.lease)
  BY DEF BInv, Rename, At, Sound, Shape, Placed
<1>2. /\ tree' = [tree EXCEPT ![m.lease] = IF @ = NoTree THEN Whole(m.lease) ELSE @]
      /\ partial' = [partial EXCEPT ![<<m.lease, p>>] = NoTree]
      /\ proc' = [proc EXCEPT ![p] = n]
  BY <1>1 DEF Rename, Goes, Lease
<1>3. DOMAIN tree' = Deployments /\ tree'[m.lease] = Whole(m.lease) /\ Appears
  BY <1>1, <1>2 DEF BInv, Appears
<1>4. /\ DOMAIN partial' = Deployments \X Procs
      /\ \A d \in Deployments, q \in Procs \ {p} : partial'[<<d, q>>] = partial[<<d, q>>]
  BY <1>1, <1>2 DEF BInv
<1>5. n.at = "import" /\ n.lease = m.lease
  BY <1>1 DEF Sound, Shape
<1>6. Placed(n, p, tree', partial')
  BY <1>3, <1>5 DEF Placed
<1>7. Sound(n, p, tree', partial')
  BY <1>1, <1>6, Elsewhere DEF Sound
<1> HIDE DEF n
<1>8. QED BY <1>2, <1>3, <1>4, <1>7, StepKeeps

LEMMA KilledKeeps ==
  ASSUME BInv, NEW p \in Procs, Killed(p)
  PROVE  BInv' /\ Appears
<1>1. proc' = [proc EXCEPT ![p] = Fresh] /\ UNCHANGED <<tree, partial>>
  BY DEF Killed
<1>2. Sound(Fresh, p, tree', partial')
  BY DEF Fresh, NothingGot, Ways, Sound, Shape, Rooted, Scoped, Kept, Placed, Bundle
<1>3. QED BY <1>1, <1>2, StepKeeps DEF BInv, Appears

LEMMA ImportKeeps ==
  ASSUME BInv, NEW p \in Procs, Import(p)
  PROVE  BInv' /\ Appears
<1> DEFINE m == proc[p]
           t == Token(m.lease)
           roots == [m.roots EXCEPT ![t] = m.lease]
           n == [m EXCEPT !.roots = roots, !.scope = t, !.at = "top"]
<1>1. Sound(m, p, tree, partial) /\ m.at = "import"
  BY DEF BInv, Import, At
<1>2. m.lease \in Deployments /\ tree[m.lease] = Whole(m.lease)
  BY <1>1 DEF Sound, Shape, Placed
<1>3. /\ Sound(m, p, tree, partial) /\ m.at = "import" /\ m.lease \in Deployments
      /\ tree[m.lease].of = m.lease
  BY <1>1, <1>2 DEF Whole
<1>4. t \in Tokens /\ m.lease # None
  BY <1>3, TokenOf
<1>5. proc' = [proc EXCEPT ![p] = n] /\ UNCHANGED <<tree, partial>>
  BY <1>3 DEF Import, Lease, disk, BInv
<1>6. roots \in [Tokens -> Bundle] /\ roots[t] = m.lease
  BY <1>3, <1>4 DEF Sound, Shape, Bundle
<1>7. \A u \in Tokens : u # t => roots[u] = m.roots[u]
  BY <1>3 DEF Sound, Shape
<1> HIDE DEF roots
<1>8. Shape(n)
  BY <1>3, <1>6 DEF Sound, Shape
<1>9. /\ n.at = "top" /\ n.lease = m.lease /\ n.resident = m.resident /\ n.roots = roots
      /\ n.beside = m.beside /\ n.scope = t /\ n.got = m.got
      /\ n.named = m.named /\ n.below = m.below /\ n.first = m.first
  BY <1>3 DEF Sound, Shape
<1>10. \A d \in m.resident : Token(d) \in Tokens
  BY <1>3, TokenOf DEF Sound, Shape
<1>11. Rooted(n)
  BY <1>3, <1>4, <1>6, <1>7, <1>9, <1>10 DEF Sound, Rooted
<1>12. Scoped(n) /\ Kept(n) /\ Placed(n, p, tree', partial')
  BY <1>3, <1>4, <1>6, <1>9 DEF Sound, Scoped, Kept, Placed
<1>13. QED BY <1>5, <1>8, <1>11, <1>12, StepKeeps DEF BInv, Sound, Appears

LEMMA BodyKeeps ==
  ASSUME BInv, NEW p \in Procs, Body(p)
  PROVE  BInv' /\ Appears
<1> DEFINE m == proc[p]
           t == Token(m.lease)
           n == [m EXCEPT !.scope = t, !.at = "runs"]
<1>1. Sound(m, p, tree, partial) /\ m.at = "body"
  BY DEF BInv, Body, At
<1>2. proc' = [proc EXCEPT ![p] = n] /\ UNCHANGED <<tree, partial>>
  BY <1>1 DEF Body, Lease, disk, BInv
<1>3. Shape(n)
  BY <1>1 DEF Sound, Shape, Bundle
<1>4. /\ n.at = "runs" /\ n.lease = m.lease /\ n.scope = t
      /\ n.beside = m.beside /\ n.got = m.got /\ Remembers(n, m)
  BY <1>1 DEF Sound, Shape, Remembers
<1>5. Rooted(n) /\ Scoped(n) /\ Kept(n) /\ Placed(n, p, tree', partial')
  BY <1>1, <1>4, Remembered DEF Sound, Rooted, Scoped, Placed, Remembers
<1>6. QED BY <1>2, <1>3, <1>5, StepKeeps DEF BInv, Sound, Appears

\* The package of a scope: of the token that the finder serves.
LEMMA BesideOwn ==
  ASSUME NEW m, Shape(m), Rooted(m), Scoped(m), m.at \in {"top", "runs"}
  PROVE  /\ m.lease \in Deployments /\ m.scope = Token(m.lease) /\ m.scope \in Tokens
         /\ Beside(m) \in Deployments /\ Token(Beside(m)) = m.scope
<1>1. /\ m.lease \in Deployments /\ m.scope = Token(m.lease) /\ m.scope \in Tokens
      /\ m.roots[m.scope] \in Deployments /\ Token(m.roots[m.scope]) = m.scope
  BY TokenOf DEF Shape, Scoped, Rooted, Bundle
<1>2. QED BY <1>1 DEF Beside, Scoped, Shape, Bundle

\* An import that adds modules of the scope's token, or none, and returns one of its owner.
LEMMA GetsKeeps ==
  ASSUME BInv, NEW p \in Procs, NEW n, UNCHANGED <<tree, partial>>,
         proc' = [proc EXCEPT ![p] = n], proc[p].at \in {"top", "runs"},
         Shape(n), Kept(n), n.at = proc[p].at, n.lease = proc[p].lease,
         n.scope = proc[p].scope, n.resident = proc[p].resident, n.roots = proc[p].roots,
         n.beside \in {proc[p].beside, Beside(proc[p])}, Token(n.got.of) = Owner(n)
  PROVE  BInv' /\ Appears
<1> DEFINE m == proc[p]
<1>1. Sound(m, p, tree, partial)
  BY DEF BInv
<1>2. Token(Beside(m)) = m.scope
  BY <1>1, BesideOwn DEF Sound
<1>3. Rooted(n) /\ Scoped(n) /\ Placed(n, p, tree', partial')
  BY <1>1, <1>2 DEF Sound, Rooted, Scoped, Placed
<1>4. QED BY <1>3, StepKeeps DEF BInv, Sound, Appears

LEMMA ImportBesideKeeps ==
  ASSUME BInv, NEW p \in Procs, ImportBeside(p)
  PROVE  BInv' /\ Appears
<1> DEFINE m == proc[p]
           b == Beside(m)
<1>1. Shape(m) /\ Rooted(m) /\ Scoped(m) /\ Kept(m) /\ m.at \in {"top", "runs"}
  BY DEF BInv, ImportBeside, Sound
<1>2. UNCHANGED <<tree, partial>>
  BY DEF ImportBeside, disk
<1>3. /\ m.lease \in Deployments /\ m.scope = Token(m.lease) /\ m.scope \in Tokens
      /\ b \in Deployments /\ Token(b) = m.scope /\ b # None
  BY <1>1, BesideOwn, TokenOf
<1> HIDE DEF b
<1>4. CASE proc' = [proc EXCEPT ![p] = Imported(m)]
  <2> DEFINE n == Imported(m)
  <2>1. n = [m EXCEPT !.beside = b, !.got = [way |-> "beside", of |-> b]]
    BY DEF Imported, b
  <2> HIDE DEF n
  <2>2. Shape(n)
    BY <1>1, <1>3, <2>1 DEF Shape, Bundle, Ways
  <2>3. /\ n.at = m.at /\ n.lease = m.lease /\ n.scope = m.scope /\ n.beside = b
        /\ n.got = [way |-> "beside", of |-> b] /\ Remembers(n, m)
    BY <1>1, <2>1 DEF Shape, Remembers
  <2>4. Kept(n) /\ Token(n.got.of) = Owner(n) /\ n.beside = Beside(m)
    BY <1>1, <1>3, <2>3, Remembered DEF Owner, b
  <2>5. QED BY <1>1, <1>2, <1>4, <2>2, <2>3, <2>4, GetsKeeps DEF n, Remembers
<1>5. CASE proc' = [proc EXCEPT ![p] = ImportedRelative(m)]
  <2> DEFINE n == ImportedRelative(m)
             sub == IF m.named[m.scope] = None THEN b ELSE m.named[m.scope]
             named == [m.named EXCEPT ![m.scope] = sub]
  <2>1. n = [m EXCEPT !.beside = b, !.named = named, !.got = [way |-> "relative", of |-> sub]]
    BY <1>1 DEF ImportedRelative, b, Shape
  <2>2. sub \in Deployments /\ Token(sub) = m.scope /\ sub \in Bundle
    BY <1>1, <1>3 DEF Shape, Kept, Bundle
  <2>3. /\ named \in [Tokens -> Bundle]
        /\ \A t \in Tokens : named[t] # None => Token(named[t]) = t
    BY <1>1, <1>3, <2>2 DEF Shape, Kept
  <2> HIDE DEF n, sub, named
  <2>4. Shape(n)
    BY <1>1, <1>3, <2>1, <2>2, <2>3 DEF Shape, Bundle, Ways
  <2>5. /\ n.at = m.at /\ n.lease = m.lease /\ n.scope = m.scope /\ n.beside = b
        /\ n.resident = m.resident /\ n.roots = m.roots /\ n.named = named
        /\ n.below = m.below /\ n.first = m.first /\ n.got = [way |-> "relative", of |-> sub]
    BY <1>1, <2>1 DEF Shape
  <2>6. Kept(n) /\ Token(n.got.of) = Owner(n) /\ n.beside = Beside(m)
    BY <1>1, <1>3, <2>2, <2>3, <2>5 DEF Kept, Owner, b
  <2>7. QED BY <1>1, <1>2, <1>5, <2>4, <2>5, <2>6, GetsKeeps DEF n
<1>6. CASE proc' = [proc EXCEPT ![p] = ImportedDotted(m)] /\ m.below = None
  <2> DEFINE n == ImportedDotted(m)
  <2>1. n = [m EXCEPT !.beside = b, !.below = b, !.first = m.scope,
                      !.got = [way |-> "dotted", of |-> b]]
    BY <1>6 DEF ImportedDotted, b
  <2> HIDE DEF n
  <2>2. Shape(n)
    BY <1>1, <1>3, <2>1 DEF Shape, Bundle, Ways
  <2>3. /\ n.at = m.at /\ n.lease = m.lease /\ n.scope = m.scope /\ n.beside = b
        /\ n.resident = m.resident /\ n.roots = m.roots /\ n.named = m.named
        /\ n.below = b /\ n.first = m.scope /\ n.got = [way |-> "dotted", of |-> b]
    BY <1>1, <2>1 DEF Shape
  <2>4. Kept(n) /\ Token(n.got.of) = Owner(n) /\ n.beside = Beside(m)
    BY <1>1, <1>3, <2>3 DEF Kept, Owner, b
  <2>5. QED BY <1>1, <1>2, <1>6, <2>2, <2>3, <2>4, GetsKeeps DEF n
<1>7. CASE proc' = [proc EXCEPT ![p] = ImportedDotted(m)] /\ m.below # None
  <2> DEFINE n == ImportedDotted(m)
  <2>1. n = [m EXCEPT !.got = [way |-> "dotted", of |-> m.below]]
    BY <1>7 DEF ImportedDotted
  <2> HIDE DEF n
  <2>2. Shape(n)
    BY <1>1, <2>1 DEF Shape, Bundle, Ways
  <2>3. /\ n.at = m.at /\ n.lease = m.lease /\ n.scope = m.scope /\ n.beside = m.beside
        /\ n.got = [way |-> "dotted", of |-> m.below] /\ Remembers(n, m)
    BY <1>1, <2>1 DEF Shape, Remembers
  <2>4. Kept(n) /\ Token(n.got.of) = Owner(n)
    BY <1>1, <1>7, <2>3, Remembered DEF Kept, Owner, Remembers
  <2>5. QED BY <1>1, <1>2, <1>7, <2>2, <2>3, <2>4, GetsKeeps DEF n, Remembers
<1>8. QED BY <1>4, <1>5, <1>6, <1>7 DEF ImportBeside

LEMMA LoadedKeeps ==
  ASSUME BInv, NEW p \in Procs, Loaded(p)
  PROVE  BInv' /\ Appears
<1> DEFINE m == proc[p]
           resident == m.resident \cup {m.lease}
           n == [ScopeEnded(m) EXCEPT !.at = "body", !.resident = resident]
<1>1. Sound(m, p, tree, partial) /\ m.at = "top" /\ m.lease \in Deployments
  BY DEF BInv, Loaded, At, Sound, Shape
<1>2. proc' = [proc EXCEPT ![p] = n] /\ UNCHANGED <<tree, partial>>
  BY DEF Loaded, Lease, disk
<1>3. Shape(n)
  BY <1>1 DEF Sound, Shape, Bundle, ScopeEnded, NothingGot, Ways
<1>4. /\ n.at = "body" /\ n.lease = m.lease /\ n.resident = resident /\ n.roots = m.roots
      /\ n.beside = None /\ n.got.of = None
      /\ n.named = m.named /\ n.below = m.below /\ n.first = m.first
  BY <1>1 DEF Sound, Shape, ScopeEnded, NothingGot
<1>5. m.roots[Token(m.lease)] # None
  BY <1>1 DEF Sound, Scoped
<1>6. Rooted(n) /\ Scoped(n) /\ Kept(n) /\ Placed(n, p, tree', partial')
  BY <1>1, <1>4, <1>5 DEF Sound, Rooted, Scoped, Kept, Placed
<1>7. QED BY <1>2, <1>3, <1>6, StepKeeps DEF BInv, Sound, Appears

LEMMA LeavesKeeps ==
  ASSUME BInv, NEW p \in Procs, LoadFails(p) \/ BodyEnds(p)
  PROVE  BInv' /\ Appears
<1> DEFINE m == proc[p]
           n == Left(m)
<1>1. Sound(m, p, tree, partial)
  BY DEF BInv
<1>2. proc' = [proc EXCEPT ![p] = n] /\ UNCHANGED <<tree, partial>>
  BY DEF LoadFails, BodyEnds, disk, BInv
<1>3. /\ n.at = "poll" /\ n.lease = None /\ n.beside = None
      /\ n.got \in [way : Ways, of : {None}] /\ Remembers(n, m)
  BY <1>1 DEF Sound, Shape, Left, ScopeEnded, NothingGot, Ways, Remembers
<1> HIDE DEF n
<1>4. Sound(n, p, tree', partial')
  BY <1>1, <1>3, Polls DEF Sound
<1>5. QED BY <1>2, <1>4, StepKeeps DEF BInv, Appears

-----------------------------------------------------------------------------
(* The theorems. *)

\* Every step keeps the invariant, and lets no directory appear but a whole one.
LEMMA NextKeeps ==
  ASSUME BInv, [BundlesNext]_vars
  PROVE  BInv' /\ Appears
<1>1. CASE UNCHANGED vars
  BY <1>1 DEF BInv, Appears, vars
<1>2. ASSUME NEW p \in Procs, NEW d \in Deployments, Take(p, d) PROVE BInv' /\ Appears
  BY <1>2, TakeKeeps
<1>3. ASSUME NEW p \in Procs, Ensures(p) PROVE BInv' /\ Appears
  BY <1>3, EnsureKeeps, ExtractKeeps, SealKeeps, RenameKeeps DEF Ensures
<1>4. ASSUME NEW p \in Procs, Runs(p) PROVE BInv' /\ Appears
  BY <1>4, ImportKeeps, BodyKeeps, ImportBesideKeeps, LoadedKeeps, LeavesKeeps DEF Runs
<1>5. ASSUME NEW p \in Procs, Killed(p) PROVE BInv' /\ Appears
  BY <1>5, KilledKeeps
<1>6. QED BY <1>1, <1>2, <1>3, <1>4, <1>5 DEF BundlesNext

\* The directories and what each process has of them, in every state.
THEOREM BInvInductive == BundlesSpec => []BInv
<1>1. BundlesInit => BInv
  <2>1. ASSUME BundlesInit PROVE BInv
    <3>1. ASSUME NEW p \in Procs PROVE Sound(proc[p], p, tree, partial)
      BY <2>1 DEF BundlesInit, Fresh, NothingGot, Ways, Sound, Shape, Rooted, Scoped, Kept,
                  Placed, Bundle
    <3>2. QED BY <2>1, <3>1 DEF BundlesInit, BInv
  <2>2. QED BY <2>1
<1>2. BInv /\ [BundlesNext]_vars => BInv'
  BY NextKeeps
<1>3. QED BY <1>1, <1>2, PTL DEF BundlesSpec

\* Whoever is killed half-way, and whether or not the lock works, a directory appears once
\* and whole, and never changes.
THEOREM DirectoriesOnceAndWhole == BundlesSpec => OnceAndWhole
<1>1. BInv /\ [BundlesNext]_vars =>
        [\A d \in Deployments : tree'[d] # tree[d] =>
           tree[d] = NoTree /\ tree'[d] = Whole(d)]_vars
  BY NextKeeps DEF Appears
<1>2. QED BY <1>1, BInvInductive, PTL DEF BundlesSpec, OnceAndWhole

\* Whatever a process has run before, what its lease's code imports top-level or relative to
\* a package is of its own token, and what it imports by a dotted name is of the token of the
\* first scope that asked for that, which is its own if no other was before it.
THEOREM AlwaysItsOwnCode == BundlesSpec => []RunsItsOwnCode
<1>1. BInv => RunsItsOwnCode
  BY DEF BInv, Sound, Scoped, RunsItsOwnCode
<1>2. QED BY <1>1, BInvInductive, PTL
================================================================================

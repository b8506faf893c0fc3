--------------------------- MODULE MCMediaManager ---------------------------
(* TLC instances of the media manager.                                     *)
EXTENDS MediaManager, TLC, FiniteSets

\* Bounds of the exploration: the kernel refuses once; and of blocks, bindings and
\* cameras, which no operation relates, only one kind is in use at a time.
Bounded ==
  /\ Cardinality(keptBlocks) + Cardinality(keptMaps)
       + Cardinality(keptLinks) + Cardinality(keptDevs) <= 1
  /\ Cardinality({held \cup mapped, bound, running} \ {{}}) <= 1

\* late is read by DeinitReleases only.
NotLate == <<vbVars, call, handle, lists, returned, deleted, twice, lost>>

Symmetry == Permutations(Thread) \cup Permutations(Block) \cup Permutations(Obj) \cup Permutations(Link)
=============================================================================

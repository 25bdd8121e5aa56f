--------------------------- MODULE AtomicCatalog ---------------------------
(***************************************************************************)
(* What the operations on the catalog of the provider Self promise: each   *)
(* takes effect at once.  InfoNetwork is written with the same operators;  *)
(* CatalogThreads takes them apart into the accesses the code makes.       *)
(***************************************************************************)
EXTENDS Catalog

CONSTANT Self

VARIABLE c

Init ==
  \E listed \in [Function -> Count \cup {Absent}], asked \in [Function -> Count] :
    c = initSelfCatagory(Self, listed, asked)

\* A delete of a function outside FunctionCatalog panics half-way.
DeleteOrPanic(f) ==
  c' = IF c.functionCatalog[f] = Absent
       THEN deleteAvailableFunctions(c, Self, f)
       ELSE DeleteAvailableFunctions(c, Self, f)

Next ==
  \/ \E f \in Function, n \in Count :
       \/ c' = AddAvailableFunctions(c, Self, f, n)
       \/ c.available[Self][f] > 0 /\ c' = UpdateAvailableFunctions(c, Self, f, n)
  \/ \E f \in Function : DeleteOrPanic(f)
  \/ \E q \in Provider \ {Self} :
       \/ c' = NewNodeCatalogEntry(c, q)
       \/ \E m \in NodeInfoMsg :
            c' = unpackNodeInfoMsg(NewNodeCatalogEntry(c, q), m, q)

Spec == Init /\ [][Next]_c
=============================================================================

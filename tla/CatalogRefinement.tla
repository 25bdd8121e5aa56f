------------------------- MODULE CatalogRefinement -------------------------
(***************************************************************************)
(* The accesses of CatalogThreads and the operations of AtomicCatalog.     *)
(* The refinement maps the catalog to what it was when all goroutines were *)
(* last idle.                                                              *)
(***************************************************************************)
EXTENDS CatalogThreads

\* Until two operations overlap, the accesses add up to the operations of Catalog:
\* from one quiet state to the next the maps take a step of AtomicCatalog.
Atomic == INSTANCE AtomicCatalog WITH c <- settled
AtomicSpec == Atomic!Init /\ [][overlapped' \/ Atomic!Next]_settled
=============================================================================

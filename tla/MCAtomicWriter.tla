--------------------------- MODULE MCAtomicWriter ---------------------------
(***************************************************************************)
(* Instance of AtomicWriter: one writer, as in the extractor's one thread. *)
(***************************************************************************)
EXTENDS AtomicWriter
============================================================================

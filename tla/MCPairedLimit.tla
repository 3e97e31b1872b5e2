--------------------------- MODULE MCPairedLimit ---------------------------
(* Model checking of PairedLimit; the constants are in the .cfg files. *)
EXTENDS PairedLimit
=============================================================================

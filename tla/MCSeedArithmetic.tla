--------------------------- MODULE MCSeedArithmetic ---------------------------
(* Scaled widths for TLC: int of 4 bits, size_t of 8, modulus 7. *)
EXTENDS SeedArithmetic
=============================================================================

------------------------------ MODULE MCAccess ------------------------------
(****************************************************************************)
(* Six words: NULL, a mapped one, the dummy region of two words, a mapped   *)
(* neighbour, and one that is not mapped.                                   *)
(****************************************************************************)
EXTENDS Access

\* kdf_virt_addr_valid: exactly the mapped words; fewer (a mapping outside the
\* linear one); every word (the weak definition in kspecem_kdf.c).
AllValidities == {Mapped, Mapped \ {1}, Words}
=============================================================================

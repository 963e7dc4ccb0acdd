--------------------------- MODULE MCAddressSpace ----------------------------
(* Model checking of AddressSpace. *)
EXTENDS AddressSpace, TLC

CONSTANTS p1, p2, p3

\* PCBs are interchangeable: no action orders them.
PcbSymmetry == Permutations(Procs)

=============================================================================

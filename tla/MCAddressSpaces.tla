-------------------------- MODULE MCAddressSpaces --------------------------
(***************************************************************************)
(* A small machine for AddressSpaces: the addresses equal to physical ones *)
(* are the low pages, with the program and its heap among them, mmap and   *)
(* stack above.                                                            *)
(***************************************************************************)
EXTENDS AddressSpaces

MCKernelRanges == {[start |-> 1, end |-> 2], [start |-> 2, end |-> 4]}
MCImage == <<<<1, FALSE>>>>
=============================================================================

------------------------------ MODULE MCListing ------------------------------
(* Small instances of Listing for TLC. *)
EXTENDS Listing

CONSTANTS i1, i2, i3, i4, i5

FiveIds == <<i1, i2, i3, i4, i5>>
TwoProviders == [i \in {i1, i2, i3, i4, i5} |-> IF i = i3 THEN 1 ELSE 2]
=============================================================================

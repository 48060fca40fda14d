--------------------------- MODULE MCAddressFilter ---------------------------
(* Model-checking instance of AddressFilter: bytes of three values, so     *)
(* that an address has four digits to base three and half of them are      *)
(* beyond a long.                                                          *)
EXTENDS AddressFilter
=============================================================================

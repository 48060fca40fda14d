--------------------------- MODULE MCRemoteGetter ---------------------------
(* Model-checking instance of AddressFilter and RemoteGetter: bytes of     *)
(* three values, so that an address has four digits to base three and half *)
(* of them are beyond a long; process ids of which one digit to base two   *)
(* is read.                                                                *)
EXTENDS RemoteGetter
=============================================================================

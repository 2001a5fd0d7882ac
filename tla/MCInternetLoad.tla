--------------------------- MODULE MCInternetLoad ---------------------------
(***************************************************************************)
(* One worker of each mode: no limit and two limits, a body of a whole     *)
(* chunk and a piece, and a program that ends by itself or by Ctrl+C.      *)
(***************************************************************************)
EXTENDS InternetLoad

MCRates == {0, 3, 4}
=============================================================================

---------------------------- MODULE MCLocalstore ----------------------------
(* The local store for TLC: three chunks, of which two have the same stamp index. *)
EXTENDS Localstore

Indexes == <<0, 1, 1>>
Times == <<1, 1, 2>>
Bins == <<1, 0, 1>>
=============================================================================

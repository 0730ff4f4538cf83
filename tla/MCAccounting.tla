---------------------------- MODULE MCAccounting ----------------------------
(* Two peers for TLC; requests are numbered, those of peer 2 from 10 on.        *)
EXTENDS Accounting

FromWhom == [r \in Request |-> IF r < 10 THEN 1 ELSE 2]
Prices == [r \in Request |-> IF r = 2 THEN 3 ELSE 2]
=============================================================================

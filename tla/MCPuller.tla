------------------------------ MODULE MCPuller ------------------------------
(* A small instance of Puller.                                                  *)
EXTENDS Puller

FirstOrNone == {{}, {1}}
=============================================================================

------------------------------ MODULE MCLzhTree -----------------------------
(* Four codes, seven nodes; a root of 11 is rebuilt after seven codes at   *)
(* first and after five or so from then on.                                *)
EXTENDS LzhTree
=============================================================================

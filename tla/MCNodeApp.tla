------------------------------- MODULE MCNodeApp -------------------------------
(* Two processes that are started on one directory again and again, and two    *)
(* callers.                                                                    *)
EXTENDS NodeApp
=============================================================================

---------------------------- MODULE MCCodePages ----------------------------
(* CodePages with the runner alone on the page.                            *)
EXTENDS CodePages
=============================================================================

--------------------------- MODULE MCProjectPage ---------------------------
(* Two stages with scripts, and FINALIZE; two answers may cross.            *)
EXTENDS ProjectPage, TLC

CONSTANTS first, second
=============================================================================

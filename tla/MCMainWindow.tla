---------------------------- MODULE MCMainWindow ----------------------------
(* A small instance of MainWindow for TLC: a directory with an entry in it,   *)
(* below the root.                                                            *)
EXTENDS MainWindow

CONSTANTS a, b

MCPath == {<< >>, <<a>>, <<a, b>>}

\* What tells states apart: no step and no property reads what the status line says.
AllButMode == <<viewVars, buttonVars, watchLimitReported, pending, crashed, limitHit>>
=============================================================================

--------------------------- MODULE MCSpaceWatcher ---------------------------
(* A small instance of SpaceWatcher for TLC: the watched directory and two    *)
(* others, which may lie in it, beside or below each other.                   *)
EXTENDS SpaceWatcher

CONSTANTS r, d, e, a, b

MCDir == {r, d, e}
MCPath == {<< >>, <<a>>, <<b>>, <<a, b>>, <<b, a>>}
=============================================================================

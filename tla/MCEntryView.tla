----------------------------- MODULE MCEntryView -----------------------------
(* A small instance of EntryView for TLC: a window, and one that is too small *)
(* for more than the title.                                                   *)
EXTENDS EntryView

MCRect == [x : {0}, y : {0}, w : {300}, h : {345, 24}]
=============================================================================

--------------------------- MODULE MCSpaceScanner ---------------------------
(* Small instances of SpaceScanner for TLC.                                   *)
EXTENDS SpaceScanner, ScanQueueLoops

CONSTANTS a, b

MCName == {a, b}

\* a directory with a subdirectory, and one beside it
Branch == {<< >>, <<a>>, <<a, b>>, <<b>>}

NoneExcluded == {}
MCExcluded == {<<b>>}

-----------------------------------------------------------------------------
(* What comments and tests say of the scanner, and the code does not do. Each *)
(* is the property of a run of its own that shows how.                        *)

\* tests/ScannerTest.cpp: when the scanner is at rest as many directories are
\* watched as the database has (of those the scanner may enter): one that was
\* found was scanned.
FoundDirsScanned == Settled => {d \in db \intersect disk : ~ IsExcluded(d)} \subseteq watched

\* spacescanner.cpp, rescanPath: the path is pushed to the front, "so we start
\* rescanning as soon as possible": only a scan that is to stop drops requests.
RescanKept == [][Finish /\ scanQueue # << >> => scannerStatus = "STOPPING"]_vars
=============================================================================

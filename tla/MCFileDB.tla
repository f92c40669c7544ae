------------------------------- MODULE MCFileDB -------------------------------
(* A small instance of FileDB for TLC, and a claim that the code does not     *)
(* keep.                                                                      *)
EXTENDS FileDB

CONSTANTS a, f

MCName == {a, f}
MCBit == {a}
MCKind == [n \in MCName |-> {n = a}]

\* All names have one CRC, so that the paths with an odd number of names share a
\* bucket: a directory and a file beside it, and what lies two levels below them.
MCCollision == [n \in MCName |-> {a}]

\* directories of one name in each other, with files beside and below them
Nested == {<< >>, <<a>>, <<f>>, <<a, a>>, <<a, f>>, <<a, a, a>>, <<a, a, a, a>>, <<a, a, a, f>>}

-----------------------------------------------------------------------------

\* filedb.cpp, _findEntry: "for each possible entry check its name and names of all
\* parents that they are the same as in provided path", so that what is found for a
\* path is the entry of that path.
FindExact ==
    pc = "idle" => \A p \in Path : FindEntry(p) # None => FindEntry(p) = p
=============================================================================

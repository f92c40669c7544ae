------------------------------ MODULE MCFilePath ------------------------------
(* A small instance of FilePath for TLC: all short strings of two letters and *)
(* both slashes, and a CRC of two bits, so that different names collide.       *)
EXTENDS FilePath, FiniteSets

CONSTANTS a, b, MaxRootLen, MaxPathLen

Strings(chars, n) == UNION {[1..k -> chars] : k \in 0..n}

MCRootStr == Strings({Slash, Inverted, a}, MaxRootLen)
MCPathStr == Strings({Slash, Inverted, a}, MaxPathLen)
MCName == {<< >>, <<a>>, <<b>>, <<a, b>>, <<Inverted>>}

\* bit 0: how many letters a; bit 1: whether there is a b or a slash
MCCrc(s) == {x \in {0} : Cardinality({i \in DOMAIN s : s[i] = a}) % 2 = 1}
            \union {x \in {1} : Range(s) \intersect {b, Slash} # {}}
=============================================================================

------------------------------- MODULE FilePath -------------------------------
(* FilePath (lib/src/filepath.cpp): a path split into its root and the names  *)
(* below it, each with its slash, and the CRC up to each of them. A path is   *)
(* made of strings, here sequences of characters, of which only the slashes   *)
(* matter; it is changed by its operations, copied, and compared with others. *)
(* Definitions marked "Fault:" are variants of the one below them.            *)
EXTENDS Integers, SequencesExt, Sublists

CONSTANTS Slash, Inverted,      \* PlatformUtils' separators
          Letter,               \* the other characters
          Name,                 \* names of files and directories
          RootStr, PathStr,     \* strings given to the constructors
          Bits,                 \* of a CRC, which is the set of those that are 1
          Crc(_),               \* Utils::strCrc16
          NoPath,
          MaxParts              \* bound: parts of a path

Char == {Slash, Inverted} \union Letter

ASSUME PathAssumption ==
    /\ Slash # Inverted /\ {Slash, Inverted} \intersect Letter = {}
    /\ Name \subseteq Seq(Char \ {Slash})
    /\ RootStr \subseteq Seq(Char) /\ PathStr \subseteq Seq(Char)
    /\ \A s \in RootStr \union PathStr \union Name : Crc(s) \subseteq Bits

VARIABLES path,         \* a FilePath: its parts and their CRCs
          other,        \* another one, copied from it before
          thrown,       \* the last call ended in std::invalid_argument
          relative      \* history: which of the two makeRelativeTo has changed

vars == <<path, other, thrown, relative>>

Init == path = NoPath /\ other = NoPath /\ thrown = FALSE /\ relative = {}

Xor(x, y) == (x \ y) \union (y \ x)

-----------------------------------------------------------------------------
(* Strings.                                                                   *)

\* Fault: also that of a directory goes
NormalizeStrip(s, slashHandling) ==
    LET r == [i \in DOMAIN s |-> IF s[i] = Inverted THEN Slash ELSE s[i]]
        n == Max({1} \union {i \in DOMAIN r : r[i] # Slash})
    IN  IF Last(r) # Slash /\ slashHandling = "ADD" THEN Append(r, Slash) ELSE SubSeq(r, 1, n)

\* Slashes are made those of the platform; at the end there is one slash, or none.
Normalize(s, slashHandling) ==
    LET r == [i \in DOMAIN s |-> IF s[i] = Inverted THEN Slash ELSE s[i]]
        stripped == SubSeq(r, 1, Max({1} \union {i \in DOMAIN r : r[i] # Slash}))
    IN  CASE slashHandling = "REMOVE" -> stripped
          [] slashHandling = "ADD" ->
               IF Last(stripped) = Slash THEN stripped ELSE Append(stripped, Slash)

\* cut after each slash
Split(s) ==
    LET starts == {i \in DOMAIN s : i = 1 \/ s[i - 1] = Slash}
        end(i) == Min({j \in DOMAIN s : j >= i /\ (s[j] = Slash \/ j = Len(s))})
    IN  [k \in 1..Cardinality(starts) |->
            SubSeq(s, Nth(starts, k), end(Nth(starts, k)))]

WithoutSlash(part) == IF Last(part) = Slash THEN Front(part) ELSE part

-----------------------------------------------------------------------------
(* Constructors.                                                              *)

Throw == thrown' = TRUE /\ UNCHANGED <<path, other, relative>>

Make(p) ==
    /\ path' = p /\ thrown' = FALSE
    /\ relative' = relative \ {"path"}
    /\ UNCHANGED other

FromRoot(root) ==
    IF root = << >> THEN Throw
    ELSE Make([parts    |-> <<Normalize(root, "ADD")>>,
               pathCrcs |-> <<Crc(Normalize(root, "ADD"))>>])

\* Fault: the slash counts
CrcOfPartAll(part) == Crc(part)

CrcOfPart(part) == Crc(WithoutSlash(part))

\* The root keeps its slash in the CRC, the others do not.
FromString(str, root) ==
    LET isDir   == Last(str) \in {Slash, Inverted}
        newPath == Normalize(str, IF isDir THEN "ADD" ELSE "REMOVE")
        newRoot == Normalize(root, "ADD")
        below   == Split(SubSeq(newPath, Len(newRoot) + 1, Len(newPath)))
        crcs    == <<Crc(newRoot)>> \o [i \in DOMAIN below |-> CrcOfPart(below[i])]
    IN  IF ~ IsPrefix(newRoot, newPath) THEN NoPath
        ELSE [parts    |-> <<newRoot>> \o below,
              pathCrcs |-> [i \in DOMAIN crcs |-> FoldLeft(Xor, {}, SubSeq(crcs, 1, i))]]

FromPath(str, root) ==
    IF << >> \in {str, root} \/ FromString(str, root) = NoPath THEN Throw
    ELSE Make(FromString(str, root))

Copy == other' = path /\ thrown' = FALSE
        /\ relative' = (relative \ {"other"}) \union {x \in {"other"} : "path" \in relative}
        /\ UNCHANGED path

-----------------------------------------------------------------------------
(* What a path tells.                                                         *)

GetPath(p) == FlattenSeq(p.parts)
GetPathCrc(p) == Last(p.pathCrcs)
IsDir(p)   == Last(Last(p.parts)) = Slash
CanGoUp(p) == Len(p.parts) > 1
GetName(p) == IF CanGoUp(p) THEN WithoutSlash(Last(p.parts)) ELSE Last(p.parts)

\* Fault: equal CRCs are equal paths
CompareCrcs(p, q) ==
    IF Len(p.parts) < Len(q.parts)
    THEN IF q.pathCrcs[Len(p.parts)] = Last(p.pathCrcs) THEN "PARENT" ELSE "DIFFERENT"
    ELSE IF p.pathCrcs[Len(q.parts)] # Last(q.pathCrcs) THEN "DIFFERENT"
         ELSE IF Len(p.parts) = Len(q.parts) THEN "EQUAL" ELSE "CHILD"

\* The CRCs are compared first, those up to the end of the shorter one.
CompareTo(p, q) ==
    LET n == Min({Len(p.parts), Len(q.parts)})
    IN  CASE p.pathCrcs[n] # q.pathCrcs[n]                  -> "DIFFERENT"
          [] \E i \in 1..n : p.parts[i] # q.parts[i]        -> "DIFFERENT"
          [] OTHER -> IF Len(p.parts) < Len(q.parts) THEN "PARENT"
                      ELSE IF Len(p.parts) = Len(q.parts) THEN "EQUAL" ELSE "CHILD"

-----------------------------------------------------------------------------
(* What changes it.                                                           *)

Change(p) == path' = p /\ thrown' = FALSE /\ UNCHANGED <<other, relative>>

CanAdd(name) == name # << >> /\ IsDir(path)

\* addDir and addFile; the CRC given with the name is that of the name
Add(part, name) ==
    IF CanAdd(name)
    THEN Len(path.parts) < MaxParts
         /\ Change([parts    |-> Append(path.parts, part),
                    pathCrcs |-> Append(path.pathCrcs, Xor(Last(path.pathCrcs), Crc(name)))])
    ELSE Throw

AddDir(name)  == Add(Append(name, Slash), name)
AddFile(name) == Add(name, name)

GoUp ==
    IF CanGoUp(path)
    THEN Change([parts |-> Front(path.parts), pathCrcs |-> Front(path.pathCrcs)])
    ELSE Change(path)

From(s, n) == SubSeq(s, n + 1, Len(s))

MakeRelativeTo ==
    /\ NoPath \notin {path, other}
    /\ IF CompareTo(path, other) = "CHILD"
       THEN /\ path' = [parts    |-> From(path.parts, Len(other.parts)),
                        pathCrcs |-> From(path.pathCrcs, Len(other.parts))]
            /\ relative' = relative \union {"path"}
            /\ thrown' = FALSE /\ UNCHANGED other
       ELSE Change(path)

Next ==
    \/ /\ path \in {NoPath, other}       \* bound: not in the middle of other calls
       /\ \E root \in RootStr : FromRoot(root) \/ \E str \in PathStr : FromPath(str, root)
    \/ /\ path # NoPath
       /\ \/ \E name \in Name : AddDir(name) \/ AddFile(name)
          \/ GoUp \/ Copy
    \/ MakeRelativeTo

Spec == Init /\ [][Next]_vars

-----------------------------------------------------------------------------
(* Properties.                                                                *)

Paths == {p \in {path, other} : p # NoPath}
Absolute == {p \in Paths : \/ p = path /\ "path" \notin relative
                           \/ p = other /\ "other" \notin relative}

\* filepath.h: "Crc is calculated for each part of this path and then xor'ed together",
\* whichever way the path was made: the constructors and the operations agree on it.
\* A path made relative keeps the CRCs it had.
CrcsAgree ==
    \A p \in Absolute : \A i \in DOMAIN p.parts :
        p.pathCrcs[i] = FoldLeft(Xor, Crc(p.parts[1]),
                                 [j \in 1..(i - 1) |-> Crc(WithoutSlash(p.parts[j + 1]))])

\* Comparing CRCs first neither finds paths different that are not nor takes one for
\* another whose CRC is the same, in either direction.
CompareExact ==
    Absolute = Paths =>
    \A p, q \in Paths :
        CompareTo(p, q) = CASE p.parts = q.parts                -> "EQUAL"
                            [] IsStrictPrefix(p.parts, q.parts) -> "PARENT"
                            [] IsStrictPrefix(q.parts, p.parts) -> "CHILD"
                            [] OTHER                            -> "DIFFERENT"

\* A path that is turned into a string and made of it again is the same: so is the
\* path of a notification, which the watcher has as a string. Not if a name holds the
\* other platform's slash, or the string had two slashes in a row.
RoundTrip ==
    \A p \in Absolute :
        (\A i \in 2..Len(p.parts) : Inverted \notin Range(p.parts[i]) /\ p.parts[i] # <<Slash>>)
        => FromString(GetPath(p), p.parts[1]) = p
=============================================================================

------------------------------- MODULE FileTree -------------------------------
(* What FileDB promises its users (lib/include/filedb.h): a tree of files and *)
(* directories in which the children of a directory are replaced, at once, by *)
(* what a listing of it shows. FileDB implements it.                          *)
EXTENDS Integers, SequencesExt

CONSTANTS Name,     \* of files and directories
          Path,     \* sequences of names below the root, closed under Front
          Size,     \* of an entry by itself
          MayBe,    \* for each path, the entries that may be taken for its own
          None

VARIABLES tree,         \* what each path in the tree is
          hasChanges,   \* the tree changed since it was last looked at
          request       \* the path, its entry and the listing to be stored, or None

treeVars == <<tree, hasChanges, request>>

\* The size of a directory is here its own; what lies in it is added by FileDB.
Node == [dir : BOOLEAN, size : Size]

Root == << >>
Below(p) == {q \in Path : IsPrefix(p, q)}

\* A listing gives for each name that was found what it is.
Listing(p) ==
    UNION {[names -> Node] : names \in SUBSET {n \in Name : Append(p, n) \in Path}}

-----------------------------------------------------------------------------

\* What the listing does not have is gone with everything below it, and so is what
\* was a file and is a directory now, or the other way round.
Gone(p, listing) ==
    UNION {Below(q) : q \in {q \in DOMAIN tree :
        /\ q # Root /\ Front(q) = p
        /\ Last(q) \in DOMAIN listing => listing[Last(q)].dir # tree[q].dir}}

\* A directory that stays keeps what is in it and the size it had when it was
\* found; a file has the size listed.
Updated(p, listing) ==
    LET kept  == DOMAIN tree \ Gone(p, listing)
        given == {Append(p, n) : n \in DOMAIN listing}
    IN  [q \in kept \union given |->
            IF q \in kept /\ (q \in given => tree[q].dir)
              THEN tree[q] ELSE listing[Last(q)]]

TreeInit ==
    /\ tree = [q \in {Root} |-> [dir |-> TRUE, size |-> 0]]
    /\ hasChanges = TRUE
    /\ request = None

\* Someone asks that a listing be stored for path p, for which entry e is found
Request ==
    /\ request = None
    /\ \E p \in Path : \E e \in MayBe[p] \intersect DOMAIN tree :
         \E listing \in Listing(p) \intersect Listing(e) :
             request' = [path |-> p, entry |-> e, listing |-> listing]
    /\ UNCHANGED <<tree, hasChanges>>

SetChildrenForPath ==
    /\ request # None
    /\ tree' = Updated(request.entry, request.listing)
    /\ hasChanges' = TRUE
    /\ request' = None

ProcessEntry ==
    /\ request = None
    /\ hasChanges' = FALSE
    /\ UNCHANGED <<tree, request>>

TreeNext == Request \/ SetChildrenForPath \/ ProcessEntry

TreeSpec == TreeInit /\ [][TreeNext]_treeVars
=============================================================================

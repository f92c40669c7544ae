------------------------------ MODULE EntryView ------------------------------
(* FileEntryView and FileViewDB (app-gui/src/fileentryview.cpp,               *)
(* fileviewdb.cpp): the copy of a part of the database that is on screen and  *)
(* how the area is divided among files and directories by their sizes. Here   *)
(* the database is a directory "d" and files beside it and in it.             *)
(* Definitions marked "Fault:" are variants of the one below them.            *)
EXTENDS Sublists

CONSTANTS RootFile, DirFile,    \* names of files beside "d" and in it
          Size,                 \* sizes of files
          Space,                \* free and unknown space on the disk
          Depth, Rect,          \* depths of the view, rectangles on screen
          TitleHeight,
          MAX_CHILD_COUNT, MIN_CHILD_PIXEL_AREA

ASSUME LayoutAssumption ==
    /\ RootFile \intersect DirFile = {} /\ {"", "d"} \intersect (RootFile \union DirFile) = {}
    /\ Size \union Space \union Depth \subseteq Nat
    /\ Rect \subseteq [x : Nat, y : Nat, w : Nat \ {0}, h : Nat \ {0}]
    /\ {TitleHeight, MAX_CHILD_COUNT, MIN_CHILD_PIXEL_AREA} \subseteq Nat
    /\ MIN_CHILD_PIXEL_AREA >= 4

VARIABLES files,        \* FileDB: the files there are, with their sizes
          disk,         \* FileDB::getSpace: [free, unknown]
          \* members of FileViewDB and SpaceView
          viewPath, viewDepth, viewRect, show,
          rootFile      \* the views, by the way to them: the place among the views
                        \* beside it of each view on the way

vars == <<files, disk, viewPath, viewDepth, viewRect, show, rootFile>>

Area == [x : Int, y : Int, w : Int, h : Int]
NoArea == [x |-> 0, y |-> 0, w |-> 0, h |-> 0]
Abs(n) == IF n < 0 THEN - n ELSE n
SumOf(sizes, first, last) == Total(sizes, first .. last)

-----------------------------------------------------------------------------
(* The entries of the database, the biggest first. Which comes first of those *)
(* of one size depends on when they came, so any order is taken.              *)

Orders(entries) == {s \in SetToSeqs(entries) :
                      \A i, j \in DOMAIN s : i < j => s[i].size >= s[j].size}

FilesOf(names) ==
    {[name |-> f, kind |-> "FILE", size |-> files'[f], children |-> << >>]
       : f \in names \intersect DOMAIN files'}

Dirs(name, entries) ==
    {[name |-> name, kind |-> "DIRECTORY",
      size |-> Total([e \in entries |-> e.size], entries), children |-> order]
       : order \in Orders(entries)}

EntriesAt(path) ==
    LET ds == Dirs("d", FilesOf(DirFile))
    IN  IF path = << >> THEN UNION {Dirs("", FilesOf(RootFile) \union {d}) : d \in ds} ELSE ds

-----------------------------------------------------------------------------
(* The copy.                                                                  *)

\* Views that there were before are used again, in their order. Those of entries are
\* reset, those of free and unknown space keep their area until it is allocated.
AreaOf(old, i) == IF <<i>> \in DOMAIN old THEN old[<<i>>].area ELSE NoArea

\* While the loop of reconstruct_from goes on: the next view is one of unknown or of
\* free space, if it is bigger than the child and there is none yet, or of the child.
AddUnknown(acc, child, old) ==
    IF acc.unknown > child.size
    THEN [acc EXCEPT !.views = Append(@, [name |-> "", kind |-> "UNKNOWN_SPACE",
                                          size |-> acc.unknown, below |-> << >>,
                                          area |-> AreaOf(old, Len(@) + 1)]),
                     !.unknown = 0]
    ELSE acc
AddFree(acc, child, old) ==
    IF acc.free > child.size
    THEN [acc EXCEPT !.views = Append(@, [name |-> "", kind |-> "AVAILABLE_SPACE",
                                          size |-> acc.free, below |-> << >>,
                                          area |-> AreaOf(old, Len(@) + 1)]),
                     !.free = 0]
    ELSE acc
AddEntry(acc, child) ==
    [acc EXCEPT !.views = Append(@, [name |-> child.name, kind |-> child.kind,
                                     size |-> child.size, below |-> child.children,
                                     area |-> NoArea])]

\* One round: a child that is too small, or one too many, ends the loop. It ends here
\* too: those after it are no bigger, and there are still too many.
CopyRound(acc, child, options, old) ==
    IF Len(acc.views) >= MAX_CHILD_COUNT \/ child.size < options.minSize THEN acc
    ELSE AddEntry(AddFree(AddUnknown(acc, child, old), child, old), child)

\* reconstruct_from: the children from the biggest on
Reconstruct(entries, options, old) ==
    LET after[n \in 0 .. Len(entries)] ==
            IF n = 0 THEN [views |-> << >>, unknown |-> options.unknown, free |-> options.free]
            ELSE CopyRound(after[n - 1], entries[n], options, old)
    IN  IF options.nestLevel > 0 THEN after[Len(entries)].views ELSE << >>

-----------------------------------------------------------------------------
(* The areas.                                                                 *)

NoRoom(rect) == rect.w < 1 \/ rect.h < 1

Shown(rect) == IF NoRoom(rect) THEN [rect EXCEPT !.w = 0, !.h = 0] ELSE rect

\* the last of the children start..end that comes into the first half: it grows while
\* that makes the halves more alike
FirstHalf(sizes, start, end) ==
    LET Difference(k) == Abs(SumOf(sizes, k + 1, end) - SumOf(sizes, start, k))
    IN  Max({start} \union {k \in start + 1 .. end :
                \A i \in start + 1 .. k : Difference(i) < Difference(i - 1)})

\* in an area of few pixels only the first two; the division is one of integers
Kept(sizes, start, end, rect) ==
    LET minSize == SumOf(sizes, start, end) * (MIN_CHILD_PIXEL_AREA \div (rect.w * rect.h))
    IN  Min({end} \union {i - 1 : i \in {j \in start + 2 .. end : sizes[j] < minSize}})

\* Fault: the share of the other half
PartOfOther(side, sum1, sum) ==
    IF sum = 0 THEN side \div 2 ELSE (side * (sum - sum1)) \div sum

Part(side, sum1, sum) == IF sum = 0 THEN side \div 2 ELSE (side * sum1) \div sum

\* Fault: both halves are rounded down
HalvesRounded(sizes, start, k, end, rect) ==
    LET sum1 == SumOf(sizes, start, k)
        sum2 == SumOf(sizes, k + 1, end)
        w    == Part(rect.w, sum1, sum1 + sum2)
        h    == Part(rect.h, sum1, sum1 + sum2)
    IN  IF rect.w >= rect.h
        THEN <<[rect EXCEPT !.w = w],
               [rect EXCEPT !.x = @ + w, !.w = Part(@, sum2, sum1 + sum2)]>>
        ELSE <<[rect EXCEPT !.h = h],
               [rect EXCEPT !.y = @ + h, !.h = Part(@, sum2, sum1 + sum2)]>>

\* the two halves of the rectangle, side by side along its longer side
Halves(sizes, start, k, end, rect) ==
    LET sum1 == SumOf(sizes, start, k)
        sum  == SumOf(sizes, start, end)
        w    == Part(rect.w, sum1, sum)
        h    == Part(rect.h, sum1, sum)
    IN  IF rect.w >= rect.h
        THEN <<[rect EXCEPT !.w = w], [rect EXCEPT !.x = @ + w, !.w = @ - w]>>
        ELSE <<[rect EXCEPT !.h = h], [rect EXCEPT !.y = @ + h, !.h = @ - h]>>

\* allocate_children for n children from start on, where smaller is what it does for
\* fewer: without room they keep the areas they had
AllocateFrom(children, smaller, n, start, rect) ==
    LET sizes  == [i \in 1 .. Len(children) |-> children[i].size]
        end    == start + n - 1
        last   == Kept(sizes, start, end, rect)
        k      == FirstHalf(sizes, start, last)
        halves == Halves(sizes, start, k, last, rect)
        Half(from, to, half) == IF to > from THEN smaller[to - from + 1][from][half]
                                ELSE [i \in from .. to |-> Shown(half)]
    IN  [i \in start .. end |->
            IF NoRoom(rect) THEN children[i].area
            ELSE IF n = 1 THEN Shown(rect)
            ELSE IF i <= k THEN Half(start, k, halves[1])[i]
            ELSE IF i <= last THEN Half(k + 1, last, halves[2])[i]
            ELSE [children[i].area EXCEPT !.w = 0, !.h = 0]]

AllocateChildren(children, rect) ==
    LET N == Len(children)
        allocate[n \in 1 .. N] ==
            [start \in 1 .. N - n + 1 |->
                [area \in Area |-> AllocateFrom(children, allocate, n, start, area)]]
    IN  allocate[N][1][rect]

\* what the children of a view get: below its title, inside its frame
Inner(rect) == [x |-> rect.x + 2, y |-> rect.y + TitleHeight + 2,
                w |-> rect.w - 4, h |-> rect.h - TitleHeight - 4]

\* allocate_view: a view with what of it is shown, in its area, and with its children
AllocateView(view, options, old, rect) ==
    LET children == Reconstruct(view.below, options, old)
        tooSmall == children = << >> \/ rect.h < TitleHeight \/ rect.w < 1
    IN  [name |-> view.name, kind |-> view.kind, size |-> view.size, children |-> children,
         area |-> IF tooSmall THEN view.area ELSE rect,
         areas |-> IF tooSmall THEN [i \in DOMAIN children |-> children[i].area]
                   ELSE AllocateChildren(children, Inner(rect))]

\* The views one level further down: those of the children of the views above
LevelBelow(above, options) ==
    [way \in UNION {{Append(up, i) : i \in DOMAIN above[up].children} : up \in DOMAIN above} |->
        LET up == above[Front(way)]
            i  == Last(way)
        IN  AllocateView([up.children[i] EXCEPT !.area = up.areas[i]], options, << >>,
                         up.areas[i])]

\* The views with all below them, from the top, where level 0 is the root
Levels(entry, options, old, rect) ==
    LET root == [name |-> entry.name, kind |-> entry.kind, size |-> entry.size,
                 below |-> entry.children, area |-> NoArea]
        level[n \in 0 .. options.nestLevel] ==
            IF n = 0 THEN [way \in {<< >>} |-> AllocateView(root, options, old, rect)]
            ELSE LevelBelow(level[n - 1],
                            [options EXCEPT !.nestLevel = @ - n, !.free = 0, !.unknown = 0])
    IN  level

\* FileViewDB::update: the view of what is there now; entries of less than 7 by 7
\* pixels are left out
Update(old) ==
    \E entry \in EntriesAt(viewPath') :
        LET Included(kind) == IF kind \in show' /\ viewPath' = << >> THEN disk'[kind] ELSE 0
            total   == entry.size + Included("free") + Included("unknown")
            options == [nestLevel |-> viewDepth',
                        free |-> Included("free"), unknown |-> Included("unknown"),
                        minSize |-> (total * 49) \div (viewRect'.w * viewRect'.h)]
            level   == Levels(entry, options, old, viewRect')
        IN  rootFile' = [way \in UNION {DOMAIN level[n] : n \in 0 .. viewDepth'} |->
                           LET view == level[Len(way)][way]
                           IN  [name |-> view.name, kind |-> view.kind,
                                size |-> view.size, area |-> view.area]]

-----------------------------------------------------------------------------
(* The mouse, and the way back from a path.                                   *)

\* Fault: width for height
WithinSwapped(rect, x, y) == x - rect.x \in 0..rect.h /\ y - rect.y \in 0..rect.w

Within(rect, x, y) == x - rect.x \in 0..rect.w /\ y - rect.y \in 0..rect.h

ChildrenOf(way) == {w \in DOMAIN rootFile : w # << >> /\ Front(w) = way}

\* the views that are children of the one at a way and are at a pixel
Hit(way, x, y) == {w \in ChildrenOf(way) : Within(rootFile[w].area, x, y)}

IsFirst(w, ways) == w \in ways /\ \A v \in ways : Last(w) <= Last(v)

Above(way, n) == SubSeq(way, 1, n)

\* getHoveredView below the root: the way to the view that is at a pixel
Hovered(x, y) ==
    CHOOSE way \in DOMAIN rootFile :
        /\ \A n \in 1 .. Len(way) : IsFirst(Above(way, n), Hit(Above(way, n - 1), x, y))
        /\ Hit(way, x, y) = {}

BigEnough(rect) == rect.w > MIN_CHILD_PIXEL_AREA \div 5 /\ rect.h > MIN_CHILD_PIXEL_AREA \div 5

\* Fault: however small they are
NamedAny(way, name) == {w \in ChildrenOf(way) : rootFile[w].name = name}

Named(way, name) == {w \in ChildrenOf(way) : rootFile[w].name = name
                                             /\ BigEnough(rootFile[w].area)}

\* getClosestView: from the root down the path as far as there are views
Closest(names, maxDepth) ==
    CHOOSE way \in DOMAIN rootFile :
        /\ Len(way) <= Len(names) /\ Len(way) <= maxDepth
        /\ \A n \in 1 .. Len(way) : IsFirst(Above(way, n), Named(Above(way, n - 1), names[n]))
        /\ Len(way) < Len(names) /\ Len(way) < maxDepth => Named(way, names[Len(way) + 1]) = {}

-----------------------------------------------------------------------------

Init ==
    /\ files = << >> /\ disk = [free |-> 0, unknown |-> 0]
    /\ viewPath = << >> /\ viewDepth \in Depth /\ viewRect \in Rect
    /\ show = {"unknown"}
    /\ rootFile = [way \in {<< >>} |-> [name |-> "", kind |-> "DIRECTORY", size |-> 0,
                                        area |-> NoArea]]

\* Each change is followed by an update.
Stored(f, size) ==
    /\ files' = [g \in DOMAIN files \union {f} |-> IF g = f THEN size ELSE files[g]]
    /\ UNCHANGED <<disk, viewPath, viewDepth, viewRect, show>>
Removed(f) ==
    /\ files' = [g \in DOMAIN files \ {f} |-> files[g]]
    /\ UNCHANGED <<disk, viewPath, viewDepth, viewRect, show>>
SetSpace(free, unknown) ==
    /\ disk' = [free |-> free, unknown |-> unknown]
    /\ UNCHANGED <<files, viewPath, viewDepth, viewRect, show>>
SetView(path, depth, rect, spaces) ==
    /\ viewPath' = path /\ viewDepth' = depth /\ viewRect' = rect /\ show' = spaces
    /\ UNCHANGED <<files, disk>>

Change ==
    \/ \E f \in RootFile \union DirFile : Removed(f) \/ \E s \in Size : Stored(f, s)
    \/ \E free, unknown \in Space : SetSpace(free, unknown)
    \/ \E path \in {<< >>, <<"d">>} : SetView(path, viewDepth, viewRect, show)
    \/ \E depth \in Depth : SetView(viewPath, depth, viewRect, show)
    \/ \E rect \in Rect : SetView(viewPath, viewDepth, rect, show)
    \/ \E kind \in {"free", "unknown"} :
         SetView(viewPath, viewDepth, viewRect, SymDiff(show, {kind}))

Next == Change /\ Update(rootFile)

Spec == Init /\ [][Next]_vars

-----------------------------------------------------------------------------
(* Properties.                                                                *)

Pixels(rect) == rect.w * rect.h

Apart(r, s) == \/ Pixels(r) = 0 \/ Pixels(s) = 0
               \/ r.x + r.w <= s.x \/ s.x + s.w <= r.x
               \/ r.y + r.h <= s.y \/ s.y + s.h <= r.y

Inside(r, s) == \/ Pixels(r) = 0
                \/ /\ s.x <= r.x /\ r.x + r.w <= s.x + s.w
                   /\ s.y <= r.y /\ r.y + r.h <= s.y + s.h

HasRoom(way) == LET inner == Inner(rootFile[way].area)
                IN  ChildrenOf(way) # {} /\ ~ NoRoom(inner)

\* a view that has been given an area: there was room in all above it
LaidOut(way) == \A n \in 0 .. Len(way) - 1 : HasRoom(Above(way, n))

\* Every directory with room for its children is divided among them exactly: no two
\* overlap, none sticks out, and together they have all of its pixels, whatever is
\* rounded on the way.
AreaDivided ==
    \A way \in DOMAIN rootFile :
        LET inner  == Inner(rootFile[way].area)
            pixels == [w \in ChildrenOf(way) |-> Pixels(rootFile[w].area)]
        IN  HasRoom(way) =>
                /\ \A w \in ChildrenOf(way) : Inside(rootFile[w].area, inner)
                /\ \A v, w \in ChildrenOf(way) : v # w => Apart(rootFile[v].area, rootFile[w].area)
                /\ Total(pixels, ChildrenOf(way)) = Pixels(inner)

\* What is shown is where the mouse finds it: at a pixel inside its area it is hovered,
\* or one of its children.
HoverFinds ==
    \A way \in DOMAIN rootFile :
        LET area == rootFile[way].area
        IN  LaidOut(way) /\ area.w > 1 /\ area.h > 1 =>
                /\ Within(rootFile[<< >>].area, area.x + 1, area.y + 1)
                /\ IsPrefix(way, Hovered(area.x + 1, area.y + 1))

NamesOn(way) == [n \in DOMAIN way |-> rootFile[Above(way, n)].name]

\* From the path of an entry its view is found again if it and all above it are big
\* enough, and the last above it that is if not.
ClosestFound ==
    \A way \in DOMAIN rootFile :
        LET big == {n \in 0 .. Len(way) :
                      \A i \in 1 .. n : BigEnough(rootFile[Above(way, i)].area)}
        IN  rootFile[way].name # "" \/ way = << >> =>
                Closest(NamesOn(way), viewDepth) = Above(way, Max(big))

\* Areas tell sizes: of two entries side by side the one that is twice as big has at
\* least the other's area.
Proportional ==
    \A way \in DOMAIN rootFile :
        HasRoom(way) =>
            \A v, w \in ChildrenOf(way) :
                rootFile[v].size > 0 /\ rootFile[v].size >= 2 * rootFile[w].size
                    => Pixels(rootFile[v].area) >= Pixels(rootFile[w].area)
=============================================================================

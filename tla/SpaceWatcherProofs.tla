-------------------------- MODULE SpaceWatcherProofs --------------------------
(* Theorems about SpaceWatcher, for every set of directories and paths, every *)
(* limit of inotify and every number of changes.                              *)
EXTENDS SpaceWatcher, FiniteSetTheorems, SequenceTheorems, TLAPS

\* CountMatches also before the descriptor is open; the entries are finitely many, and
\* addDir is under way only while it is open, so that the entry it makes is counted.
CountInv ==
    /\ IsFiniteSet(DOMAIN inotifyWds)
    /\ adding # NotAdding => IsOpen
    /\ phase \in {"base", "derived", "opened", "watching"} =>
           watchedDirCount = Cardinality(DOMAIN inotifyWds)

\* An entry made for a descriptor counts once, also if it has one.
LEMMA StoreCounts ==
    ASSUME IsFiniteSet(DOMAIN inotifyWds),
           watchedDirCount = Cardinality(DOMAIN inotifyWds),
           NEW wd, NEW p, Store(wd, p)
    PROVE  /\ IsFiniteSet(DOMAIN inotifyWds')
           /\ watchedDirCount' = Cardinality(DOMAIN inotifyWds')
<1> DEFINE entries == DOMAIN inotifyWds
<1>1. DOMAIN inotifyWds' = entries \union {wd}
  BY DEF Store
<1>2. /\ IsFiniteSet(entries \union {wd})
      /\ Cardinality(entries \union {wd}) =
             IF wd \in entries THEN Cardinality(entries) ELSE Cardinality(entries) + 1
  BY FS_AddElement
<1>3. watchedDirCount' = IF wd \in entries THEN watchedDirCount ELSE watchedDirCount + 1
  BY DEF Store
<1> HIDE DEF entries
<1>4. watchedDirCount = Cardinality(entries)
  BY DEF entries
<1> QED
  BY <1>1, <1>2, <1>3, <1>4

\* An entry that is dropped is one less; the count is not zero then.
LEMMA ForgetCounts ==
    ASSUME IsFiniteSet(DOMAIN inotifyWds), NEW wd \in DOMAIN inotifyWds, Forget(wd)
    PROVE  /\ IsFiniteSet(DOMAIN inotifyWds')
           /\ watchedDirCount = Cardinality(DOMAIN inotifyWds) =>
                  watchedDirCount' = Cardinality(DOMAIN inotifyWds')
<1> DEFINE entries == DOMAIN inotifyWds
<1>1. DOMAIN inotifyWds' = entries \ {wd}
  BY DEF Forget
<1>2. /\ IsFiniteSet(entries \ {wd})
      /\ Cardinality(entries \ {wd}) = Cardinality(entries) - 1
  BY FS_RemoveElement
<1>3. Cardinality(entries) \in Nat /\ Cardinality(entries \ {wd}) \in Nat
  BY <1>2, FS_CardinalityType
<1>4. watchedDirCount' = IF watchedDirCount > 0 THEN watchedDirCount - 1 ELSE watchedDirCount
  BY DEF Forget
<1> HIDE DEF entries
<1>5. watchedDirCount = Cardinality(entries) =>
          watchedDirCount' = Cardinality(entries \ {wd})
  BY <1>2, <1>3, <1>4
<1> QED
  BY <1>1, <1>2, <1>5 DEF entries

-----------------------------------------------------------------------------

\* Steps that leave the map and addDir alone, and where construction has come or where
\* the map is over with.
LEMMA CountFrame ==
    ASSUME CountInv, UNCHANGED <<mapVars, adding>>,
           \/ phase' = phase
           \/ phase = "base" /\ phase' = "derived"
           \/ phase = "derived" /\ phase' = "opened"
           \/ /\ phase' \in {"deleted", "closed", "cleared", "half", "joining", "gone",
                             "undefined"}
              /\ phase \notin {"opened", "watching"} \/ adding = NotAdding
    PROVE  CountInv'
  BY DEF CountInv, IsOpen, mapVars, NotAdding

\* inotify_add_watch gives addDir its descriptor, or the phase is what failed says.
LEMMA AddWatchCounts ==
    ASSUME CountInv, NEW p, adding = NotAdding, UNCHANGED mapVars,
           \/ phase = "opened" /\ AddWatch(p, "deleted")
           \/ phase = "watching" /\ AddWatch(p, "watching")
    PROVE  CountInv'
<1>1. \/ phase' = phase
      \/ phase' = "deleted" /\ adding' = adding
  BY DEF AddWatch
<1>2. IsOpen
  BY DEF IsOpen
<1> QED
  BY <1>1, <1>2 DEF CountInv, IsOpen, mapVars, NotAdding

LEMMA OwnerCounts ==
    ASSUME CountInv, Owner
    PROVE  CountInv'
<1>1. CASE Construct \/ InitInotify
  <2>1. UNCHANGED <<mapVars, adding>>
    BY <1>1 DEF Construct, InitInotify
  <2>2. \/ phase = "base" /\ phase' = "derived"
        \/ phase = "derived" /\ phase' \in {"opened", "cleared"}
    BY <1>1 DEF Construct, InitInotify
  <2> QED
    BY <2>1, <2>2, CountFrame
<1>2. CASE BeginWatch
  BY <1>2, AddWatchCounts DEF BeginWatch
<1>3. CASE \E p \in Path : AddDirBegin(p)
  BY <1>3, AddWatchCounts DEF AddDirBegin
<1>4. CASE AddDirEnd
  <2>1. /\ Store(adding.wd, adding.path) /\ adding' = NotAdding /\ phase' = "watching"
        /\ IsOpen
    BY <1>4 DEF AddDirEnd, CountInv
  <2>2. watchedDirCount = Cardinality(DOMAIN inotifyWds) /\ IsFiniteSet(DOMAIN inotifyWds)
    BY <2>1 DEF CountInv, IsOpen
  <2>3. /\ IsFiniteSet(DOMAIN inotifyWds')
        /\ watchedDirCount' = Cardinality(DOMAIN inotifyWds')
    BY <2>1, <2>2, StoreCounts
  <2> QED
    BY <2>1, <2>3 DEF CountInv, NotAdding
<1>5. CASE PopEvent
  BY <1>5, CountFrame DEF PopEvent
<1>6. CASE Close
  BY <1>6, CountFrame DEF Close, CountInv, IsOpen
<1>7. CASE Clear
  <2>1. /\ inotifyWds' = << >> /\ adding' = adding
        /\ phase = "closed" /\ phase' = "cleared"
    BY <1>7 DEF Clear
  <2>2. IsFiniteSet(DOMAIN inotifyWds')
    BY <2>1, FS_EmptySet
  <2> QED
    BY <2>1, <2>2 DEF CountInv, IsOpen, NotAdding
<1>8. CASE Destroyed \/ StopThread \/ Join
  BY <1>8, CountFrame DEF Destroyed, StopThread, Join
<1> QED
  BY <1>1, <1>2, <1>3, <1>4, <1>5, <1>6, <1>7, <1>8 DEF Owner

LEMMA WatcherCounts ==
    ASSUME CountInv, Watcher
    PROVE  CountInv'
<1>1. CASE WatcherRun
  BY <1>1, CountFrame DEF WatcherRun
<1>2. CASE Undefined
  BY <1>2, CountFrame DEF Undefined, OnlyBase
<1>3. CASE ReadEvents
  BY <1>3, CountFrame DEF ReadEvents, mapVars
<1>4. CASE ProcessInotifyEvent
  <2> DEFINE wd == Head(watchBuffer).wd
  <2>1. UNCHANGED <<adding, phase>>
    BY <1>4 DEF ProcessInotifyEvent
  <2>2. (wd \in DOMAIN inotifyWds /\ Forget(wd)) \/ UNCHANGED mapVars
    BY <1>4 DEF ProcessInotifyEvent
  <2>3. CASE UNCHANGED mapVars
    BY <2>1, <2>3, CountFrame
  <2>4. CASE wd \in DOMAIN inotifyWds /\ Forget(wd)
    <3>1. IsFiniteSet(DOMAIN inotifyWds)
      BY DEF CountInv
    <3>2. /\ IsFiniteSet(DOMAIN inotifyWds')
          /\ watchedDirCount = Cardinality(DOMAIN inotifyWds) =>
                 watchedDirCount' = Cardinality(DOMAIN inotifyWds')
      BY <2>4, <3>1, ForgetCounts
    <3> QED
      BY <2>1, <3>2 DEF CountInv, IsOpen, NotAdding
  <2> QED
    BY <2>2, <2>3, <2>4
<1> QED
  BY <1>1, <1>2, <1>3, <1>4 DEF Watcher

LEMMA CountStep == CountInv /\ [Next]_vars => CountInv'
<1> SUFFICES ASSUME CountInv, [Next]_vars PROVE CountInv'
  OBVIOUS
<1>1. CASE Environment
  <2>1. UNCHANGED <<mapVars, adding, phase>>
    BY <1>1 DEF Environment, Mkdir, Rmdir, Rename, Write, OsOnly
  <2> QED
    BY <2>1, CountFrame
<1>2. CASE Done \/ UNCHANGED vars
  BY <1>2, CountFrame DEF Done, vars
<1> QED
  BY <1>1, <1>2, OwnerCounts, WatcherCounts DEF Next

\* The number of watched directories, which the scanner compares with the limit, is that
\* of the entries of inotifyWds, whoever adds and removes them (getWatchedDirCount).
THEOREM CountAlwaysMatches == Spec => []CountMatches
<1>1. Init => CountInv
  <2> SUFFICES ASSUME Init PROVE CountInv
    OBVIOUS
  <2>1. DOMAIN inotifyWds = {} /\ watchedDirCount = 0 /\ adding = NotAdding
    BY DEF Init
  <2>2. IsFiniteSet({}) /\ Cardinality({}) = 0
    BY FS_EmptySet
  <2> QED
    BY <2>1, <2>2 DEF CountInv
<1>2. CountInv => CountMatches
  BY DEF CountInv, CountMatches, IsOpen
<1> QED
  BY <1>1, <1>2, CountStep, PTL DEF Spec

-----------------------------------------------------------------------------
(* The inductive invariant of the other properties.                           *)

Name  == UNION {Range(p) : p \in Path}
Names == {<< >>, <<"file">>} \union {<<n>> : n \in Name}
Mask  == {"IN_CREATE", "IN_DELETE", "IN_MODIFY", "IN_MOVED_FROM", "IN_MOVED_TO",
          "IN_IGNORED", "IN_Q_OVERFLOW"}
Event == {e \in [wd : Int, mask : Mask, name : Names, at : Nat] :
             e.mask = "IN_Q_OVERFLOW" => e.wd = -1}

WatcherTypes ==
    /\ place \in [Dir -> Path \union {Nowhere}]
    /\ \A d \in Dir : place[d] = << >> => d = Root
    /\ lastWd \in Nat /\ watch \in [Dir -> 0..lastWd]
    /\ kernelQueue \in Seq(Event) /\ watchBuffer \in Seq(Event)
    /\ changes \in Nat
    /\ DOMAIN inotifyWds \subseteq 1..lastWd
    /\ adding \in [wd : 1..lastWd, path : Path] \union {NotAdding}
    /\ rpc \in {"check", "read", "process", "ended"}
    /\ rpc = "process" <=> watchBuffer # << >>

\* Descriptors: no two directories have the same, one that does not exist has none;
\* there are none before the descriptor of inotify is open, and no call of addDir then.
WatchesUnique ==
    /\ \A d, f \in Dir : watch[d] = watch[f] /\ watch[d] # 0 => d = f
    /\ \A d \in Dir : ~ Exists(d) => watch[d] = 0
    /\ adding # NotAdding => IsOpen
    /\ phase \in {"base", "derived"} =>
         /\ DOMAIN inotifyWds = {} /\ \A d \in Dir : watch[d] = 0
         /\ kernelQueue = << >> /\ watchBuffer = << >>

LiveWds  == {watch[d] : d \in Dir}
KnownWds == DOMAIN inotifyWds \union ({adding.wd} \ {0})
Pending  == watchBuffer \o kernelQueue

\* What is in the queues: IN_IGNORED is the last event of its descriptor, which is of
\* no directory then; all other events are of descriptors with an entry or about to
\* have one.
QueueSound(q, live, known, last) ==
    /\ \A i \in 1..Len(q) :
         /\ q[i].mask = "IN_IGNORED" => q[i].wd \in (1..last) \ live
         /\ q[i].mask \notin {"IN_IGNORED", "IN_Q_OVERFLOW"} => q[i].wd \in known
    /\ \A i, j \in 1..Len(q) : i < j /\ q[i].mask = "IN_IGNORED" => q[j].wd # q[i].wd

Ignored(q, wd) == \E i \in 1..Len(q) : q[i].mask = "IN_IGNORED" /\ q[i].wd = wd

\* A descriptor that has an entry, or is about to, and is of no directory is noted.
\* A path in the map, or about to be, is that of a directory that has not moved.
OpenInv ==
    /\ QueueSound(Pending, LiveWds, KnownWds, lastWd)
    /\ LiveWds \ {0} \subseteq KnownWds
    /\ \A wd \in KnownWds : wd \in LiveWds \/ Ignored(Pending, wd) \/ wd \in orphans
    /\ \A d \in Dir \ moved :
         /\ watch[d] \in DOMAIN inotifyWds /\ watch[d] # adding.wd
                => inotifyWds[watch[d]] = place[d]
         /\ watch[d] = adding.wd /\ adding # NotAdding => adding.path = place[d]

WatcherInv == WatcherTypes /\ WatchesUnique /\ (IsOpen => OpenInv)

-----------------------------------------------------------------------------
(* Events that are put in a queue.                                            *)

LEMMA LastIsName ==
    ASSUME NEW p \in Path, p # << >>
    PROVE  <<Last(p)>> \in Names
<1>1. p \in Seq(Name)
  BY WatcherAssumption DEF Name
<1>2. Len(p) \in DOMAIN p /\ p[Len(p)] \in Range(p)
  BY <1>1 DEF Range
<1> QED
  BY <1>2 DEF Last, Names, Name

\* Emit puts nothing in the queue, or one event: the one asked for or an overflow.
\* Nothing is put only without a watch, or after an overflow.
LEMMA EmitShape ==
    ASSUME WatcherTypes, NEW q \in Seq(Event), NEW d \in Dir,
           NEW mask \in Mask \ {"IN_Q_OVERFLOW"}, NEW name \in Names
    PROVE  \/ /\ Emit(q, d, mask, name) = q
              /\ watch[d] = 0 \/ Last(q).mask = "IN_Q_OVERFLOW"
           \/ /\ watch[d] # 0
              /\ \E e \in Event :
                   /\ Emit(q, d, mask, name) = Append(q, e) /\ e.at = changes
                   /\ \/ e.mask = mask /\ e.wd = watch[d]
                      \/ e.mask = "IN_Q_OVERFLOW"
<1>1. [wd |-> watch[d], mask |-> mask, name |-> name, at |-> changes] \in Event
  BY DEF WatcherTypes, Event
<1>2. Overflow \in Event
  BY DEF WatcherTypes, Event, Overflow, Mask, Names
<1>3. Overflow.mask = "IN_Q_OVERFLOW" /\ Overflow.at = changes
  BY DEF Overflow
<1> QED
  BY <1>1, <1>2, <1>3 DEF Emit

LEMMA EmitType ==
    ASSUME WatcherTypes, NEW q \in Seq(Event), NEW d \in Dir,
           NEW mask \in Mask \ {"IN_Q_OVERFLOW"}, NEW name \in Names
    PROVE  Emit(q, d, mask, name) \in Seq(Event)
  BY EmitShape

LEMMA AppendFacts ==
    ASSUME NEW q \in Seq(Event), NEW e \in Event
    PROVE  /\ Append(q, e) \in Seq(Event) /\ Len(Append(q, e)) = Len(q) + 1
           /\ \A i \in 1..Len(q) : Append(q, e)[i] = q[i]
           /\ Append(q, e)[Len(q) + 1] = e
           /\ Len(q) \in Nat
           /\ \A i \in 1..Len(q) : q[i] \in Event
  OBVIOUS

LEMMA ConcatAppend ==
    ASSUME NEW p \in Seq(Event), NEW q \in Seq(Event), NEW e \in Event
    PROVE  p \o q \in Seq(Event) /\ p \o Append(q, e) = Append(p \o q, e)
  OBVIOUS

\* An overflow, or an event of a descriptor that is in use and known, can follow
\* anything.
LEMMA SoundAppend ==
    ASSUME NEW live, NEW known, NEW last \in Nat,
           NEW q \in Seq(Event), QueueSound(q, live, known, last), NEW e \in Event,
           \/ e.mask = "IN_Q_OVERFLOW"
           \/ e.mask # "IN_IGNORED" /\ e.wd \in known \intersect live
    PROVE  QueueSound(Append(q, e), live, known, last)
<1> DEFINE r == Append(q, e)
<1>1. /\ Len(r) = Len(q) + 1 /\ Len(q) \in Nat
      /\ \A i \in 1..Len(q) : r[i] = q[i]
      /\ r[Len(q) + 1] = e
  BY AppendFacts
<1> HIDE DEF r
<1>2. e.mask # "IN_IGNORED"
  OBVIOUS
<1>3. ASSUME NEW i \in 1..Len(r)
      PROVE  /\ r[i].mask = "IN_IGNORED" => r[i].wd \in (1..last) \ live
             /\ r[i].mask \notin {"IN_IGNORED", "IN_Q_OVERFLOW"} => r[i].wd \in known
  <2>1. CASE i \in 1..Len(q)
    BY <2>1, <1>1 DEF QueueSound
  <2>2. CASE i = Len(q) + 1
    BY <2>2, <1>1, <1>2
  <2> QED
    BY <1>1, <2>1, <2>2
<1>4. ASSUME NEW i \in 1..Len(r), NEW j \in 1..Len(r), i < j, r[i].mask = "IN_IGNORED"
      PROVE  r[j].wd # r[i].wd
  <2>1. i \in 1..Len(q) /\ q[i].mask = "IN_IGNORED"
    BY <1>1, <1>2, <1>4
  <2>2. CASE j \in 1..Len(q)
    BY <2>1, <2>2, <1>1, <1>4 DEF QueueSound
  <2>3. CASE j = Len(q) + 1
    <3>1. q[i].wd \in (1..last) \ live
      BY <2>1 DEF QueueSound
    <3>2. e.wd = -1 \/ e.wd \in live
      BY DEF Event
    <3> QED
      BY <3>1, <3>2, <2>1, <2>3, <1>1
  <2> QED
    BY <1>1, <2>2, <2>3
<1> QED
  BY <1>3, <1>4 DEF QueueSound, r

\* IN_IGNORED can follow anything if its descriptor is in use until then.
LEMMA SoundIgnored ==
    ASSUME NEW live, NEW known, NEW last \in Nat,
           NEW q \in Seq(Event), QueueSound(q, live, known, last), NEW e \in Event,
           e.mask = "IN_IGNORED", e.wd \in live \intersect (1..last)
    PROVE  QueueSound(Append(q, e), live \ {e.wd}, known, last)
<1> DEFINE r == Append(q, e)
<1>1. /\ Len(r) = Len(q) + 1 /\ Len(q) \in Nat
      /\ \A i \in 1..Len(q) : r[i] = q[i]
      /\ r[Len(q) + 1] = e
  BY AppendFacts
<1> HIDE DEF r
<1>3. ASSUME NEW i \in 1..Len(r)
      PROVE  /\ r[i].mask = "IN_IGNORED" => r[i].wd \in (1..last) \ (live \ {e.wd})
             /\ r[i].mask \notin {"IN_IGNORED", "IN_Q_OVERFLOW"} => r[i].wd \in known
  <2>1. CASE i \in 1..Len(q)
    BY <2>1, <1>1 DEF QueueSound
  <2>2. CASE i = Len(q) + 1
    BY <2>2, <1>1
  <2> QED
    BY <1>1, <2>1, <2>2
<1>4. ASSUME NEW i \in 1..Len(r), NEW j \in 1..Len(r), i < j, r[i].mask = "IN_IGNORED"
      PROVE  r[j].wd # r[i].wd
  <2>1. i \in 1..Len(q) /\ r[i] = q[i]
    BY <1>1, <1>4
  <2>2. CASE j \in 1..Len(q)
    BY <2>1, <2>2, <1>1, <1>4 DEF QueueSound
  <2>3. CASE j = Len(q) + 1
    <3>1. q[i].wd \notin live
      BY <2>1, <1>4 DEF QueueSound
    <3> QED
      BY <3>1, <2>1, <2>3, <1>1
  <2> QED
    BY <1>1, <2>2, <2>3
<1> QED
  BY <1>3, <1>4 DEF QueueSound, r

\* More descriptors may be known, and new ones be in use.
LEMMA SoundMore ==
    ASSUME NEW live, NEW known, NEW last \in Nat, NEW q, QueueSound(q, live, known, last),
           NEW live2, NEW known2, NEW last2 \in Nat,
           last <= last2, known \subseteq known2, live2 \intersect (1..last) \subseteq live
    PROVE  QueueSound(q, live2, known2, last2)
  BY DEF QueueSound

\* After the first event the descriptor it says is ignored need not be known.
LEMMA SoundTail ==
    ASSUME NEW live, NEW known, NEW last \in Nat,
           NEW q \in Seq(Event), q # << >>, QueueSound(q, live, known, last),
           NEW known2,
           \/ known2 = known
           \/ q[1].mask = "IN_IGNORED" /\ known \ {q[1].wd} \subseteq known2
    PROVE  QueueSound(Tail(q), live, known2, last)
<1> DEFINE r == Tail(q)
<1>1. Len(q) \in Nat \ {0}
  BY EmptySeq
<1>2. /\ Len(r) = Len(q) - 1
      /\ \A i \in 1..Len(r) : r[i] = q[i + 1] /\ i + 1 \in 1..Len(q)
  BY <1>1, HeadTailProperties
<1> HIDE DEF r
<1>3. ASSUME NEW i \in 1..Len(r)
      PROVE  /\ r[i].mask = "IN_IGNORED" => r[i].wd \in (1..last) \ live
             /\ r[i].mask \notin {"IN_IGNORED", "IN_Q_OVERFLOW"} => r[i].wd \in known2
  <2>1. r[i] = q[i + 1] /\ i + 1 \in 1..Len(q) /\ 1 \in 1..Len(q) /\ 1 < i + 1
    BY <1>1, <1>2
  <2>2. q[1].mask = "IN_IGNORED" => q[i + 1].wd # q[1].wd
    BY <2>1 DEF QueueSound
  <2> QED
    BY <2>1, <2>2 DEF QueueSound
<1>4. ASSUME NEW i \in 1..Len(r), NEW j \in 1..Len(r), i < j, r[i].mask = "IN_IGNORED"
      PROVE  r[j].wd # r[i].wd
  <2>1. i + 1 < j + 1
    BY <1>1, <1>2, <1>4
  <2> QED
    BY <2>1, <1>2, <1>4 DEF QueueSound
<1> QED
  BY <1>3, <1>4 DEF QueueSound, r

LEMMA IgnoredAppend ==
    ASSUME NEW q \in Seq(Event), NEW e \in Event
    PROVE  /\ \A wd : Ignored(q, wd) => Ignored(Append(q, e), wd)
           /\ e.mask = "IN_IGNORED" => Ignored(Append(q, e), e.wd)
  BY AppendFacts DEF Ignored

LEMMA IgnoredTail ==
    ASSUME NEW q \in Seq(Event), q # << >>, NEW wd, Ignored(q, wd),
           q[1].mask # "IN_IGNORED" \/ q[1].wd # wd
    PROVE  Ignored(Tail(q), wd)
<1>1. PICK i \in 1..Len(q) : q[i].mask = "IN_IGNORED" /\ q[i].wd = wd
  BY DEF Ignored
<1>2. /\ Len(q) \in Nat \ {0} /\ Len(Tail(q)) = Len(q) - 1
      /\ \A k \in 1..Len(Tail(q)) : Tail(q)[k] = q[k + 1]
  BY HeadTailProperties, EmptySeq
<1>3. i - 1 \in 1..Len(Tail(q)) /\ Tail(q)[i - 1] = q[i]
  BY <1>1, <1>2
<1> QED
  BY <1>1, <1>3 DEF Ignored

\* The events of a change are of watches that are in use.
LEMMA EmitSound ==
    ASSUME WatcherTypes, OpenInv, NEW q \in Seq(Event),
           QueueSound(watchBuffer \o q, LiveWds, KnownWds, lastWd),
           NEW d \in Dir, NEW mask \in Mask \ {"IN_IGNORED", "IN_Q_OVERFLOW"},
           NEW name \in Names
    PROVE  /\ QueueSound(watchBuffer \o Emit(q, d, mask, name), LiveWds, KnownWds, lastWd)
           /\ \A wd : Ignored(watchBuffer \o q, wd)
                        => Ignored(watchBuffer \o Emit(q, d, mask, name), wd)
<1>1. watchBuffer \in Seq(Event) /\ lastWd \in Nat
  BY DEF WatcherTypes
<1>2. CASE Emit(q, d, mask, name) = q
  BY <1>2
<1>3. ASSUME watch[d] # 0,
             NEW e \in Event, Emit(q, d, mask, name) = Append(q, e),
             \/ e.mask = mask /\ e.wd = watch[d]
             \/ e.mask = "IN_Q_OVERFLOW"
      PROVE  /\ QueueSound(watchBuffer \o Emit(q, d, mask, name), LiveWds, KnownWds, lastWd)
             /\ \A wd : Ignored(watchBuffer \o q, wd)
                          => Ignored(watchBuffer \o Emit(q, d, mask, name), wd)
  <2>1. watchBuffer \o q \in Seq(Event)
        /\ watchBuffer \o Append(q, e) = Append(watchBuffer \o q, e)
    BY <1>1, ConcatAppend
  <2>2. watch[d] \in KnownWds \intersect LiveWds
    BY <1>3 DEF OpenInv, LiveWds
  <2>3. QueueSound(Append(watchBuffer \o q, e), LiveWds, KnownWds, lastWd)
    BY <1>1, <1>3, <2>1, <2>2, SoundAppend
  <2> QED
    BY <1>3, <2>1, <2>3, IgnoredAppend
<1> QED
  BY <1>2, <1>3, EmitShape

-----------------------------------------------------------------------------
(* Types.                                                                     *)

LEMMA NonEmptyConcat ==
    ASSUME NEW S, NEW p \in Seq(S), NEW q \in Seq(S), p # << >>
    PROVE  p \o q # << >>
<1>1. Len(p) \in Nat \ {0} /\ Len(q) \in Nat /\ Len(p \o q) = Len(p) + Len(q)
  BY EmptySeq, LenProperties, ConcatProperties
<1> QED
  BY <1>1, EmptySeq

LEMMA EnvironmentTypes ==
    ASSUME WatcherTypes, Environment
    PROVE  WatcherTypes'
<1>1. UNCHANGED <<inotifyWds, adding, rpc, watchBuffer>>
  BY DEF Environment, Mkdir, Rmdir, Rename, Write, OsOnly, mapVars, readerVars
<1>2. changes' \in Nat
  <2>1. changes' = changes + 1
    BY DEF Environment, Mkdir, Rmdir, Rename, Write, Change
  <2> QED
    BY <2>1 DEF WatcherTypes
<1>3. ASSUME NEW d \in Dir, NEW p \in Path, Mkdir(d, p)
      PROVE  WatcherTypes'
  <2>1. PICK up \in Parent(p) : kernelQueue' = Emit(kernelQueue, up, "IN_CREATE", <<Last(p)>>)
    BY <1>3 DEF Mkdir
  <2>2. p # << >> /\ place' = [place EXCEPT ![d] = p] /\ UNCHANGED <<watch, lastWd>>
    BY <1>3 DEF Mkdir
  <2>3. kernelQueue' \in Seq(Event)
    BY <2>1, <2>2, LastIsName, EmitType DEF Parent, DirAt, WatcherTypes, Mask
  <2> QED
    BY <1>1, <1>2, <2>2, <2>3 DEF WatcherTypes
<1>4. ASSUME NEW d \in Dir, Rmdir(d)
      PROVE  WatcherTypes'
  <2>1. PICK up \in Parent(place[d]) :
          kernelQueue' = Emit(Emit(kernelQueue, up, "IN_DELETE", <<Last(place[d])>>),
                              d, "IN_IGNORED", << >>)
    BY <1>4 DEF Rmdir
  <2>2. /\ place[d] \in Path /\ place[d] # << >> /\ lastWd' = lastWd
        /\ place' = [place EXCEPT ![d] = Nowhere] /\ watch' = [watch EXCEPT ![d] = 0]
    BY <1>4 DEF Rmdir, Exists, WatcherTypes
  <2>3. up \in Dir /\ <<Last(place[d])>> \in Names /\ << >> \in Names
    BY <2>2, LastIsName DEF Parent, DirAt, Names
  <2>4. Emit(kernelQueue, up, "IN_DELETE", <<Last(place[d])>>) \in Seq(Event)
    BY <2>3, EmitType DEF WatcherTypes, Mask
  <2>5. kernelQueue' \in Seq(Event)
    BY <2>1, <2>3, <2>4, EmitType DEF Mask
  <2>6. \A f \in Dir : place'[f] = << >> => f = Root
    BY <2>2, WatcherAssumption DEF WatcherTypes
  <2> QED
    BY <1>1, <1>2, <2>2, <2>5, <2>6 DEF WatcherTypes
<1>5. ASSUME NEW d \in Dir, NEW p \in Path, Rename(d, p)
      PROVE  WatcherTypes'
  <2> DEFINE old == place[d]
             Below == {e \in Dir : Exists(e) /\ IsPrefix(old, place[e])}
             To(e) == p \o SubSeq(place[e], Len(old) + 1, Len(place[e]))
  <2>1. PICK from \in Parent(old), to \in Parent(p) :
          kernelQueue' = Emit(Emit(kernelQueue, from, "IN_MOVED_FROM", <<Last(old)>>),
                              to, "IN_MOVED_TO", <<Last(p)>>)
    BY <1>5 DEF Rename
  <2>2. /\ old \in Path /\ old # << >> /\ p # << >> /\ UNCHANGED <<watch, lastWd>>
        /\ \A e \in Below : To(e) \in Path
        /\ place' = [e \in Dir |-> IF e \in Below THEN To(e) ELSE place[e]]
    BY <1>5 DEF Rename, Exists, WatcherTypes
  <2>3. from \in Dir /\ to \in Dir /\ <<Last(old)>> \in Names /\ <<Last(p)>> \in Names
    BY <2>2, LastIsName DEF Parent, DirAt
  <2>4. Emit(kernelQueue, from, "IN_MOVED_FROM", <<Last(old)>>) \in Seq(Event)
    BY <2>3, EmitType DEF WatcherTypes, Mask
  <2>5. kernelQueue' \in Seq(Event)
    BY <2>1, <2>3, <2>4, EmitType DEF Mask
  <2>6. \A e \in Below : To(e) # << >>
    <3> SUFFICES ASSUME NEW e \in Below PROVE To(e) # << >>
      OBVIOUS
    <3>1. p \in Seq(Name) /\ place[e] \in Seq(Name) /\ old \in Seq(Name)
      BY <2>2, WatcherAssumption DEF Exists, WatcherTypes, Name
    <3>2. SubSeq(place[e], Len(old) + 1, Len(place[e])) \in Seq(Name)
      BY <3>1
    <3> QED
      BY <2>2, <3>1, <3>2, NonEmptyConcat
  <2> HIDE DEF old, Below, To
  <2>7. place' \in [Dir -> Path \union {Nowhere}]
    BY <2>2 DEF WatcherTypes
  <2>8. \A f \in Dir : place'[f] = << >> => f = Root
    BY <2>2, <2>6 DEF WatcherTypes
  <2> QED
    BY <1>1, <1>2, <2>2, <2>5, <2>7, <2>8 DEF WatcherTypes
<1>6. ASSUME NEW d \in Dir, Write(d)
      PROVE  WatcherTypes'
  <2>1. kernelQueue' \in Seq(Event)
    BY <1>6, EmitType DEF Write, WatcherTypes, Mask, Names
  <2>2. UNCHANGED <<place, watch, lastWd>>
    BY <1>6 DEF Write
  <2> QED
    BY <1>1, <1>2, <2>1, <2>2 DEF WatcherTypes
<1> QED
  BY <1>3, <1>4, <1>5, <1>6 DEF Environment

LEMMA AddWatchTypes ==
    ASSUME WatcherTypes, NEW p \in Path, NEW failed, AddWatch(p, failed),
           UNCHANGED <<place, kernelQueue, changes, inotifyWds, rpc, watchBuffer>>
    PROVE  WatcherTypes'
<1>1. CASE UNCHANGED <<watch, lastWd, adding>>
  BY <1>1 DEF WatcherTypes
<1>2. ASSUME NEW d \in Dir,
             LET wd == IF watch[d] # 0 THEN watch[d] ELSE lastWd + 1
             IN  /\ watch' = [watch EXCEPT ![d] = wd]
                 /\ lastWd' = IF watch[d] # 0 THEN lastWd ELSE wd
                 /\ adding' = [wd |-> wd, path |-> p]
      PROVE  WatcherTypes'
  <2>1. lastWd' \in Nat /\ lastWd <= lastWd' /\ adding'.wd \in 1..lastWd'
        /\ watch' \in [Dir -> 0..lastWd']
    BY <1>2 DEF WatcherTypes
  <2>2. DOMAIN inotifyWds' \subseteq 1..lastWd'
    BY <2>1 DEF WatcherTypes
  <2> QED
    BY <1>2, <2>1, <2>2 DEF WatcherTypes
<1> QED
  BY <1>1, <1>2 DEF AddWatch, DirAt

LEMMA OwnerTypes ==
    ASSUME WatcherTypes, Owner
    PROVE  WatcherTypes'
<1> USE DEF osVars, readerVars
<1>1. CASE Construct \/ InitInotify \/ PopEvent \/ Destroyed \/ StopThread \/ Join
  BY <1>1 DEF Construct, InitInotify, PopEvent, Destroyed, StopThread, Join, mapVars,
              WatcherTypes
<1>2. CASE BeginWatch
  BY <1>2, AddWatchTypes, WatcherAssumption DEF BeginWatch, mapVars
<1>3. CASE \E p \in Path : AddDirBegin(p)
  BY <1>3, AddWatchTypes DEF AddDirBegin, mapVars
<1>4. CASE AddDirEnd
  <2>1. /\ DOMAIN inotifyWds' = DOMAIN inotifyWds \union {adding.wd}
        /\ adding' = NotAdding /\ adding # NotAdding
        /\ UNCHANGED <<osVars, readerVars>>
    BY <1>4 DEF AddDirEnd, Store
  <2>2. adding.wd \in 1..lastWd
    BY <2>1 DEF WatcherTypes
  <2> QED
    BY <2>1, <2>2 DEF WatcherTypes
<1>5. CASE Close
  <2>1. /\ watch' = [d \in Dir |-> 0] /\ kernelQueue' = << >>
        /\ UNCHANGED <<place, lastWd, changes, inotifyWds, adding, rpc, watchBuffer>>
    BY <1>5 DEF Close, mapVars
  <2>2. kernelQueue' \in Seq(Event)
    BY <2>1
  <2> QED
    BY <2>1, <2>2 DEF WatcherTypes
<1>6. CASE Clear
  <2>1. inotifyWds' = << >> /\ UNCHANGED <<osVars, adding, readerVars>>
    BY <1>6 DEF Clear
  <2> QED
    BY <2>1 DEF WatcherTypes
<1> QED
  BY <1>1, <1>2, <1>3, <1>4, <1>5, <1>6 DEF Owner

LEMMA ReadFacts ==
    ASSUME WatcherTypes, ReadEvents
    PROVE  /\ WatcherTypes'
           /\ watchBuffer' \o kernelQueue' = watchBuffer \o kernelQueue
<1>1. watchBuffer = << >> /\ kernelQueue \in Seq(Event)
  BY DEF ReadEvents, WatcherTypes
<1>2. UNCHANGED <<place, watch, lastWd, changes, inotifyWds, adding>>
  BY DEF ReadEvents, mapVars
<1>3. CASE kernelQueue = << >>
  <2>1. UNCHANGED <<watchBuffer, kernelQueue>> /\ rpc' = "check"
    BY <1>3 DEF ReadEvents
  <2> QED
    BY <1>1, <1>2, <2>1 DEF WatcherTypes
<1>4. CASE kernelQueue # << >>
  <2>1. PICK n \in 1..Len(kernelQueue) :
          /\ watchBuffer' = SubSeq(kernelQueue, 1, n)
          /\ kernelQueue' = SubSeq(kernelQueue, n + 1, Len(kernelQueue))
          /\ rpc' = "process"
    BY <1>4 DEF ReadEvents
  <2>2. /\ watchBuffer' \in Seq(Event) /\ kernelQueue' \in Seq(Event)
        /\ watchBuffer' # << >>
    BY <1>1, <2>1
  <2>3. watchBuffer' \o kernelQueue' = kernelQueue
    BY <1>1, <2>1
  <2>4. watchBuffer \o kernelQueue = kernelQueue
    BY <1>1
  <2> QED
    BY <1>2, <2>1, <2>2, <2>3, <2>4 DEF WatcherTypes
<1> QED
  BY <1>3, <1>4

\* The event processed is the first of the pending ones.
LEMMA ProcessFacts ==
    ASSUME WatcherTypes, ProcessInotifyEvent
    PROVE  /\ WatcherTypes'
           /\ watchBuffer # << >> /\ Head(watchBuffer) \in Event
           /\ Head(watchBuffer) = (watchBuffer \o kernelQueue)[1]
           /\ watchBuffer' \o kernelQueue' = Tail(watchBuffer \o kernelQueue)
           /\ watchBuffer \o kernelQueue # << >>
           /\ watchBuffer \o kernelQueue \in Seq(Event)
<1>1. /\ watchBuffer # << >> /\ watchBuffer \in Seq(Event) /\ kernelQueue \in Seq(Event)
      /\ watchBuffer' = Tail(watchBuffer)
      /\ rpc' = IF Len(watchBuffer) = 1 THEN "read" ELSE "process"
      /\ UNCHANGED <<place, watch, lastWd, kernelQueue, changes, adding>>
  BY DEF ProcessInotifyEvent, WatcherTypes, osVars
<1>2. DOMAIN inotifyWds' \subseteq DOMAIN inotifyWds
  BY DEF ProcessInotifyEvent, Forget, mapVars
<1>3. Tail(watchBuffer) \in Seq(Event) /\ (Tail(watchBuffer) = << >> <=> Len(watchBuffer) = 1)
  <2>1. /\ Tail(watchBuffer) \in Seq(Event) /\ Len(watchBuffer) \in Nat \ {0}
        /\ Len(Tail(watchBuffer)) = Len(watchBuffer) - 1
    BY <1>1, HeadTailProperties, EmptySeq
  <2>2. Tail(watchBuffer) = << >> <=> Len(Tail(watchBuffer)) = 0
    BY <2>1, EmptySeq
  <2> QED
    BY <2>1, <2>2
<1>4. WatcherTypes'
  BY <1>1, <1>2, <1>3 DEF WatcherTypes
<1>5. Head(watchBuffer) \in Event
  BY <1>1
<1>6. Head(watchBuffer) = (watchBuffer \o kernelQueue)[1]
  BY <1>1
<1>7. watchBuffer \o kernelQueue \in Seq(Event) /\ watchBuffer \o kernelQueue # << >>
  BY <1>1
<1>8. Tail(watchBuffer) \o kernelQueue = Tail(watchBuffer \o kernelQueue)
  BY <1>1
<1> QED
  BY <1>1, <1>4, <1>5, <1>6, <1>7, <1>8

LEMMA TypesStep == WatcherTypes /\ [Next]_vars => WatcherTypes'
<1> SUFFICES ASSUME WatcherTypes, [Next]_vars PROVE WatcherTypes'
  OBVIOUS
<1>1. CASE WatcherRun \/ Undefined
  BY <1>1 DEF WatcherRun, Undefined, WatcherTypes, osVars, mapVars, readerVars
<1>2. CASE Done \/ UNCHANGED vars
  BY <1>2 DEF Done, vars, WatcherTypes, osVars, mapVars, readerVars
<1> QED
  BY <1>1, <1>2, EnvironmentTypes, OwnerTypes, ReadFacts, ProcessFacts DEF Next, Watcher

-----------------------------------------------------------------------------
(* Descriptors.                                                               *)

\* What addDir gets of inotify: the descriptor the directory has or a new one, or none.
LEMMA AddWatchCases ==
    ASSUME WatcherTypes, NEW p \in Path, NEW failed, AddWatch(p, failed)
    PROVE  \/ UNCHANGED <<watch, lastWd, adding, moved>> /\ phase' = failed
           \/ \E d \in Dir :
                /\ place[d] = p /\ Exists(d)
                /\ \/ watch[d] # 0 /\ UNCHANGED <<watch, lastWd>>
                   \/ /\ watch[d] = 0 /\ lastWd' = lastWd + 1
                      /\ watch' = [watch EXCEPT ![d] = lastWd + 1]
                /\ adding' = [wd |-> watch'[d], path |-> p]
                /\ moved' = moved \ {d}
                /\ phase' = phase
<1>1. CASE UNCHANGED <<watch, lastWd, adding, moved>> /\ phase' = failed
  BY <1>1
<1>2. ASSUME NEW d \in DirAt(p),
             LET wd == IF watch[d] # 0 THEN watch[d] ELSE lastWd + 1
             IN  /\ watch' = [watch EXCEPT ![d] = wd]
                 /\ lastWd' = IF watch[d] # 0 THEN lastWd ELSE wd
                 /\ adding' = [wd |-> wd, path |-> p]
                 /\ moved' = moved \ {d}
                 /\ UNCHANGED phase
      PROVE  \E f \in Dir :
               /\ place[f] = p /\ Exists(f)
               /\ \/ watch[f] # 0 /\ UNCHANGED <<watch, lastWd>>
                  \/ /\ watch[f] = 0 /\ lastWd' = lastWd + 1
                     /\ watch' = [watch EXCEPT ![f] = lastWd + 1]
               /\ adding' = [wd |-> watch'[f], path |-> p]
               /\ moved' = moved \ {f}
               /\ phase' = phase
  <2>1. d \in Dir /\ place[d] = p /\ Exists(d)
    BY <1>2, WatcherAssumption DEF DirAt, Exists
  <2>2. CASE watch[d] # 0
    <3>1. watch' = watch
      BY <1>2, <2>1, <2>2 DEF WatcherTypes
    <3> QED
      BY <1>2, <2>1, <2>2, <3>1
  <2>3. CASE watch[d] = 0
    <3>1. watch' = [watch EXCEPT ![d] = lastWd + 1] /\ watch'[d] = lastWd + 1
      BY <1>2, <2>1, <2>3 DEF WatcherTypes
    <3> QED
      BY <1>2, <2>1, <2>3, <3>1
  <2> QED
    BY <2>2, <2>3
<1> QED
  BY <1>1, <1>2 DEF AddWatch

LEMMA AddWatchUnique ==
    ASSUME WatcherTypes, WatchesUnique, NEW p \in Path, NEW failed, AddWatch(p, failed),
           adding = NotAdding,
           \/ phase = "opened" /\ failed = "deleted"
           \/ phase = "watching" /\ failed = "watching",
           UNCHANGED <<place, kernelQueue, inotifyWds, watchBuffer>>
    PROVE  WatchesUnique'
<1>1. phase' \in {"opened", "watching", "deleted"}
      /\ (adding' # NotAdding => phase' \in {"opened", "watching"})
  BY AddWatchCases
<1>2. CASE watch' = watch
  BY <1>1, <1>2 DEF WatchesUnique, IsOpen, Exists
<1>3. ASSUME NEW d \in Dir, Exists(d), watch' = [watch EXCEPT ![d] = lastWd + 1]
      PROVE  WatchesUnique'
  <2>1. /\ watch'[d] = lastWd + 1
        /\ \A f \in Dir \ {d} : watch'[f] = watch[f] /\ watch[f] # lastWd + 1
    BY <1>3 DEF WatcherTypes
  <2>2. \A f, g \in Dir : watch'[f] = watch'[g] /\ watch'[f] # 0 => f = g
    BY <2>1 DEF WatchesUnique
  <2>3. \A f \in Dir : ~ Exists(f)' => watch'[f] = 0
    BY <1>3, <2>1 DEF WatchesUnique, Exists
  <2> QED
    BY <1>1, <2>2, <2>3 DEF WatchesUnique, IsOpen
<1> QED
  BY <1>2, <1>3, AddWatchCases

\* Without watches a change of the file system puts nothing in the queue.
LEMMA EnvironmentUnique ==
    ASSUME WatcherTypes, WatchesUnique, Environment
    PROVE  WatchesUnique'
<1>1. UNCHANGED <<inotifyWds, adding, watchBuffer, phase>>
  BY DEF Environment, Mkdir, Rmdir, Rename, Write, OsOnly, mapVars, readerVars
<1>2. (\A d \in Dir : watch[d] = 0) => kernelQueue' = kernelQueue
  <2> SUFFICES ASSUME \A d \in Dir : watch[d] = 0 PROVE kernelQueue' = kernelQueue
    OBVIOUS
  <2>1. \A d \in Dir : \A q, mask, name : Emit(q, d, mask, name) = q
    BY DEF Emit
  <2>2. CASE \E d \in Dir, p \in Path : Mkdir(d, p)
    BY <2>1, <2>2 DEF Mkdir, Parent, DirAt
  <2>3. CASE \E d \in Dir : Rmdir(d)
    BY <2>1, <2>3 DEF Rmdir, Parent, DirAt
  <2>4. CASE \E d \in Dir, p \in Path : Rename(d, p)
    BY <2>1, <2>4 DEF Rename, Parent, DirAt
  <2>5. CASE \E d \in Dir : Write(d)
    BY <2>1, <2>5 DEF Write
  <2> QED
    BY <2>2, <2>3, <2>4, <2>5 DEF Environment
<1>3. CASE watch' = watch /\ \A d \in Dir : place'[d] = Nowhere => place[d] = Nowhere
  BY <1>1, <1>2, <1>3 DEF WatchesUnique, IsOpen, Exists
<1>4. ASSUME NEW d \in Dir, Rmdir(d)
      PROVE  WatchesUnique'
  <2>1. /\ place' = [place EXCEPT ![d] = Nowhere] /\ watch' = [watch EXCEPT ![d] = 0]
    BY <1>4 DEF Rmdir
  <2>2. /\ watch'[d] = 0 /\ \A f \in Dir \ {d} : watch'[f] = watch[f] /\ place'[f] = place[f]
    BY <2>1 DEF WatcherTypes
  <2> QED
    BY <1>1, <1>2, <2>2 DEF WatchesUnique, IsOpen, Exists
<1>5. ASSUME NEW d \in Dir, NEW p \in Path, Mkdir(d, p)
      PROVE  watch' = watch /\ \A f \in Dir : place'[f] = Nowhere => place[f] = Nowhere
  BY <1>5 DEF Mkdir, WatcherTypes, Exists
<1>6. ASSUME NEW d \in Dir, NEW p \in Path, Rename(d, p)
      PROVE  watch' = watch /\ \A f \in Dir : place'[f] = Nowhere => place[f] = Nowhere
  BY <1>6, WatcherAssumption DEF Rename, WatcherTypes, Exists
<1>7. ASSUME NEW d \in Dir, Write(d)
      PROVE  watch' = watch /\ \A f \in Dir : place'[f] = Nowhere => place[f] = Nowhere
  BY <1>7 DEF Write
<1> QED
  BY <1>3, <1>4, <1>5, <1>6, <1>7 DEF Environment

LEMMA UniqueStep ==
    ASSUME WatcherTypes, WatchesUnique, [Next]_vars
    PROVE  WatchesUnique'
<1> USE DEF osVars, mapVars, readerVars
<1>1. CASE Construct \/ InitInotify \/ PopEvent \/ Destroyed \/ StopThread \/ Join
  BY <1>1 DEF Construct, InitInotify, PopEvent, Destroyed, StopThread, Join,
              WatchesUnique, IsOpen, Exists
<1>2. CASE BeginWatch
  BY <1>2, AddWatchUnique, WatcherAssumption DEF BeginWatch
<1>3. CASE \E p \in Path : AddDirBegin(p)
  BY <1>3, AddWatchUnique DEF AddDirBegin
<1>4. CASE AddDirEnd
  BY <1>4 DEF AddDirEnd, WatchesUnique, IsOpen, Exists
<1>5. CASE Close
  <2>1. adding = NotAdding
    BY <1>5 DEF Close, WatchesUnique, IsOpen
  <2>2. /\ watch' = [d \in Dir |-> 0] /\ phase' = "closed" /\ adding' = NotAdding
    BY <1>5, <2>1 DEF Close
  <2> QED
    BY <2>2 DEF WatchesUnique
<1>6. CASE Clear
  BY <1>6 DEF Clear, WatchesUnique, IsOpen, Exists
<1>7. CASE WatcherRun \/ Undefined
  BY <1>7 DEF WatcherRun, Undefined, OnlyBase, WatchesUnique, IsOpen, Exists
<1>8. CASE ReadEvents
  <2>1. kernelQueue = << >> => UNCHANGED <<watchBuffer, kernelQueue>>
    BY <1>8 DEF ReadEvents
  <2>2. UNCHANGED <<place, watch, inotifyWds, phase, adding>>
    BY <1>8 DEF ReadEvents
  <2> QED
    BY <2>1, <2>2 DEF WatchesUnique, IsOpen, Exists
<1>9. CASE ProcessInotifyEvent
  <2>1. watchBuffer # << >> /\ UNCHANGED <<place, watch, phase, adding>>
    BY <1>9 DEF ProcessInotifyEvent, WatcherTypes
  <2> QED
    BY <2>1 DEF WatchesUnique, IsOpen, Exists
<1>10. CASE Done \/ UNCHANGED vars
  BY <1>10 DEF Done, vars, WatchesUnique, IsOpen, Exists
<1> QED
  BY <1>1, <1>2, <1>3, <1>4, <1>5, <1>6, <1>7, <1>8, <1>9, <1>10, EnvironmentUnique
     DEF Next, Owner, Watcher

-----------------------------------------------------------------------------
(* The map and the queues while the watcher is open.                          *)

LEMMA OpenFrame ==
    ASSUME OpenInv, UNCHANGED <<place, watch, lastWd, inotifyWds, adding, moved, orphans>>,
           Pending' = Pending
    PROVE  OpenInv'
  BY DEF OpenInv, LiveWds, KnownWds

\* Changes that leave the watches alone, and the places but of directories without a
\* watch or that count as moved then.
LEMMA ChangeOpen ==
    ASSUME WatcherTypes, OpenInv,
           UNCHANGED <<watch, lastWd, inotifyWds, adding, orphans, watchBuffer>>,
           QueueSound(watchBuffer \o kernelQueue', LiveWds, KnownWds, lastWd),
           \A wd : Ignored(Pending, wd) => Ignored(watchBuffer \o kernelQueue', wd),
           \A d \in Dir : \/ watch[d] = 0
                          \/ d \in moved'
                          \/ d \notin moved /\ place'[d] = place[d]
    PROVE  OpenInv'
<1>1. Pending' = watchBuffer \o kernelQueue'
  BY DEF Pending
<1>2. LiveWds' = LiveWds /\ KnownWds' = KnownWds
  BY DEF LiveWds, KnownWds
<1>3. QueueSound(Pending', LiveWds', KnownWds', lastWd')
  BY <1>1, <1>2
<1>4. \A wd \in KnownWds' : wd \in LiveWds' \/ Ignored(Pending', wd) \/ wd \in orphans'
  BY <1>1, <1>2 DEF OpenInv
<1>5. 0 \notin DOMAIN inotifyWds /\ (adding # NotAdding => adding.wd # 0)
  BY DEF WatcherTypes
<1>6. ASSUME NEW d \in Dir \ moved'
      PROVE  /\ watch[d] \in DOMAIN inotifyWds /\ watch[d] # adding.wd
                  => inotifyWds[watch[d]] = place'[d]
             /\ watch[d] = adding.wd /\ adding # NotAdding => adding.path = place'[d]
  BY <1>5, <1>6 DEF OpenInv
<1> QED
  BY <1>2, <1>3, <1>4, <1>6 DEF OpenInv

LEMMA RmdirOpen ==
    ASSUME WatcherTypes, WatchesUnique, OpenInv, NEW d \in Dir, Rmdir(d)
    PROVE  OpenInv'
<1>1. PICK up \in Parent(place[d]) :
        LET removed == Emit(kernelQueue, up, "IN_DELETE", <<Last(place[d])>>)
            ignored == Emit(removed, d, "IN_IGNORED", << >>)
        IN  /\ kernelQueue' = ignored
            /\ orphans' = IF watch[d] # 0 /\ Last(ignored).mask = "IN_Q_OVERFLOW"
                            THEN orphans \union {watch[d]} ELSE orphans
  BY DEF Rmdir
<1> DEFINE removed == Emit(kernelQueue, up, "IN_DELETE", <<Last(place[d])>>)
           q == watchBuffer \o removed
<1>2. /\ place' = [place EXCEPT ![d] = Nowhere] /\ watch' = [watch EXCEPT ![d] = 0]
      /\ UNCHANGED <<lastWd, moved, inotifyWds, adding, watchBuffer>>
  BY DEF Rmdir, OsOnly, mapVars, readerVars
<1>3. up \in Dir /\ <<Last(place[d])>> \in Names /\ << >> \in Names
  BY LastIsName DEF Rmdir, Exists, Parent, DirAt, Names, WatcherTypes
<1>4. removed \in Seq(Event) /\ q \in Seq(Event)
      /\ watchBuffer \in Seq(Event) /\ kernelQueue \in Seq(Event)
  BY <1>3, EmitType DEF WatcherTypes, Mask
<1>5. /\ QueueSound(q, LiveWds, KnownWds, lastWd)
      /\ \A wd : Ignored(Pending, wd) => Ignored(q, wd)
  BY <1>3, <1>4, EmitSound DEF OpenInv, Pending, Mask
<1>6. \/ /\ kernelQueue' = removed
         /\ watch[d] = 0 \/ Last(removed).mask = "IN_Q_OVERFLOW"
      \/ /\ watch[d] # 0
         /\ \E e \in Event : /\ kernelQueue' = Append(removed, e)
                             /\ \/ e.mask = "IN_IGNORED" /\ e.wd = watch[d]
                                \/ e.mask = "IN_Q_OVERFLOW"
  <2>1. kernelQueue' = Emit(removed, d, "IN_IGNORED", << >>)
    BY <1>1
  <2> HIDE DEF removed
  <2> QED
    BY <2>1, <1>3, <1>4, EmitShape DEF Mask
<1>7. orphans' = IF watch[d] # 0 /\ Last(kernelQueue').mask = "IN_Q_OVERFLOW"
                   THEN orphans \union {watch[d]} ELSE orphans
  BY <1>1
<1> HIDE DEF removed, q
<1>8. CASE watch[d] = 0
  <2>1. watch' = watch
    BY <1>2, <1>8 DEF WatcherTypes
  <2>2. watchBuffer \o kernelQueue' = q /\ orphans' = orphans
    BY <1>6, <1>7, <1>8 DEF q
  <2>3. \A f \in Dir : watch[f] = 0 \/ place'[f] = place[f]
    BY <1>2, <1>8 DEF WatcherTypes
  <2> QED
    BY <1>2, <1>5, <2>1, <2>2, <2>3, ChangeOpen
<1>9. CASE watch[d] # 0
  <2> DEFINE wd == watch[d]
  <2>1. wd \in 1..lastWd /\ wd \in LiveWds /\ lastWd \in Nat /\ wd \in KnownWds
    BY <1>9 DEF WatcherTypes, LiveWds, OpenInv
  <2>2. \A f \in Dir \ {d} : watch'[f] = watch[f] /\ watch[f] # wd /\ place'[f] = place[f]
    BY <1>2, <1>9 DEF WatcherTypes, WatchesUnique
  <2>3. watch'[d] = 0
    BY <1>2 DEF WatcherTypes
  <2> HIDE DEF wd
  <2>4. LiveWds' \subseteq (LiveWds \ {wd}) \union {0} /\ LiveWds \ {wd} \subseteq LiveWds'
    BY <2>2, <2>3 DEF LiveWds, wd
  <2>5. KnownWds' = KnownWds
    BY <1>2 DEF KnownWds
  <2>6. \/ \E e \in Event : /\ e.mask = "IN_IGNORED" /\ e.wd = wd
                            /\ Pending' = Append(q, e)
        \/ wd \in orphans' /\ Pending' = q
        \/ \E e \in Event : /\ e.mask = "IN_Q_OVERFLOW" /\ wd \in orphans'
                            /\ Pending' = Append(q, e)
    <3>1. CASE kernelQueue' = removed
      <4>1. Last(removed).mask = "IN_Q_OVERFLOW" \/ \E e \in Event :
              /\ kernelQueue' = Append(removed, e)
              /\ \/ e.mask = "IN_IGNORED" /\ e.wd = wd
                 \/ e.mask = "IN_Q_OVERFLOW"
        BY <1>6, <1>9 DEF wd
      <4>2. ASSUME NEW e \in Event, kernelQueue' = Append(removed, e) PROVE FALSE
        <5>1. Len(Append(removed, e)) = Len(removed) + 1 /\ Len(removed) \in Nat
          BY <1>4, AppendFacts
        <5> QED
          BY <5>1, <3>1, <4>2
      <4>3. Pending' = q
        BY <3>1, <1>2 DEF Pending, q
      <4> QED
        BY <4>1, <4>2, <4>3, <3>1, <1>7, <1>9 DEF wd
    <3>2. ASSUME NEW e \in Event, kernelQueue' = Append(removed, e),
                 \/ e.mask = "IN_IGNORED" /\ e.wd = watch[d]
                 \/ e.mask = "IN_Q_OVERFLOW"
          PROVE  \/ e.mask = "IN_IGNORED" /\ e.wd = wd /\ Pending' = Append(q, e)
                 \/ /\ e.mask = "IN_Q_OVERFLOW" /\ wd \in orphans'
                    /\ Pending' = Append(q, e)
      <4>1. Pending' = Append(q, e)
        BY <3>2, <1>2, <1>4, ConcatAppend DEF Pending, q
      <4>2. Last(kernelQueue') = e
        BY <3>2, <1>4, AppendFacts DEF Last
      <4> QED
        BY <3>2, <4>1, <4>2, <1>7, <1>9 DEF wd
    <3> QED
      BY <3>1, <3>2, <1>6
  <2>7. /\ QueueSound(Pending', LiveWds \ {wd}, KnownWds, lastWd)
        /\ \A w : Ignored(q, w) => Ignored(Pending', w)
        /\ Ignored(Pending', wd) \/ wd \in orphans'
    <3>1. QueueSound(q, LiveWds \ {wd}, KnownWds, lastWd)
      BY <1>5, <2>1, SoundMore
    <3>2. ASSUME NEW e \in Event, e.mask = "IN_IGNORED", e.wd = wd, Pending' = Append(q, e)
          PROVE  /\ QueueSound(Pending', LiveWds \ {wd}, KnownWds, lastWd)
                 /\ \A w : Ignored(q, w) => Ignored(Pending', w)
                 /\ Ignored(Pending', wd)
      BY <3>2, <1>4, <1>5, <2>1, SoundIgnored, IgnoredAppend
    <3>3. ASSUME NEW e \in Event, e.mask = "IN_Q_OVERFLOW", Pending' = Append(q, e)
          PROVE  /\ QueueSound(Pending', LiveWds \ {wd}, KnownWds, lastWd)
                 /\ \A w : Ignored(q, w) => Ignored(Pending', w)
      BY <3>1, <3>3, <1>4, <2>1, SoundAppend, IgnoredAppend
    <3> QED
      BY <3>1, <3>2, <3>3, <2>6
  <2>8. QueueSound(Pending', LiveWds', KnownWds', lastWd')
    BY <1>2, <2>1, <2>4, <2>5, <2>7, SoundMore
  <2>9. LiveWds' \ {0} \subseteq KnownWds'
    BY <2>4, <2>5 DEF OpenInv
  <2>10. \A w \in KnownWds' : w \in LiveWds' \/ Ignored(Pending', w) \/ w \in orphans'
    <3>1. orphans \subseteq orphans'
      BY <1>7
    <3> QED
      BY <3>1, <1>5, <2>4, <2>5, <2>7 DEF OpenInv
  <2>11. ASSUME NEW f \in Dir \ moved'
         PROVE  /\ watch'[f] \in DOMAIN inotifyWds /\ watch'[f] # adding.wd
                     => inotifyWds[watch'[f]] = place'[f]
                /\ watch'[f] = adding.wd /\ adding # NotAdding => adding.path = place'[f]
    <3>1. 0 \notin DOMAIN inotifyWds /\ (adding # NotAdding => adding.wd # 0)
      BY DEF WatcherTypes
    <3>2. CASE f = d
      BY <3>1, <3>2, <2>3
    <3>3. CASE f # d
      BY <3>3, <1>2, <2>2 DEF OpenInv
    <3> QED
      BY <3>2, <3>3
  <2> QED
    BY <1>2, <2>8, <2>9, <2>10, <2>11 DEF OpenInv
<1> QED
  BY <1>8, <1>9

LEMMA EnvironmentOpen ==
    ASSUME WatcherTypes, WatchesUnique, OpenInv, Environment
    PROVE  OpenInv'
<1> USE DEF Pending
<1>1. UNCHANGED <<inotifyWds, adding, watchBuffer>>
  BY DEF Environment, Mkdir, Rmdir, Rename, Write, OsOnly, mapVars, readerVars
<1>2. ASSUME NEW d \in Dir, NEW p \in Path, Mkdir(d, p)
      PROVE  OpenInv'
  <2>1. PICK up \in Parent(p) : kernelQueue' = Emit(kernelQueue, up, "IN_CREATE", <<Last(p)>>)
    BY <1>2 DEF Mkdir
  <2>2. /\ place' = [place EXCEPT ![d] = p] /\ moved' = moved \ {d}
        /\ watch[d] = 0 /\ UNCHANGED <<watch, lastWd, orphans>>
    BY <1>2 DEF Mkdir, WatchesUnique
  <2>3. up \in Dir /\ <<Last(p)>> \in Names
    BY <1>2, LastIsName DEF Mkdir, Parent, DirAt
  <2>4. kernelQueue \in Seq(Event) /\ \A f \in Dir \ {d} : place'[f] = place[f]
    BY <2>2 DEF WatcherTypes
  <2>5. /\ QueueSound(watchBuffer \o kernelQueue', LiveWds, KnownWds, lastWd)
        /\ \A wd : Ignored(Pending, wd) => Ignored(watchBuffer \o kernelQueue', wd)
    BY <2>1, <2>3, <2>4, EmitSound DEF OpenInv, Mask
  <2>6. \A f \in Dir : watch[f] = 0 \/ f \in moved' \/ (f \notin moved /\ place'[f] = place[f])
    BY <2>2, <2>4
  <2> QED
    BY <1>1, <2>2, <2>5, <2>6, ChangeOpen
<1>3. ASSUME NEW d \in Dir, NEW p \in Path, Rename(d, p)
      PROVE  OpenInv'
  <2> DEFINE old == place[d]
             Below == {e \in Dir : Exists(e) /\ IsPrefix(old, place[e])}
  <2>1. PICK from \in Parent(old), to \in Parent(p) :
          kernelQueue' = Emit(Emit(kernelQueue, from, "IN_MOVED_FROM", <<Last(old)>>),
                              to, "IN_MOVED_TO", <<Last(p)>>)
    BY <1>3 DEF Rename
  <2>2. /\ old \in Path /\ old # << >> /\ p # << >>
        /\ UNCHANGED <<watch, lastWd, orphans>> /\ moved' = moved \union Below
        /\ \A f \in Dir \ Below : place'[f] = place[f]
    BY <1>3 DEF Rename, Exists, WatcherTypes
  <2>3. from \in Dir /\ to \in Dir /\ <<Last(old)>> \in Names /\ <<Last(p)>> \in Names
    BY <2>2, LastIsName DEF Parent, DirAt
  <2> DEFINE q == Emit(kernelQueue, from, "IN_MOVED_FROM", <<Last(old)>>)
  <2>4. kernelQueue \in Seq(Event) /\ q \in Seq(Event)
    BY <2>3, EmitType DEF WatcherTypes, Mask
  <2>5. /\ QueueSound(watchBuffer \o q, LiveWds, KnownWds, lastWd)
        /\ \A wd : Ignored(Pending, wd) => Ignored(watchBuffer \o q, wd)
    BY <2>3, <2>4, EmitSound DEF OpenInv, Mask
  <2>6. kernelQueue' = Emit(q, to, "IN_MOVED_TO", <<Last(p)>>)
    BY <2>1
  <2> HIDE DEF q, old, Below
  <2>7. /\ QueueSound(watchBuffer \o kernelQueue', LiveWds, KnownWds, lastWd)
        /\ \A wd : Ignored(watchBuffer \o q, wd) => Ignored(watchBuffer \o kernelQueue', wd)
    BY <2>3, <2>4, <2>5, <2>6, EmitSound DEF Mask
  <2>8. \A f \in Dir : watch[f] = 0 \/ f \in moved' \/ (f \notin moved /\ place'[f] = place[f])
    BY <2>2
  <2> QED
    BY <1>1, <2>2, <2>5, <2>7, <2>8, ChangeOpen
<1>4. ASSUME NEW d \in Dir, Write(d)
      PROVE  OpenInv'
  <2>1. /\ kernelQueue' = Emit(kernelQueue, d, "IN_MODIFY", <<"file">>)
        /\ UNCHANGED <<place, watch, lastWd, moved, orphans>>
    BY <1>4 DEF Write
  <2>2. kernelQueue \in Seq(Event) /\ <<"file">> \in Names
    BY DEF WatcherTypes, Names
  <2>3. /\ QueueSound(watchBuffer \o kernelQueue', LiveWds, KnownWds, lastWd)
        /\ \A wd : Ignored(Pending, wd) => Ignored(watchBuffer \o kernelQueue', wd)
    BY <2>1, <2>2, EmitSound DEF OpenInv, Mask
  <2>4. \A f \in Dir : f \in moved' \/ (f \notin moved /\ place'[f] = place[f])
    BY <2>1
  <2> QED
    BY <1>1, <2>1, <2>3, <2>4, ChangeOpen
<1> QED
  BY <1>2, <1>3, <1>4, RmdirOpen DEF Environment

\* A directory given to inotify is known from then on, at the path given.
LEMMA AddWatchOpen ==
    ASSUME WatcherTypes, WatchesUnique, OpenInv, NEW p \in Path, NEW failed,
           AddWatch(p, failed), adding = NotAdding,
           UNCHANGED <<place, kernelQueue, inotifyWds, watchBuffer, orphans>>
    PROVE  OpenInv'
<1>1. Pending' = Pending
  BY DEF Pending
<1>2. CASE UNCHANGED <<watch, lastWd, adding, moved>>
  BY <1>1, <1>2, OpenFrame
<1>3. ASSUME NEW d \in Dir,
             place[d] = p,
             \/ watch[d] # 0 /\ UNCHANGED <<watch, lastWd>>
             \/ /\ watch[d] = 0 /\ lastWd' = lastWd + 1
                /\ watch' = [watch EXCEPT ![d] = lastWd + 1],
             adding' = [wd |-> watch'[d], path |-> p],
             moved' = moved \ {d}
      PROVE  OpenInv'
  <2>1. /\ lastWd \in Nat /\ lastWd' \in Nat /\ lastWd <= lastWd'
        /\ watch'[d] # 0 /\ adding.wd = 0
        /\ \A f \in Dir : watch[f] \in 0..lastWd
        /\ \A f \in Dir \ {d} : watch'[f] = watch[f]
    BY <1>3 DEF WatcherTypes, NotAdding
  <2>2. watch'[d] = watch[d] \/ watch'[d] = lastWd + 1
    BY <1>3 DEF WatcherTypes
  <2>3. \A f \in Dir \ {d} : watch'[f] # watch'[d]
    BY <1>3, <2>1, <2>2 DEF WatchesUnique
  <2>4. KnownWds \subseteq KnownWds' /\ KnownWds' = DOMAIN inotifyWds \union {watch'[d]}
        /\ KnownWds = DOMAIN inotifyWds
    BY <1>3, <2>1 DEF KnownWds
  <2>5. LiveWds' \intersect (1..lastWd) \subseteq LiveWds
    BY <2>1, <2>2 DEF LiveWds
  <2>6. QueueSound(Pending', LiveWds', KnownWds', lastWd')
    BY <1>1, <2>1, <2>4, <2>5, SoundMore DEF OpenInv
  <2>7. LiveWds' \ {0} \subseteq KnownWds'
    <3> SUFFICES ASSUME NEW f \in Dir, watch'[f] # 0 PROVE watch'[f] \in KnownWds'
      BY DEF LiveWds
    <3> QED
      BY <2>1, <2>4 DEF OpenInv, LiveWds
  <2>8. \A wd \in KnownWds' : wd \in LiveWds' \/ Ignored(Pending', wd) \/ wd \in orphans'
    <3> SUFFICES ASSUME NEW wd \in KnownWds'
                 PROVE  wd \in LiveWds' \/ Ignored(Pending', wd) \/ wd \in orphans'
      OBVIOUS
    <3>1. CASE wd = watch'[d]
      BY <3>1 DEF LiveWds
    <3>2. CASE wd \in DOMAIN inotifyWds
      <4>1. wd \in LiveWds \/ Ignored(Pending, wd) \/ wd \in orphans
        BY <3>2, <2>4 DEF OpenInv
      <4>2. wd \in LiveWds => wd \in LiveWds'
        <5> SUFFICES ASSUME NEW f \in Dir, wd = watch[f] PROVE wd \in LiveWds'
          BY DEF LiveWds
        <5>1. wd # 0
          BY <3>2 DEF WatcherTypes
        <5>2. watch'[f] = wd
          BY <5>1, <1>3, <2>1
        <5> QED
          BY <5>2 DEF LiveWds
      <4> QED
        BY <4>1, <4>2, <1>1
    <3> QED
      BY <3>1, <3>2, <2>4
  <2>9. ASSUME NEW f \in Dir \ moved'
        PROVE  /\ watch'[f] \in DOMAIN inotifyWds /\ watch'[f] # adding'.wd
                    => inotifyWds[watch'[f]] = place[f]
               /\ watch'[f] = adding'.wd => adding'.path = place[f]
    <3>1. CASE f = d
      BY <3>1, <1>3
    <3>2. CASE f # d
      <4>1. watch'[f] = watch[f] /\ watch'[f] # adding'.wd /\ f \notin moved
        BY <3>2, <1>3, <2>1, <2>3, <2>9
      <4>2. watch[f] \in DOMAIN inotifyWds => watch[f] # adding.wd
        BY <2>1 DEF WatcherTypes
      <4> QED
        BY <4>1, <4>2 DEF OpenInv
    <3> QED
      BY <3>1, <3>2
  <2> QED
    BY <2>6, <2>7, <2>8, <2>9 DEF OpenInv
<1> QED
  BY <1>2, <1>3, AddWatchCases

LEMMA AddDirEndOpen ==
    ASSUME WatcherTypes, WatchesUnique, OpenInv, AddDirEnd
    PROVE  OpenInv'
<1>1. /\ adding # NotAdding /\ Store(adding.wd, adding.path) /\ adding' = NotAdding
      /\ UNCHANGED <<place, watch, lastWd, kernelQueue, moved, watchBuffer, orphans>>
  BY DEF AddDirEnd, osVars, readerVars
<1>2. /\ DOMAIN inotifyWds' = DOMAIN inotifyWds \union {adding.wd}
      /\ \A w \in DOMAIN inotifyWds' :
           inotifyWds'[w] = IF w = adding.wd THEN adding.path ELSE inotifyWds[w]
  BY <1>1 DEF Store
<1>3. adding.wd # 0 /\ adding'.wd = 0
  BY <1>1 DEF WatcherTypes, NotAdding
<1>4. KnownWds' = KnownWds /\ LiveWds' = LiveWds /\ Pending' = Pending
  BY <1>1, <1>2, <1>3 DEF KnownWds, LiveWds, Pending
<1>5. \A d \in Dir \ moved : watch[d] \in DOMAIN inotifyWds' => inotifyWds'[watch[d]] = place[d]
  BY <1>1, <1>2 DEF OpenInv
<1> QED
  BY <1>1, <1>4, <1>5 DEF OpenInv

\* IN_IGNORED takes the entry out, unless addDir is about to make it: then the
\* descriptor is an orphan.
LEMMA ProcessOpen ==
    ASSUME WatcherTypes, OpenInv, ProcessInotifyEvent
    PROVE  OpenInv'
<1> DEFINE event == Head(watchBuffer)
           wd == event.wd
           known == event.wd \in DOMAIN inotifyWds
<1>1. UNCHANGED <<place, watch, lastWd, moved, adding>>
  BY DEF ProcessInotifyEvent, osVars
<1>2. /\ Pending \in Seq(Event) /\ Pending # << >> /\ Pending' = Tail(Pending)
      /\ event = Pending[1] /\ event \in Event
  BY ProcessFacts DEF Pending
<1>3. LiveWds' = LiveWds /\ lastWd \in Nat
  BY <1>1 DEF LiveWds, WatcherTypes
<1>4. CASE event.mask = "IN_IGNORED"
  <2>1. /\ IF known THEN Forget(wd) ELSE UNCHANGED mapVars
        /\ orphans' = IF wd = adding.wd THEN orphans \union {wd} ELSE orphans
    BY <1>4 DEF ProcessInotifyEvent
  <2>2. wd \in (1..lastWd) \ LiveWds
    <3>1. 1 \in 1..Len(Pending)
      BY <1>2
    <3> QED
      BY <3>1, <1>2, <1>4 DEF OpenInv, QueueSound
  <2>3. /\ DOMAIN inotifyWds' = DOMAIN inotifyWds \ {wd}
        /\ \A w \in DOMAIN inotifyWds' : inotifyWds'[w] = inotifyWds[w]
    BY <2>1 DEF Forget, mapVars
  <2>4. KnownWds \ {wd} \subseteq KnownWds' /\ KnownWds' \subseteq KnownWds
        /\ (wd \in KnownWds' => wd \in orphans')
    BY <1>1, <2>1, <2>3 DEF KnownWds
  <2> HIDE DEF event, known
  <2>5. QueueSound(Pending', LiveWds', KnownWds', lastWd')
    BY <1>1, <1>2, <1>3, <1>4, <2>4, SoundTail DEF OpenInv
  <2>6. LiveWds' \ {0} \subseteq KnownWds'
    BY <1>3, <2>2, <2>4 DEF OpenInv
  <2>7. \A w \in KnownWds' : w \in LiveWds' \/ Ignored(Pending', w) \/ w \in orphans'
    <3> SUFFICES ASSUME NEW w \in KnownWds', w # wd
                 PROVE  w \in LiveWds' \/ Ignored(Pending', w) \/ w \in orphans'
      BY <2>4
    <3>1. w \in LiveWds \/ Ignored(Pending, w) \/ w \in orphans
      BY <2>4 DEF OpenInv
    <3>2. orphans \subseteq orphans'
      BY <2>1
    <3> QED
      BY <3>1, <3>2, <1>2, <1>3, IgnoredTail
  <2>8. ASSUME NEW d \in Dir \ moved'
        PROVE  /\ watch'[d] \in DOMAIN inotifyWds' /\ watch'[d] # adding'.wd
                    => inotifyWds'[watch'[d]] = place'[d]
               /\ watch'[d] = adding'.wd /\ adding' # NotAdding => adding'.path = place'[d]
    BY <1>1, <2>3 DEF OpenInv
  <2> QED
    BY <2>5, <2>6, <2>7, <2>8 DEF OpenInv
<1>5. CASE event.mask # "IN_IGNORED"
  <2>1. UNCHANGED <<inotifyWds, orphans>>
    BY <1>5 DEF ProcessInotifyEvent, mapVars
  <2>2. KnownWds' = KnownWds
    BY <1>1, <2>1 DEF KnownWds
  <2> HIDE DEF event, known
  <2>3. QueueSound(Pending', LiveWds', KnownWds', lastWd')
    BY <1>1, <1>2, <1>3, <2>2, SoundTail DEF OpenInv
  <2>4. \A w : Ignored(Pending, w) => Ignored(Pending', w)
    BY <1>2, <1>5, IgnoredTail
  <2> QED
    BY <1>1, <1>3, <2>1, <2>2, <2>3, <2>4 DEF OpenInv
<1> QED
  BY <1>4, <1>5

LEMMA OpenStep ==
    ASSUME WatcherInv, [Next]_vars
    PROVE  IsOpen' => OpenInv'
<1> SUFFICES ASSUME IsOpen' PROVE OpenInv'
  OBVIOUS
<1> USE DEF osVars, mapVars, readerVars, IsOpen, WatcherInv
<1>1. CASE Construct \/ Close \/ Clear \/ Destroyed \/ StopThread \/ Join \/ Undefined
  BY <1>1 DEF Construct, Close, Clear, Destroyed, StopThread, Join, Undefined
<1>2. CASE InitInotify
  <2>1. /\ DOMAIN inotifyWds' = {} /\ \A d \in Dir : watch'[d] = 0
        /\ kernelQueue' = << >> /\ watchBuffer' = << >> /\ adding' = NotAdding
        /\ lastWd' \in Nat
    BY <1>2 DEF InitInotify, WatchesUnique, WatcherTypes
  <2>2. Pending' = << >> /\ LiveWds' \subseteq {0} /\ KnownWds' = {}
    BY <2>1 DEF Pending, LiveWds, KnownWds, NotAdding
  <2>3. QueueSound(<< >>, LiveWds', KnownWds', lastWd')
    BY DEF QueueSound
  <2> QED
    BY <2>1, <2>2, <2>3 DEF OpenInv
<1>3. CASE BeginWatch
  BY <1>3, AddWatchOpen, WatcherAssumption DEF BeginWatch
<1>4. CASE \E p \in Path : AddDirBegin(p)
  BY <1>4, AddWatchOpen DEF AddDirBegin
<1>5. CASE AddDirEnd
  BY <1>5, AddDirEndOpen DEF AddDirEnd, WatchesUnique
<1>6. CASE PopEvent \/ WatcherRun
  BY <1>6, OpenFrame DEF PopEvent, WatcherRun, Pending
<1>7. CASE ReadEvents
  BY <1>7, ReadFacts, OpenFrame DEF ReadEvents, Pending
<1>8. CASE ProcessInotifyEvent
  BY <1>8, ProcessOpen DEF ProcessInotifyEvent
<1>9. CASE Environment
  <2>1. phase' = phase
    BY <1>9 DEF Environment, Mkdir, Rmdir, Rename, Write, OsOnly
  <2> QED
    BY <1>9, <2>1, EnvironmentOpen
<1>10. CASE Done \/ UNCHANGED vars
  BY <1>10, OpenFrame DEF Done, vars, Pending
<1> QED
  BY <1>1, <1>2, <1>3, <1>4, <1>5, <1>6, <1>7, <1>8, <1>9, <1>10 DEF Next, Owner, Watcher

LEMMA WatcherAlways == Spec => []WatcherInv
<1>1. Init => WatcherInv
  <2> SUFFICES ASSUME Init PROVE WatcherInv
    OBVIOUS
  <2>1. /\ DOMAIN inotifyWds = {} /\ \A d \in Dir : watch[d] = 0 /\ watch[d] \in 0..0
        /\ kernelQueue = << >> /\ watchBuffer = << >> /\ adding = NotAdding
        /\ lastWd = 0 /\ phase = "base" /\ rpc = "check" /\ changes = 0
    BY DEF Init
  <2>2. place \in [Dir -> Path \union {Nowhere}] /\ \A d \in Dir : place[d] = << >> => d = Root
    BY WatcherAssumption DEF Init
  <2>3. watch \in [Dir -> 0..lastWd]
    BY DEF Init
  <2>4. << >> \in Seq(Event)
    BY EmptySeq
  <2>5. WatcherTypes
    BY <2>1, <2>2, <2>3, <2>4 DEF WatcherTypes
  <2> QED
    BY <2>1, <2>5 DEF WatcherInv, WatchesUnique, IsOpen
<1>2. WatcherInv /\ [Next]_vars => WatcherInv'
  BY TypesStep, UniqueStep, OpenStep DEF WatcherInv
<1> QED
  BY <1>1, <1>2, PTL DEF Spec

-----------------------------------------------------------------------------
(* The order of the notifications.                                            *)

Notice == [action : {"ADDED", "REMOVED", "MODIFIED", "OLD_NAME", "NEW_NAME"},
           filepath : Seq(Name \union {"file"}), parentpath : Path, at : Nat]
Item   == Notice \union Event

\* Later ones are of later changes, none of a change to come.
Ordered(q, now) ==
    /\ \A i \in 1..Len(q) : q[i].at <= now
    /\ \A i, j \in 1..Len(q) : i < j => q[i].at <= q[j].at

OrderInv ==
    /\ \A wd \in DOMAIN inotifyWds : inotifyWds[wd] \in Path
    /\ eventQueue \in Seq(Notice)
    /\ Ordered(eventQueue \o Pending, changes)

LEMMA ItemSeqs ==
    ASSUME NEW p \in Seq(Notice), NEW q \in Seq(Event), NEW r \in Seq(Event)
    PROVE  /\ p \in Seq(Item) /\ q \in Seq(Item) /\ p \o q \in Seq(Item)
           /\ Len(p) \in Nat /\ Len(q) \in Nat /\ Len(p \o q) = Len(p) + Len(q)
           /\ \A i \in 1..Len(p) : (p \o q)[i] = p[i]
           /\ \A i \in 1..Len(q) : (p \o q)[Len(p) + i] = q[i]
           /\ (p \o q) \o r = p \o (q \o r)
<1>1. p \in Seq(Item) /\ q \in Seq(Item) /\ r \in Seq(Item)
  BY DEF Item
<1> QED
  BY <1>1

\* Taking some out keeps the order, whatever else of the events is rewritten.
LEMMA OrderedPart ==
    ASSUME NEW q \in Seq(Item), NEW r \in Seq(Item), NEW now \in Nat, Ordered(q, now),
           NEW at \in [1..Len(r) -> 1..Len(q)],
           \A i \in 1..Len(r) : r[i].at = q[at[i]].at,
           \A i, j \in 1..Len(r) : i < j => at[i] < at[j]
    PROVE  Ordered(r, now)
  BY DEF Ordered

LEMMA OrderedAppend ==
    ASSUME NEW q \in Seq(Item), NEW e \in Item, NEW now \in Nat, Ordered(q, now), e.at = now
    PROVE  Ordered(Append(q, e), now)
<1>1. /\ Len(Append(q, e)) = Len(q) + 1 /\ Len(q) \in Nat
      /\ \A i \in 1..Len(q) : Append(q, e)[i] = q[i]
      /\ Append(q, e)[Len(q) + 1] = e
  OBVIOUS
<1> QED
  BY <1>1 DEF Ordered

LEMMA OrderedEmit ==
    ASSUME WatcherTypes, NEW q \in Seq(Event), NEW d \in Dir,
           NEW mask \in Mask \ {"IN_Q_OVERFLOW"}, NEW name \in Names,
           NEW p \in Seq(Item), Ordered(p \o q, changes)
    PROVE  Ordered(p \o Emit(q, d, mask, name), changes)
<1>1. CASE Emit(q, d, mask, name) = q
  BY <1>1
<1>2. ASSUME NEW e \in Event, Emit(q, d, mask, name) = Append(q, e), e.at = changes
      PROVE  Ordered(p \o Emit(q, d, mask, name), changes)
  <2>1. q \in Seq(Item) /\ e \in Item /\ p \o q \in Seq(Item)
    BY DEF Item
  <2>2. p \o Append(q, e) = Append(p \o q, e)
    BY <2>1
  <2> QED
    BY <1>2, <2>1, <2>2, OrderedAppend DEF WatcherTypes
<1> QED
  BY <1>1, <1>2, EmitShape

LEMMA EnvironmentOrder ==
    ASSUME WatcherTypes, OrderInv, Environment
    PROVE  OrderInv'
<1> DEFINE p == eventQueue \o watchBuffer
<1>1. UNCHANGED <<inotifyWds, eventQueue, watchBuffer>> /\ changes' = changes + 1
  BY DEF Environment, Mkdir, Rmdir, Rename, Write, OsOnly, mapVars, readerVars, Change
<1>2. eventQueue \in Seq(Notice) /\ watchBuffer \in Seq(Event) /\ kernelQueue \in Seq(Event)
      /\ changes \in Nat
  BY DEF OrderInv, WatcherTypes
<1>3. p \in Seq(Item) /\ \A q \in Seq(Event) : p \o q = eventQueue \o (watchBuffer \o q)
  BY <1>2, ItemSeqs
<1>4. Ordered(p \o kernelQueue, changes)
  BY <1>2, <1>3 DEF OrderInv, Pending
<1> HIDE DEF p
<1>5. ASSUME NEW q \in Seq(Event), Ordered(p \o q, changes), kernelQueue' = q
      PROVE  OrderInv'
  <2> DEFINE r == p \o q
  <2>1. (eventQueue \o Pending)' = r
    BY <1>1, <1>3, <1>5 DEF Pending
  <2>2. r \in Seq(Item)
    BY <1>3 DEF Item
  <2>5. Ordered(r, changes)
    BY <1>5
  <2> HIDE DEF r
  <2>3. \A i \in 1..Len(r) : r[i].at \in Nat
    <3>1. \A x \in Item : x.at \in Nat
      BY DEF Item, Notice, Event
    <3> QED
      BY <2>2, <3>1
  <2>4. Ordered(r, changes')
    BY <1>1, <1>2, <2>3, <2>5 DEF Ordered
  <2> QED
    BY <1>1, <2>1, <2>4 DEF OrderInv
<1>6. ASSUME NEW q \in Seq(Event), Ordered(p \o q, changes), NEW d \in Dir, NEW name \in Names,
             NEW mask \in Mask \ {"IN_Q_OVERFLOW"}
      PROVE  Emit(q, d, mask, name) \in Seq(Event) /\ Ordered(p \o Emit(q, d, mask, name), changes)
  BY <1>3, <1>6, EmitType, OrderedEmit
<1>7. ASSUME NEW d \in Dir, NEW c \in Path, Mkdir(d, c)
      PROVE  OrderInv'
  <2>1. PICK up \in Parent(c) : kernelQueue' = Emit(kernelQueue, up, "IN_CREATE", <<Last(c)>>)
    BY <1>7 DEF Mkdir
  <2>2. up \in Dir /\ <<Last(c)>> \in Names
    BY <1>7, LastIsName DEF Mkdir, Parent, DirAt
  <2> QED
    BY <1>2, <1>4, <1>5, <1>6, <2>1, <2>2 DEF Mask
<1>8. ASSUME NEW d \in Dir, Rmdir(d)
      PROVE  OrderInv'
  <2>1. PICK up \in Parent(place[d]) :
          kernelQueue' = Emit(Emit(kernelQueue, up, "IN_DELETE", <<Last(place[d])>>),
                              d, "IN_IGNORED", << >>)
    BY <1>8 DEF Rmdir
  <2>2. place[d] \in Path /\ place[d] # << >>
    BY <1>8 DEF Rmdir, Exists, WatcherTypes
  <2>3. up \in Dir /\ <<Last(place[d])>> \in Names /\ << >> \in Names
    BY <2>2, LastIsName DEF Parent, DirAt, Names
  <2> DEFINE q == Emit(kernelQueue, up, "IN_DELETE", <<Last(place[d])>>)
  <2>4. q \in Seq(Event) /\ Ordered(p \o q, changes)
    BY <1>2, <1>4, <1>6, <2>3 DEF Mask
  <2>5. kernelQueue' = Emit(q, d, "IN_IGNORED", << >>)
    BY <2>1
  <2> HIDE DEF q
  <2> QED
    BY <1>5, <1>6, <2>3, <2>4, <2>5 DEF Mask
<1>9. ASSUME NEW d \in Dir, NEW c \in Path, Rename(d, c)
      PROVE  OrderInv'
  <2>1. PICK from \in Parent(place[d]), to \in Parent(c) :
          kernelQueue' = Emit(Emit(kernelQueue, from, "IN_MOVED_FROM", <<Last(place[d])>>),
                              to, "IN_MOVED_TO", <<Last(c)>>)
    BY <1>9 DEF Rename
  <2>2. place[d] \in Path /\ place[d] # << >> /\ c # << >>
    BY <1>9 DEF Rename, Exists, WatcherTypes
  <2>3. from \in Dir /\ to \in Dir /\ <<Last(place[d])>> \in Names /\ <<Last(c)>> \in Names
    BY <2>2, LastIsName DEF Parent, DirAt
  <2> DEFINE q == Emit(kernelQueue, from, "IN_MOVED_FROM", <<Last(place[d])>>)
  <2>4. q \in Seq(Event) /\ Ordered(p \o q, changes)
    BY <1>2, <1>4, <1>6, <2>3 DEF Mask
  <2>5. kernelQueue' = Emit(q, to, "IN_MOVED_TO", <<Last(c)>>)
    BY <2>1
  <2> HIDE DEF q
  <2> QED
    BY <1>5, <1>6, <2>3, <2>4, <2>5 DEF Mask
<1>10. ASSUME NEW d \in Dir, Write(d)
       PROVE  OrderInv'
  <2>1. kernelQueue' = Emit(kernelQueue, d, "IN_MODIFY", <<"file">>) /\ <<"file">> \in Names
    BY <1>10 DEF Write, Names
  <2> QED
    BY <1>2, <1>4, <1>5, <1>6, <2>1 DEF Mask
<1> QED
  BY <1>7, <1>8, <1>9, <1>10 DEF Environment

\* The event processed leaves its place in the order to the notification made of it.
LEMMA ProcessOrder ==
    ASSUME WatcherTypes, OrderInv, ProcessInotifyEvent
    PROVE  OrderInv'
<1> DEFINE event == Head(watchBuffer)
           q == eventQueue \o Pending
           left == Tail(Pending)
           n == Len(eventQueue)
<1>1. /\ eventQueue \in Seq(Notice) /\ Pending \in Seq(Event) /\ left \in Seq(Event)
      /\ changes \in Nat /\ n \in Nat /\ Pending' = left
  <2>1. eventQueue \in Seq(Notice) /\ changes \in Nat
    BY DEF OrderInv, WatcherTypes
  <2>2. Pending \in Seq(Event) /\ Pending # << >> /\ Pending' = left
    BY ProcessFacts DEF Pending
  <2> QED
    BY <2>1, <2>2
<1>2. /\ Pending # << >> /\ event = Pending[1] /\ event \in Event
      /\ Len(left) = Len(Pending) - 1 /\ Len(Pending) \in Nat \ {0}
      /\ \A i \in 1..Len(left) : left[i] = Pending[i + 1]
  <2>1. Pending # << >> /\ event = Pending[1] /\ event \in Event
    BY ProcessFacts DEF Pending
  <2>2. Len(left) = Len(Pending) - 1 /\ Len(Pending) \in Nat \ {0}
    BY <1>1, <2>1, HeadTailProperties, EmptySeq
  <2>3. \A i \in 1..Len(left) : left[i] = Pending[i + 1]
    BY <1>1, <2>1, <2>2
  <2> QED
    BY <2>1, <2>2, <2>3
<1>3. /\ q \in Seq(Item) /\ Len(q) = n + Len(Pending) /\ Ordered(q, changes)
      /\ \A i \in 1..n : q[i] = eventQueue[i]
      /\ \A i \in 1..Len(Pending) : q[n + i] = Pending[i]
  BY <1>1, ItemSeqs DEF OrderInv
<1>4. UNCHANGED changes /\ \A wd \in DOMAIN inotifyWds' : inotifyWds'[wd] \in Path
  BY DEF ProcessInotifyEvent, osVars, Forget, mapVars, OrderInv
<1>5. CASE eventQueue' = eventQueue
  <2> DEFINE r == eventQueue \o left
             at == [i \in 1..Len(r) |-> IF i <= n THEN i ELSE i + 1]
  <2>1. /\ r \in Seq(Item) /\ Len(r) = n + Len(left)
        /\ \A i \in 1..n : r[i] = eventQueue[i]
        /\ \A i \in 1..Len(left) : r[n + i] = left[i]
    BY <1>1, ItemSeqs
  <2> HIDE DEF r
  <2>2. at \in [1..Len(r) -> 1..Len(q)]
    BY <1>1, <1>2, <1>3, <2>1
  <2>3. ASSUME NEW i \in 1..Len(r) PROVE r[i].at = q[at[i]].at
    <3>1. CASE i <= n
      BY <3>1, <1>1, <1>3, <2>1
    <3>2. CASE ~ (i <= n)
      <4>1. i - n \in 1..Len(left) /\ n + (i - n) = i /\ n + ((i - n) + 1) = i + 1
        BY <3>2, <1>1, <1>2, <2>1
      <4>2. r[i] = left[i - n] /\ left[i - n] = Pending[(i - n) + 1]
        BY <4>1, <1>2, <2>1
      <4>3. (i - n) + 1 \in 1..Len(Pending)
        BY <4>1, <1>2
      <4>4. q[i + 1] = Pending[(i - n) + 1]
        BY <4>1, <4>3, <1>3
      <4> QED
        BY <3>2, <4>2, <4>4
    <3> QED
      BY <3>1, <3>2
  <2>4. \A i, j \in 1..Len(r) : i < j => at[i] < at[j]
    BY <1>1, <1>2, <2>1
  <2> HIDE DEF at, q, left, n
  <2>5. Ordered(r, changes)
    BY <1>1, <1>3, <2>1, <2>2, <2>3, <2>4, OrderedPart
  <2> QED
    BY <1>1, <1>4, <1>5, <2>5 DEF OrderInv, r
<1>6. ASSUME NEW e \in Notice, eventQueue' = Append(eventQueue, e), e.at = event.at
      PROVE  OrderInv'
  <2> DEFINE p == Append(eventQueue, e)
             r == p \o left
  <2>1. /\ p \in Seq(Notice) /\ Len(p) = n + 1
        /\ \A i \in 1..n : p[i] = eventQueue[i]
        /\ p[n + 1] = e
    BY <1>1
  <2> HIDE DEF p
  <2>2. /\ r \in Seq(Item) /\ Len(r) = (n + 1) + Len(left)
        /\ \A i \in 1..n + 1 : r[i] = p[i]
        /\ \A i \in 1..Len(left) : r[(n + 1) + i] = left[i]
    <3>1. /\ r \in Seq(Item) /\ Len(r) = Len(p) + Len(left)
          /\ \A i \in 1..Len(p) : r[i] = p[i]
          /\ \A i \in 1..Len(left) : r[Len(p) + i] = left[i]
      BY <1>1, <2>1, ItemSeqs
    <3> HIDE DEF r
    <3> QED
      BY <2>1, <3>1
  <2>3. Len(r) = Len(q) /\ Len(left) \in Nat
    BY <1>1, <1>2, <1>3, <2>2
  <2> HIDE DEF r, q, left, n, event
  <2>4. ASSUME NEW i \in 1..Len(r) PROVE r[i].at = q[i].at
    <3>1. CASE i <= n
      BY <3>1, <1>1, <1>3, <2>1, <2>2
    <3>2. CASE i = n + 1
      BY <3>2, <1>1, <1>2, <1>3, <1>6, <2>1, <2>2
    <3>3. CASE i > n + 1
      <4>1. /\ i - (n + 1) \in 1..Len(left) /\ (n + 1) + (i - (n + 1)) = i
            /\ n + ((i - (n + 1)) + 1) = i
        <5>1. i \in Int /\ Len(left) \in Nat /\ n \in Nat /\ i <= (n + 1) + Len(left)
          BY <1>1, <2>2, <2>3
        <5> QED
          BY <3>3, <5>1
      <4>2. r[i] = left[i - (n + 1)] /\ left[i - (n + 1)] = Pending[(i - (n + 1)) + 1]
        BY <4>1, <1>2, <2>2
      <4>3. (i - (n + 1)) + 1 \in 1..Len(Pending)
        BY <4>1, <1>2
      <4>4. q[i] = Pending[(i - (n + 1)) + 1]
        BY <4>1, <4>3, <1>3
      <4> QED
        BY <4>2, <4>4
    <3> QED
      BY <3>1, <3>2, <3>3, <1>1, <2>2, <2>3
  <2>5. Ordered(r, changes)
    BY <1>3, <2>3, <2>4 DEF Ordered
  <2> QED
    BY <1>1, <1>4, <1>6, <2>1, <2>5 DEF OrderInv, r, p
<1>7. \/ eventQueue' = eventQueue
      \/ \E e \in Notice : eventQueue' = Append(eventQueue, e) /\ e.at = event.at
  <2> SUFFICES ASSUME event.mask # "IN_IGNORED", event.wd \in DOMAIN inotifyWds,
                      event.name # << >>, eventQueue' # eventQueue
               PROVE  \E e \in Notice : eventQueue' = Append(eventQueue, e) /\ e.at = event.at
    BY DEF ProcessInotifyEvent
  <2> DEFINE e == [action     |-> Action(event.mask),
                   filepath   |-> inotifyWds[event.wd] \o event.name,
                   parentpath |-> inotifyWds[event.wd],
                   at         |-> event.at]
  <2>1. eventQueue' = Append(eventQueue, e)
    BY DEF ProcessInotifyEvent, AddEvent
  <2>2. event.mask \in Mask \ {"IN_IGNORED", "IN_Q_OVERFLOW"}
    BY <1>2 DEF Event, WatcherTypes
  <2>3. Action(event.mask) \in {"ADDED", "REMOVED", "MODIFIED", "OLD_NAME", "NEW_NAME"}
    BY <2>2 DEF Action, Mask
  <2>4. inotifyWds[event.wd] \in Path /\ inotifyWds[event.wd] \in Seq(Name \union {"file"})
    <3>1. \A p \in Path : p \in Seq(Name)
      BY WatcherAssumption DEF Name
    <3>2. inotifyWds[event.wd] \in Path
      BY DEF OrderInv
    <3> HIDE DEF event
    <3> QED
      BY <3>1, <3>2
  <2>5. event.name \in Seq(Name \union {"file"}) /\ event.at \in Nat
    <3>1. event.name \in Names /\ event.at \in Nat
      BY <1>2 DEF Event
    <3>2. ASSUME NEW m \in Names PROVE m \in Seq(Name \union {"file"})
      <4>1. CASE m = << >>
        BY <4>1
      <4>2. CASE m = <<"file">>
        BY <4>2
      <4>3. CASE \E c \in Name : m = <<c>>
        BY <4>3
      <4> QED
        BY <4>1, <4>2, <4>3 DEF Names
    <3> QED
      BY <3>1, <3>2
  <2>6. inotifyWds[event.wd] \o event.name \in Seq(Name \union {"file"})
    BY <2>4, <2>5
  <2>7. e \in Notice
    BY <2>3, <2>4, <2>5, <2>6 DEF Notice
  <2> QED
    BY <2>1, <2>7
<1> QED
  BY <1>5, <1>6, <1>7

LEMMA OrderFrame ==
    ASSUME OrderInv, UNCHANGED <<inotifyWds, eventQueue, changes>>, Pending' = Pending
    PROVE  OrderInv'
  BY DEF OrderInv

LEMMA OwnerOrder ==
    ASSUME WatcherTypes, OrderInv, Owner
    PROVE  OrderInv'
<1> USE DEF osVars, mapVars, readerVars
<1>1. CASE Construct \/ InitInotify \/ Destroyed \/ StopThread \/ Join
  BY <1>1, OrderFrame DEF Construct, InitInotify, Destroyed, StopThread, Join, Pending
<1>2. CASE BeginWatch \/ \E p \in Path : AddDirBegin(p)
  BY <1>2, OrderFrame DEF BeginWatch, AddDirBegin, Pending
<1>3. CASE AddDirEnd
  <2>1. UNCHANGED <<eventQueue, changes, watchBuffer, kernelQueue>> /\ adding.path \in Path
    BY <1>3 DEF AddDirEnd, WatcherTypes
  <2>2. \A wd \in DOMAIN inotifyWds' : inotifyWds'[wd] \in Path
    BY <1>3, <2>1 DEF AddDirEnd, Store, OrderInv
  <2> QED
    BY <2>1, <2>2 DEF OrderInv, Pending
<1>4. CASE Clear
  BY <1>4 DEF Clear, OrderInv, Pending
<1>5. eventQueue \in Seq(Notice) /\ watchBuffer \in Seq(Event) /\ kernelQueue \in Seq(Event)
      /\ changes \in Nat /\ Pending \in Seq(Event) /\ Ordered(eventQueue \o Pending, changes)
  BY DEF OrderInv, WatcherTypes, Pending
<1> DEFINE q == eventQueue \o Pending
<1>6. q \in Seq(Item) /\ Ordered(q, changes)
  BY <1>5, ItemSeqs
<1>7. CASE PopEvent
  <2> DEFINE r == Tail(eventQueue) \o Pending
             at == [i \in 1..Len(r) |-> i + 1]
  <2>1. eventQueue # << >> /\ eventQueue' = Tail(eventQueue)
        /\ UNCHANGED <<inotifyWds, changes>> /\ Pending' = Pending
    BY <1>7 DEF PopEvent, Pending
  <2>2. r = Tail(q) /\ q # << >>
    <3>1. eventQueue \in Seq(Item) /\ Pending \in Seq(Item)
      BY <1>5, ItemSeqs
    <3> QED
      BY <2>1, <3>1
  <2>3. Tail(eventQueue) \in Seq(Notice)
    BY <1>5, <2>1
  <2>4. r \in Seq(Item) /\ Len(r) + 1 = Len(q) /\ Len(r) \in Nat
        /\ \A i \in 1..Len(r) : r[i] = q[i + 1]
    BY <1>6, <2>2, HeadTailProperties
  <2> HIDE DEF r, q
  <2>5. /\ at \in [1..Len(r) -> 1..Len(q)]
        /\ \A i \in 1..Len(r) : r[i].at = q[at[i]].at
        /\ \A i, j \in 1..Len(r) : i < j => at[i] < at[j]
    BY <2>4
  <2> HIDE DEF at
  <2>6. Ordered(r, changes)
    BY <1>5, <1>6, <2>4, <2>5, OrderedPart
  <2> QED
    BY <2>1, <2>3, <2>6 DEF OrderInv, r
<1>8. CASE Close
  <2> DEFINE r == eventQueue \o watchBuffer
             at == [i \in 1..Len(r) |-> i]
  <2>1. /\ UNCHANGED <<inotifyWds, eventQueue, changes, watchBuffer>> /\ kernelQueue' = << >>
    BY <1>8 DEF Close
  <2>2. r \in Seq(Item) /\ q = r \o kernelQueue /\ kernelQueue \in Seq(Item)
    BY <1>5, ItemSeqs DEF Pending
  <2> HIDE DEF r, q
  <2>3. Len(r) \in Nat /\ Len(q) >= Len(r) /\ Len(q) \in Nat /\ \A i \in 1..Len(r) : r[i] = q[i]
    BY <2>2
  <2>4. /\ at \in [1..Len(r) -> 1..Len(q)]
        /\ \A i \in 1..Len(r) : r[i].at = q[at[i]].at
        /\ \A i, j \in 1..Len(r) : i < j => at[i] < at[j]
    BY <2>3
  <2> HIDE DEF at
  <2>5. Ordered(r, changes)
    BY <1>5, <1>6, <2>2, <2>4, OrderedPart
  <2>6. Pending' = watchBuffer
    BY <1>5, <2>1 DEF Pending
  <2> QED
    BY <2>1, <2>5, <2>6 DEF OrderInv, r
<1> QED
  BY <1>1, <1>2, <1>3, <1>4, <1>7, <1>8 DEF Owner

LEMMA OrderStep == WatcherTypes /\ OrderInv /\ [Next]_vars => OrderInv'
<1> SUFFICES ASSUME WatcherTypes, OrderInv, [Next]_vars PROVE OrderInv'
  OBVIOUS
<1> USE DEF osVars, mapVars, readerVars
<1>1. CASE WatcherRun \/ Undefined
  BY <1>1, OrderFrame DEF WatcherRun, Undefined, Pending
<1>2. CASE ReadEvents
  BY <1>2, ReadFacts, OrderFrame DEF ReadEvents, Pending
<1>3. CASE Done \/ UNCHANGED vars
  BY <1>3, OrderFrame DEF Done, vars, Pending
<1> QED
  BY <1>1, <1>2, <1>3, EnvironmentOrder, OwnerOrder, ProcessOrder DEF Next, Watcher

-----------------------------------------------------------------------------
(* The theorems.                                                              *)

\* inotifyWds has the directories that inotify watches, and no others but those whose
\* IN_IGNORED is on the way, or went by before the entry was made or was lost.
THEOREM MapAlwaysMatches == Spec => []MapMatchesWatches
<1>1. WatcherInv => MapMatchesWatches
  <2> SUFFICES ASSUME WatcherInv, IsOpen PROVE MapMatchesWatches
    BY DEF MapMatchesWatches
  <2>1. \A d \in Dir : watch[d] # 0 => watch[d] \in KnownWds
    BY DEF WatcherInv, OpenInv, LiveWds
  <2>2. watchBuffer \o kernelQueue \in Seq(Event)
    BY DEF WatcherInv, WatcherTypes
  <2>3. \A wd : Ignored(Pending, wd) => IgnoredPending(wd)
    BY <2>2 DEF Ignored, Pending, IgnoredPending, Range
  <2>4. \A wd \in DOMAIN inotifyWds : Live(wd) \/ IgnoredPending(wd) \/ wd \in orphans
    BY <2>3 DEF WatcherInv, OpenInv, KnownWds, LiveWds, Live
  <2> QED
    BY <2>1, <2>4 DEF MapMatchesWatches, KnownWds
<1> QED
  BY <1>1, WatcherAlways, PTL

\* The path of an entry is where the directory is, unless it moved since addDir.
THEOREM PathsAlwaysCurrent == Spec => []PathsCurrent
<1>1. WatcherInv => PathsCurrent
  BY DEF WatcherInv, OpenInv, PathsCurrent
<1> QED
  BY <1>1, WatcherAlways, PTL

\* What readEvents drops since it finds no path is of the directory being added.
THEOREM DroppedOnlyWhileAddingAlways == Spec => []DroppedOnlyWhileAdding
<1>1. WatcherInv => DroppedOnlyWhileAdding
  <2> SUFFICES ASSUME WatcherInv, rpc = "process", IsOpen,
                      Head(watchBuffer).mask \notin {"IN_IGNORED", "IN_Q_OVERFLOW"}
               PROVE  Head(watchBuffer).wd \in KnownWds
    BY DEF DroppedOnlyWhileAdding, KnownWds
  <2>1. watchBuffer \in Seq(Event) /\ watchBuffer # << >> /\ kernelQueue \in Seq(Event)
    BY DEF WatcherInv, WatcherTypes
  <2>2. 1 \in 1..Len(Pending) /\ Pending[1] = Head(watchBuffer)
    BY <2>1 DEF Pending
  <2> QED
    BY <2>2 DEF WatcherInv, OpenInv, QueueSound
<1> QED
  BY <1>1, WatcherAlways, PTL

\* Notifications are in the order of the changes, from inotify's queue to popEvent.
THEOREM AlwaysInOrder == Spec => []InOrder
<1>1. Init => OrderInv
  <2> SUFFICES ASSUME Init PROVE OrderInv
    OBVIOUS
  <2>1. DOMAIN inotifyWds = {} /\ eventQueue = << >> /\ watchBuffer = << >> /\ kernelQueue = << >>
    BY DEF Init
  <2>2. eventQueue \in Seq(Notice) /\ eventQueue \o Pending = << >> /\ Len(eventQueue \o Pending) = 0
    BY <2>1 DEF Pending
  <2> QED
    BY <2>1, <2>2 DEF OrderInv, Ordered
<1>2. WatcherTypes /\ OrderInv => InOrder
  <2> SUFFICES ASSUME WatcherTypes, OrderInv PROVE InOrder
    OBVIOUS
  <2> DEFINE pending == eventQueue \o watchBuffer \o kernelQueue
  <2>1. eventQueue \in Seq(Notice) /\ watchBuffer \in Seq(Event) /\ kernelQueue \in Seq(Event)
    BY DEF OrderInv, WatcherTypes
  <2>2. pending = eventQueue \o Pending
    BY <2>1, ItemSeqs DEF Pending
  <2>3. Pending \in Seq(Event)
    BY <2>1 DEF Pending
  <2>4. pending \in Seq(Item)
    BY <2>1, <2>2, <2>3, ItemSeqs
  <2>5. DOMAIN pending = 1..Len(pending)
    BY <2>4
  <2> HIDE DEF pending
  <2>6. \A i, j \in DOMAIN pending : i < j => pending[i].at <= pending[j].at
    BY <2>2, <2>5 DEF OrderInv, Ordered
  <2> QED
    BY <2>6 DEF InOrder, pending
<1> QED
  BY <1>1, <1>2, OrderStep, WatcherAlways, PTL DEF Spec, WatcherInv
=============================================================================

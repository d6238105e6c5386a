----------------------------- MODULE ChatProofs -----------------------------
(***************************************************************************)
(* What is proved of ChatSnapshot: that the cache of GET /chat keeps what  *)
(* FreshReads promises, for any number of readers, writers and queries,    *)
(* and that whoever has an answer to a change has it seen from then on.    *)
(***************************************************************************)
EXTENDS ChatSnapshot, FiniteSetTheorems, TLAPS

Before  == {w \in Writers : write[w].pc \in {"ban", "limit", "expire", "store", "moderate"}}
Bumping == {w \in Writers : write[w].pc = "bump"}

Reads  == [pc : {"idle", "lookup", "query"}, ver : Versions, query : Queries \cup {None},
           got : [Parts -> Counts \cup {None}], floor : Counts]
Writes == [pc : {"idle", "ban", "limit", "expire", "store", "moderate", "bump", "answer"},
           user : Users \cup {None}, index : Counts]

\* The version never overtakes the changes: every raise follows a change.
ChatTyped ==
    /\ now \in Nat /\ version \in Nat
    /\ cache \in [Versions -> [Queries -> Page \cup {None}]]
    /\ read \in [Readers -> Reads]
    /\ write \in [Writers -> Writes]
    /\ now + Cardinality(Before) <= MaxChanges
    /\ version + Cardinality(Bumping) <= now

\* Whatever is answered under the version v shows n changes at least.
SeenUnder(n, v) ==
    /\ n <= now
    /\ \A q \in Queries : cache[v][q] # None => \A p \in Parts : n <= cache[v][q][p]
    /\ \A r \in Readers : read[r].pc = "query" /\ read[r].ver = v =>
          \A p \in Parts : read[r].got[p] # None => n <= read[r].got[p]

\* Nothing is cached or read ahead of the version, nor of the table.
NotAhead ==
    /\ \A v \in Versions, q \in Queries : cache[v][q] # None =>
          v <= version /\ \A p \in Parts : cache[v][q][p] <= now
    /\ \A r \in Readers :
          /\ read[r].ver <= version
          /\ \A p \in Parts : read[r].got[p] # None => read[r].got[p] <= now
          /\ read[r].pc = "lookup" => read[r].got = Nothing
          /\ read[r].pc # "idle" => read[r].query \in Queries

Floors  == \A r \in Readers : read[r].pc # "idle" => SeenUnder(read[r].floor, read[r].ver)
Written == \A w \in Writers : /\ write[w].pc \in {"bump", "answer"} => write[w].index <= now
                              /\ write[w].pc = "answer" => SeenUnder(write[w].index, version)

ChatInv == ChatTyped /\ NotAhead /\ Floors /\ Written

LEMMA LeastOf ==
  ASSUME NEW S, S \subseteq Nat, S # {}
  PROVE  Min(S) \in S /\ \A x \in S : Min(S) <= x
\* The intervals below the members of S are finite sets: one contains no other.
<1> DEFINE below == {1 .. n : n \in S}
<1>1. \E x \in below : \A y \in below : ~(<<y, x>> \in StrictSubsetOrdering(Nat))
  <2>1. below \subseteq FiniteSubsetsOf(Nat) /\ below # {}
    <3>1. \A n \in S : 1 .. n \subseteq Nat /\ IsFiniteSet(1 .. n)
      BY FS_Interval
    <3> QED
      BY <3>1 DEF FiniteSubsetsOf
  <2> HIDE DEF below
  <2> QED
    BY <2>1, FS_StrictSubsetOrderingWellFounded, WFMin
<1>2. \E n \in S : \A m \in S : n <= m
  <2> PICK n \in S : \A m \in S : ~(<<1 .. m, 1 .. n>> \in StrictSubsetOrdering(Nat))
    BY <1>1
  <2>1. ASSUME NEW m \in S, m < n PROVE FALSE
    <3>1. 1 .. m \subseteq 1 .. n /\ n \in 1 .. n /\ n \notin 1 .. m
      BY <2>1
    <3>2. <<1 .. m, 1 .. n>> \in StrictSubsetOrdering(Nat)
      BY <3>1 DEF StrictSubsetOrdering
    <3> QED
      BY <3>2
  <2> QED
    BY <2>1
<1> QED
  BY <1>2 DEF Min

LEMMA WritersCount ==
  ASSUME NEW S, S \subseteq Writers
  PROVE  IsFiniteSet(S) /\ Cardinality(S) \in Nat
BY ChatSnapshotAssumption, FS_Subset, FS_CardinalityType DEF ChatSnapshotAssumption

LEMMA InBounds ==
  ChatTyped => /\ now \in Counts /\ version \in Versions /\ version <= now
               /\ Counts \subseteq Nat /\ None \notin Nat
<1>1. Before \subseteq Writers /\ Bumping \subseteq Writers
  BY DEF Before, Bumping
<1>2. Cardinality(Before) \in Nat /\ Cardinality(Bumping) \in Nat
  BY <1>1, WritersCount
<1> QED
  BY <1>2, ChatSnapshotAssumption DEF ChatTyped, ChatSnapshotAssumption, Counts, Versions

\* Settled is the largest number that is seen under the version of now.
LEMMA SettledIs ==
  ChatTyped => /\ Settled \in Nat /\ Settled <= now
               /\ \A n \in Nat : SeenUnder(n, version) <=> n <= Settled
<1> SUFFICES ASSUME ChatTyped
             PROVE  /\ Settled \in Nat /\ Settled <= now
                    /\ \A n \in Nat : SeenUnder(n, version) <=> n <= Settled
  OBVIOUS
<1> DEFINE S == {now} \cup (Shown \ {None})
<1>0. now \in Nat /\ version \in Versions /\ Counts \subseteq Nat /\ None \notin Nat
  BY InBounds DEF ChatTyped
<1>1. \A page \in Cached : page \in [Parts -> Nat]
  <2>1. \A q \in Queries : cache[version][q] \in Page \cup {None}
    BY <1>0 DEF ChatTyped
  <2>2. Page \subseteq [Parts -> Nat]
    BY <1>0 DEF Page
  <2> QED
    BY <2>1, <2>2 DEF Cached
<1>2. \A r \in Readers, p \in Parts : read[r].got[p] \in Nat \cup {None}
  <2>1. ASSUME NEW r \in Readers PROVE read[r].got \in [Parts -> Counts \cup {None}]
    <3>1. read[r] \in Reads
      BY DEF ChatTyped
    <3> QED
      BY <3>1 DEF Reads
  <2> QED
    BY <1>0, <2>1
<1>3. S \subseteq Nat /\ S # {}
  BY <1>0, <1>1, <1>2 DEF Shown, Filling
<1>4. Settled \in S /\ \A x \in S : Settled <= x
  BY <1>3, LeastOf DEF Settled
<1>5. ASSUME NEW n \in Nat PROVE SeenUnder(n, version) <=> \A x \in S : n <= x
  <2>1. (\A x \in S : n <= x) <=>
          /\ n <= now
          /\ \A page \in Cached, p \in Parts : n <= page[p]
          /\ \A r \in Filling, p \in Parts : read[r].got[p] # None => n <= read[r].got[p]
    <3>1. \A page \in Cached, p \in Parts : page[p] \in Shown /\ page[p] # None
      BY <1>0, <1>1 DEF Shown
    <3>2. \A r \in Filling, p \in Parts : read[r].got[p] \in Shown
      BY DEF Shown
    <3>3. \A x \in Shown : \/ \E page \in Cached, p \in Parts : x = page[p]
                          \/ \E r \in Filling, p \in Parts : x = read[r].got[p]
      BY DEF Shown
    <3> QED
      BY <3>1, <3>2, <3>3
  <2> QED
    BY <2>1 DEF SeenUnder, Cached, Filling
<1>6. \A n \in Nat : (\A x \in S : n <= x) <=> n <= Settled
  BY <1>3, <1>4
<1> QED
  BY <1>3, <1>4, <1>5, <1>6

LEMMA SettledNext ==
  (ChatTyped => /\ Settled \in Nat /\ Settled <= now
                /\ \A n \in Nat : SeenUnder(n, version) <=> n <= Settled)'
BY SettledIs, PTL

-----------------------------------------------------------------------------
(* The bounds on changes and version.                                      *)

Budget == now + Cardinality(Before) <= MaxChanges /\ version + Cardinality(Bumping) <= now

LEMMA Counted ==
  ChatTyped => /\ IsFiniteSet(Before) /\ Cardinality(Before) \in Nat
               /\ IsFiniteSet(Bumping) /\ Cardinality(Bumping) \in Nat
<1>1. Before \subseteq Writers /\ Bumping \subseteq Writers
  BY DEF Before, Bumping
<1> QED
  BY <1>1, WritersCount

LEMMA CountedNext ==
  /\ IsFiniteSet(Before') /\ Cardinality(Before') \in Nat
  /\ IsFiniteSet(Bumping') /\ Cardinality(Bumping') \in Nat
<1>1. Before' \subseteq Writers /\ Bumping' \subseteq Writers
  BY DEF Before, Bumping
<1> QED
  BY <1>1, WritersCount

LEMMA BudgetShrinks ==
  ASSUME ChatTyped, UNCHANGED <<now, version>>, Before' \subseteq Before, Bumping' \subseteq Bumping
  PROVE  Budget'
<1>1. Cardinality(Before') <= Cardinality(Before) /\ Cardinality(Bumping') <= Cardinality(Bumping)
  BY Counted, FS_Subset
<1> QED
  BY <1>1, Counted, CountedNext, ChatSnapshotAssumption DEF ChatTyped, Budget, ChatSnapshotAssumption

LEMMA WriteMoves ==
  ASSUME ChatTyped, NEW w \in Writers, NEW x \in Writes, write' = [write EXCEPT ![w] = x]
  PROVE  /\ write' \in [Writers -> Writes]
         /\ Before' = IF x.pc \in {"ban", "limit", "expire", "store", "moderate"}
                      THEN Before \cup {w} ELSE Before \ {w}
         /\ Bumping' = IF x.pc = "bump" THEN Bumping \cup {w} ELSE Bumping \ {w}
<1>1. write' \in [Writers -> Writes] /\ write'[w] = x /\ \A y \in Writers \ {w} : write'[y] = write[y]
  BY DEF ChatTyped
<1> QED
  BY <1>1 DEF Before, Bumping

LEMMA WriteTyped ==
  ASSUME ChatTyped, [Next]_vars
  PROVE  now' \in Nat /\ version' \in Nat /\ write' \in [Writers -> Writes] /\ Budget'
<1> DEFINE Goal == now' \in Nat /\ version' \in Nat /\ write' \in [Writers -> Writes] /\ Budget'
<1>0. /\ \A w \in Writers : write[w] \in Writes
      /\ now \in Counts /\ version \in Versions /\ now \in Nat /\ version \in Nat
      /\ write \in [Writers -> Writes]
  BY InBounds DEF ChatTyped
<1>1. ASSUME UNCHANGED <<now, version, write>> PROVE Goal
  <2>1. Before' = Before /\ Bumping' = Bumping
    BY <1>1 DEF Before, Bumping
  <2> QED
    BY <1>0, <1>1, <2>1, BudgetShrinks
<1>2. ASSUME NEW w \in Writers, NEW x \in Writes, write' = [write EXCEPT ![w] = x],
             UNCHANGED <<now, version>>,
             x.pc \in {"ban", "limit", "expire", "store", "moderate"} => w \in Before,
             x.pc # "bump"
      PROVE  Goal
  <2>1. Before' \subseteq Before /\ Bumping' \subseteq Bumping
    BY <1>2, WriteMoves
  <2> QED
    BY <1>0, <1>2, <2>1, BudgetShrinks, WriteMoves
<1>3. NoWrite \in Writes /\ NoWrite.pc = "idle"
  BY ChatSnapshotAssumption DEF NoWrite, Writes, Counts, ChatSnapshotAssumption
<1>4. ASSUME NEW w \in Writers, Finish(w), UNCHANGED <<now, version>> PROVE Goal
  BY <1>2, <1>3, <1>4 DEF Finish
<1>5. ASSUME NEW w \in Writers, NEW pc \in {"limit", "expire", "store"}, Step(w, pc),
             w \in Before, UNCHANGED <<now, version>>
      PROVE  Goal
  <2> DEFINE x == [write[w] EXCEPT !.pc = pc]
  <2>1. x \in Writes /\ x.pc = pc /\ write' = [write EXCEPT ![w] = x]
    BY <1>0, <1>5 DEF Writes, Step
  <2> HIDE DEF x
  <2> QED
    BY <1>2, <1>5, <2>1
<1>6. ASSUME NEW w \in Writers, CheckBan(w) \/ CountPost(w) \/ StartWindow(w) \/ AnswerWrite(w)
                                \/ WriteFails(w)
      PROVE  Goal
  <2>1. UNCHANGED <<now, version>>
    BY <1>6 DEF CheckBan, CountPost, StartWindow, AnswerWrite, WriteFails, redis
  <2>2. \/ Finish(w)
        \/ w \in Before /\ \E pc \in {"limit", "expire", "store"} : Step(w, pc)
    BY <1>6 DEF CheckBan, CountPost, StartWindow, AnswerWrite, WriteFails, Before
  <2> QED
    BY <2>1, <2>2, <1>4, <1>5
<1>7. ASSUME NEW w \in Writers, NEW u \in Users \cup {None}, NEW pc \in {"ban", "moderate"},
             Begin(w, u, pc)
      PROVE  Goal
  <2> DEFINE x    == [pc |-> pc, user |-> u, index |-> 0]
             busy == {y \in Writers : write[y].pc # "idle"}
  <2>1. x \in Writes /\ x.pc = pc
    BY ChatSnapshotAssumption DEF Writes, Counts, ChatSnapshotAssumption
  <2>2. write' = [write EXCEPT ![w] = x] /\ UNCHANGED <<now, version>>
        /\ now + Cardinality(busy) < MaxChanges
    BY <1>7 DEF Begin, redis
  <2> HIDE DEF x
  <2>3. Before' = Before \cup {w} /\ Bumping' \subseteq Bumping /\ write' \in [Writers -> Writes]
    BY <2>1, <2>2, WriteMoves
  <2>4. Cardinality(Before) <= Cardinality(busy) /\ Cardinality(busy) \in Nat
    <3>1. Before \subseteq busy /\ busy \subseteq Writers
      BY DEF Before
    <3> QED
      BY <3>1, WritersCount, FS_Subset
  <2>5. Cardinality(Before') <= Cardinality(Before) + 1
    <3>1. Cardinality(Before \cup {w}) = IF w \in Before THEN Cardinality(Before)
                                         ELSE Cardinality(Before) + 1
      BY Counted, FS_AddElement
    <3> QED
      BY <2>3, <3>1, Counted
  <2>6. Cardinality(Bumping') <= Cardinality(Bumping)
    BY <2>3, Counted, FS_Subset
  <2> QED
    BY <1>0, <2>2, <2>3, <2>4, <2>5, <2>6, Counted, CountedNext, ChatSnapshotAssumption
    DEF ChatTyped, Budget, ChatSnapshotAssumption
<1>8. ASSUME NEW w \in Writers, ChangeRow(w) PROVE Goal
  <2> DEFINE x == [write[w] EXCEPT !.pc = "bump", !.index = now + 1]
  <2>1. w \in Before /\ w \notin Bumping
    BY <1>8 DEF ChangeRow, Before, Bumping
  <2>2. Cardinality(Before \ {w}) = Cardinality(Before) - 1
        /\ Cardinality(Bumping \cup {w}) = Cardinality(Bumping) + 1
        /\ Cardinality(Before \ {w}) \in Nat
    <3>1. IsFiniteSet(Before \ {w})
      BY Counted, FS_RemoveElement
    <3> QED
      BY <2>1, <3>1, Counted, FS_AddElement, FS_RemoveElement, FS_CardinalityType
  <2>3. now + 1 \in Counts
    BY <1>0, <2>2, Counted, ChatSnapshotAssumption DEF ChatTyped, Counts, ChatSnapshotAssumption
  <2>4. x \in Writes /\ x.pc = "bump"
    BY <1>0, <2>3 DEF Writes
  <2>5. write' = [write EXCEPT ![w] = x] /\ now' = now + 1 /\ version' = version
    BY <1>8 DEF ChangeRow, Changed, redis
  <2> HIDE DEF x
  <2>6. Before' = Before \ {w} /\ Bumping' = Bumping \cup {w} /\ write' \in [Writers -> Writes]
    BY <2>4, <2>5, WriteMoves
  <2> QED
    BY <1>0, <2>2, <2>5, <2>6, Counted, ChatSnapshotAssumption
    DEF ChatTyped, Budget, ChatSnapshotAssumption
<1>9. ASSUME NEW w \in Writers, BumpVersion(w) PROVE Goal
  <2> DEFINE x == [write[w] EXCEPT !.pc = "answer"]
  <2>1. w \notin Before /\ w \in Bumping
    BY <1>9 DEF BumpVersion, Before, Bumping
  <2>2. Cardinality(Bumping \ {w}) = Cardinality(Bumping) - 1
    BY <2>1, Counted, FS_RemoveElement
  <2>3. x \in Writes /\ x.pc = "answer"
    BY <1>0 DEF Writes
  <2>4. write' = [write EXCEPT ![w] = x] /\ now' = now /\ version' = version + 1
    BY <1>9 DEF BumpVersion, Step
  <2> HIDE DEF x
  <2>5. Before' = Before /\ Bumping' = Bumping \ {w} /\ write' \in [Writers -> Writes]
    <3>1. Before' = Before \ {w} /\ Bumping' = Bumping \ {w} /\ write' \in [Writers -> Writes]
      BY <2>3, <2>4, WriteMoves
    <3> QED
      BY <2>1, <3>1
  <2> QED
    BY <1>0, <2>2, <2>4, <2>5, Counted, CountedNext DEF ChatTyped, Budget
<1>10. CASE Restart
  <2>1. Before' = {} /\ Bumping' = {} /\ write' \in [Writers -> Writes] /\ UNCHANGED <<now, version>>
    BY <1>3, <1>10 DEF Restart, Before, Bumping, redis
  <2> QED
    BY <1>0, <2>1, BudgetShrinks
<1>11. CASE \/ UNCHANGED vars
            \/ \E r \in Readers : Get(r) \/ ReadFails(r) \/ \E q \in Queries : BeginGet(r, q)
            \/ \E u \in Users : LimitExpires(u)
            \/ \E v \in Versions, q \in Queries : PageExpires(v, q)
  BY <1>11, <1>1 DEF vars, redis, Get, Hit, Miss, Store, Query, ReadFails, BeginGet, LimitExpires,
     PageExpires
<1> QED
  BY <1>6, <1>7, <1>8, <1>9, <1>10, <1>11 DEF Next, Post, BeginPost, BeginModerate

-----------------------------------------------------------------------------
(* The cache.                                                              *)

LEMMA NoReadTyped ==
  NoRead \in Reads /\ Nothing \in [Parts -> Counts \cup {None}] /\ NoRead.pc = "idle"
  /\ NoRead.ver = 0 /\ NoRead.got = Nothing
BY ChatSnapshotAssumption DEF NoRead, Reads, Nothing, Counts, Versions, ChatSnapshotAssumption

\* What a step does to the requests and the cache.
Reading(r, x) == x \in Reads /\ read' = [read EXCEPT ![r] = x] /\ UNCHANGED <<now, version, write>>

ReadsMove ==
    \/ UNCHANGED <<cache, read>>
    \/ \E r \in Readers, q \in Queries :
          /\ read[r].pc = "idle" /\ UNCHANGED cache
          /\ Reading(r, [pc |-> "lookup", ver |-> version, query |-> q,
                         got |-> Nothing, floor |-> Settled])
    \/ \E r \in Readers : read[r].pc # "idle" /\ UNCHANGED cache /\ Reading(r, NoRead)
    \/ \E r \in Readers : /\ read[r].pc = "lookup" /\ UNCHANGED cache
                          /\ Reading(r, [read[r] EXCEPT !.pc = "query"])
    \/ \E r \in Readers, p \in Parts :
          /\ read[r].pc = "query" /\ UNCHANGED cache
          /\ Reading(r, [read[r] EXCEPT !.got = [read[r].got EXCEPT ![p] = now]])
    \/ \E r \in Readers : /\ read[r].pc = "query" /\ \A p \in Parts : read[r].got[p] # None
                          /\ cache' = [cache EXCEPT ![read[r].ver][read[r].query] = read[r].got]
                          /\ Reading(r, NoRead)
    \/ \E v \in Versions, q \in Queries :
          cache' = [cache EXCEPT ![v][q] = None] /\ UNCHANGED <<now, version, read, write>>
    \/ read' = [r \in Readers |-> NoRead] /\ UNCHANGED <<now, version, cache>>

LEMMA ReadCases ==
  ASSUME ChatTyped, [Next]_vars
  PROVE  ReadsMove
<1>0. /\ \A r \in Readers : read[r] \in Reads
      /\ now \in Counts /\ version \in Versions /\ Settled \in Counts
  BY InBounds, SettledIs, ChatSnapshotAssumption DEF ChatTyped, Counts, ChatSnapshotAssumption
<1>1. ASSUME NEW r \in Readers, NEW q \in Queries, BeginGet(r, q) PROVE ReadsMove
  <2>1. [pc |-> "lookup", ver |-> version, query |-> q, got |-> Nothing, floor |-> Settled] \in Reads
    BY <1>0, NoReadTyped DEF Reads
  <2> QED
    BY <1>1, <2>1 DEF BeginGet, Reading, redis, ReadsMove
<1>2. ASSUME NEW r \in Readers, Hit(r) \/ ReadFails(r) PROVE ReadsMove
  <2>1. read[r].pc # "idle" /\ UNCHANGED cache /\ Reading(r, NoRead)
    BY <1>2, NoReadTyped DEF Hit, ReadFails, Respond, Reading, redis
  <2> QED
    BY <2>1 DEF ReadsMove
<1>3. ASSUME NEW r \in Readers, Miss(r) PROVE ReadsMove
  <2>1. [read[r] EXCEPT !.pc = "query"] \in Reads
    BY <1>0 DEF Reads
  <2> QED
    BY <1>3, <2>1 DEF Miss, Reading, redis, ReadsMove
<1>4. ASSUME NEW r \in Readers, NEW p \in Parts, Query(r, p) PROVE ReadsMove
  <2>1. [read[r] EXCEPT !.got = [read[r].got EXCEPT ![p] = now]] \in Reads
    BY <1>0 DEF Reads
  <2>2. read' = [read EXCEPT ![r] = [read[r] EXCEPT !.got = [read[r].got EXCEPT ![p] = now]]]
    BY <1>4 DEF Query, ChatTyped
  <2> QED
    BY <1>4, <2>1, <2>2 DEF Query, Reading, redis, ReadsMove
<1>5. ASSUME NEW r \in Readers, Store(r) PROVE ReadsMove
  <2>1. /\ read[r].pc = "query" /\ \A p \in Parts : read[r].got[p] # None
        /\ cache' = [cache EXCEPT ![read[r].ver][read[r].query] = read[r].got]
        /\ Reading(r, NoRead)
    BY <1>5, NoReadTyped DEF Store, Respond, Reading, VersionOf
  <2> QED
    BY <2>1 DEF ReadsMove
<1>6. ASSUME NEW v \in Versions, NEW q \in Queries, PageExpires(v, q) PROVE ReadsMove
  BY <1>6 DEF PageExpires, ReadsMove
<1>7. CASE Restart
  BY <1>7 DEF Restart, redis, ReadsMove
<1>8. ASSUME NEW w \in Writers, Post(w) \/ WriteFails(w) \/ BeginModerate(w) \/ \E u \in Users : BeginPost(w, u)
      PROVE  ReadsMove
  BY <1>8 DEF Post, CheckBan, CountPost, StartWindow, ChangeRow, BumpVersion, AnswerWrite,
     WriteFails, BeginModerate, BeginPost, Begin, redis, ReadsMove
<1>9. CASE UNCHANGED vars \/ \E u \in Users : LimitExpires(u)
  BY <1>9 DEF vars, redis, LimitExpires, ReadsMove
<1> QED
  BY <1>1, <1>2, <1>3, <1>4, <1>5, <1>6, <1>7, <1>8, <1>9 DEF Next, Get

LEMMA CacheTyped ==
  ASSUME ChatTyped, ReadsMove
  PROVE  cache' \in [Versions -> [Queries -> Page \cup {None}]] /\ read' \in [Readers -> Reads]
<1> DEFINE Goal == cache' \in [Versions -> [Queries -> Page \cup {None}]]
                   /\ read' \in [Readers -> Reads]
<1>0. cache \in [Versions -> [Queries -> Page \cup {None}]] /\ read \in [Readers -> Reads]
  BY DEF ChatTyped
<1>1. CASE UNCHANGED <<cache, read>>
  BY <1>0, <1>1
<1>2. ASSUME NEW r \in Readers, NEW x, Reading(r, x), UNCHANGED cache PROVE Goal
  BY <1>0, <1>2 DEF Reading
<1>3. ASSUME NEW r \in Readers, read[r].pc = "query", \A p \in Parts : read[r].got[p] # None,
             cache' = [cache EXCEPT ![read[r].ver][read[r].query] = read[r].got],
             Reading(r, NoRead)
      PROVE  Goal
  <2>1. read[r].got \in Page
    BY <1>0, <1>3 DEF Reads, Page
  <2>2. read' \in [Readers -> Reads]
    BY <1>0, <1>3 DEF Reading
  <2> QED
    BY <1>0, <1>3, <2>1, <2>2
<1>4. ASSUME NEW v \in Versions, NEW q \in Queries, cache' = [cache EXCEPT ![v][q] = None],
             UNCHANGED read
      PROVE  Goal
  BY <1>0, <1>4
<1>5. ASSUME read' = [r \in Readers |-> NoRead], UNCHANGED cache PROVE Goal
  BY <1>0, <1>5, NoReadTyped
<1> HIDE DEF Goal
<1>6. Goal
  BY <1>1, <1>2, <1>3, <1>4, <1>5 DEF ReadsMove, Goal
<1> QED
  BY <1>6 DEF Goal

\* Changes and versions go up one at a time, and the version by itself.
LEMMA OnlyUp ==
  ASSUME [Next]_vars
  PROVE  /\ now' \in {now, now + 1} /\ version' \in {version, version + 1}
         /\ version' # version => UNCHANGED <<now, cache, read>> /\ \E w \in Writers : BumpVersion(w)
         /\ now' # now => UNCHANGED <<version, cache, read>>
BY DEF Next, vars, redis, Get, Hit, Miss, Query, Store, ReadFails, BeginGet, Post, CheckBan, CountPost,
   StartWindow, ChangeRow, Changed, BumpVersion, AnswerWrite, WriteFails, BeginModerate, BeginPost,
   Begin, LimitExpires, PageExpires, Restart

\* What is seen under a version stays seen under it, whatever fills its pages later.
LEMMA SeenStays ==
  ASSUME ChatTyped, NotAhead, now' \in {now, now + 1}, now' # now => UNCHANGED <<cache, read>>,
         ReadsMove, NEW n \in Nat, NEW v \in Versions, SeenUnder(n, v)
  PROVE  SeenUnder(n, v)'
<1>0. /\ cache \in [Versions -> [Queries -> Page \cup {None}]] /\ read \in [Readers -> Reads]
      /\ now \in Nat /\ n <= now' /\ None \notin Nat /\ Counts \subseteq Nat
  BY InBounds DEF ChatTyped, SeenUnder
<1>1. CASE UNCHANGED <<cache, read>>
  BY <1>0, <1>1 DEF SeenUnder
<1>2. ASSUME NEW r \in Readers, NEW x, Reading(r, x), UNCHANGED cache,
             x.pc = "query" /\ x.ver = v => \A p \in Parts : x.got[p] # None => n <= x.got[p]
      PROVE  SeenUnder(n, v)'
  BY <1>0, <1>2 DEF Reading, SeenUnder
<1>3. ASSUME NEW r \in Readers, NEW q \in Queries, UNCHANGED cache,
             Reading(r, [pc |-> "lookup", ver |-> version, query |-> q,
                         got |-> Nothing, floor |-> Settled])
      PROVE  SeenUnder(n, v)'
  BY <1>2, <1>3
<1>4. ASSUME NEW r \in Readers, UNCHANGED cache, Reading(r, NoRead) PROVE SeenUnder(n, v)'
  BY <1>2, <1>4, NoReadTyped
<1>5. ASSUME NEW r \in Readers, read[r].pc = "lookup", UNCHANGED cache,
             Reading(r, [read[r] EXCEPT !.pc = "query"])
      PROVE  SeenUnder(n, v)'
  <2>1. \A p \in Parts : [read[r] EXCEPT !.pc = "query"].got[p] = None
    BY <1>0, <1>5 DEF NotAhead, Nothing, Reads
  <2> QED
    BY <1>2, <1>5, <2>1
<1>6. ASSUME NEW r \in Readers, NEW p \in Parts, read[r].pc = "query", UNCHANGED cache,
             Reading(r, [read[r] EXCEPT !.got = [read[r].got EXCEPT ![p] = now]])
      PROVE  SeenUnder(n, v)'
  <2> DEFINE x == [read[r] EXCEPT !.got = [read[r].got EXCEPT ![p] = now]]
  <2>1. /\ read[r] \in Reads /\ x.ver = read[r].ver
        /\ \A o \in Parts : x.got[o] = IF o = p THEN now ELSE read[r].got[o]
    BY <1>0 DEF Reads
  <2>2. x.ver = v => \A o \in Parts : x.got[o] # None => n <= x.got[o]
    BY <1>6, <2>1 DEF SeenUnder
  <2> HIDE DEF x
  <2> QED
    BY <1>2, <1>6, <2>2 DEF x
<1>7. ASSUME NEW r \in Readers, read[r].pc = "query", \A p \in Parts : read[r].got[p] # None,
             cache' = [cache EXCEPT ![read[r].ver][read[r].query] = read[r].got],
             Reading(r, NoRead)
      PROVE  SeenUnder(n, v)'
  <2>1. read[r].ver = v => \A p \in Parts : n <= read[r].got[p]
    BY <1>7 DEF SeenUnder
  <2>2. \A q \in Queries : cache'[v][q] = cache[v][q] \/ (read[r].ver = v /\ cache'[v][q] = read[r].got)
    BY <1>0, <1>7
  <2>3. \A q \in Queries : cache'[v][q] # None => \A p \in Parts : n <= cache'[v][q][p]
    BY <2>1, <2>2 DEF SeenUnder
  <2>4. \A o \in Readers : read'[o].pc = "query" => read'[o] = read[o]
    BY <1>0, <1>7, NoReadTyped DEF Reading
  <2> QED
    BY <1>0, <2>3, <2>4 DEF SeenUnder
<1>8. ASSUME NEW u \in Versions, NEW q \in Queries, cache' = [cache EXCEPT ![u][q] = None],
             UNCHANGED <<now, version, read, write>>
      PROVE  SeenUnder(n, v)'
  <2>1. \A o \in Queries : cache'[v][o] \in {cache[v][o], None}
    BY <1>0, <1>8
  <2> QED
    BY <1>0, <1>8, <2>1 DEF SeenUnder
<1>9. ASSUME read' = [r \in Readers |-> NoRead], UNCHANGED cache PROVE SeenUnder(n, v)'
  BY <1>0, <1>9, NoReadTyped DEF SeenUnder
<1> QED
  BY <1>1, <1>3, <1>4, <1>5, <1>6, <1>7, <1>8, <1>9 DEF ReadsMove

LEMMA NotAheadStays ==
  ASSUME ChatTyped, NotAhead, [Next]_vars
  PROVE  NotAhead'
<1>0. /\ cache \in [Versions -> [Queries -> Page \cup {None}]] /\ read \in [Readers -> Reads]
      /\ now \in Nat /\ version \in Nat /\ None \notin Nat /\ Counts \subseteq Nat
      /\ Versions \subseteq Nat
  BY InBounds DEF ChatTyped, Counts, Versions
<1>1. now' \in {now, now + 1} /\ version' \in {version, version + 1}
  BY OnlyUp
<1>2. ASSUME UNCHANGED <<cache, read>> PROVE NotAhead'
  <2>1. \A v \in Versions, q \in Queries : cache[v][q] # None =>
           \A p \in Parts : cache[v][q][p] \in Nat
    <3>1. \A v \in Versions, q \in Queries : cache[v][q] \in Page \cup {None}
      BY <1>0
    <3>2. \A page \in Page, p \in Parts : page[p] \in Nat
      BY <1>0 DEF Page
    <3> QED
      BY <3>1, <3>2
  <2>2. \A r \in Readers, p \in Parts : read[r].got[p] # None => read[r].got[p] \in Nat
    <3>1. \A r \in Readers : read[r].got \in [Parts -> Counts \cup {None}]
      BY <1>0 DEF Reads
    <3> QED
      BY <1>0, <3>1
  <2>3. \A r \in Readers : read[r].ver \in Nat
    BY <1>0 DEF Reads
  <2> QED
    BY <1>0, <1>1, <1>2, <2>1, <2>2, <2>3 DEF NotAhead
<1>3. ASSUME NEW r \in Readers, NEW x, Reading(r, x), UNCHANGED cache, x.ver <= version,
             \A p \in Parts : x.got[p] # None => x.got[p] <= now,
             x.pc = "lookup" => x.got = Nothing, x.pc # "idle" => x.query \in Queries
      PROVE  NotAhead'
  BY <1>0, <1>3 DEF Reading, NotAhead
<1>4. ASSUME NEW r \in Readers, NEW q \in Queries, UNCHANGED cache,
             Reading(r, [pc |-> "lookup", ver |-> version, query |-> q,
                         got |-> Nothing, floor |-> Settled])
      PROVE  NotAhead'
  BY <1>0, <1>3, <1>4 DEF Nothing
<1>5. ASSUME NEW r \in Readers, UNCHANGED cache, Reading(r, NoRead) PROVE NotAhead'
  BY <1>0, <1>3, <1>5, NoReadTyped DEF Nothing
<1>6. ASSUME NEW r \in Readers, read[r].pc = "lookup", UNCHANGED cache,
             Reading(r, [read[r] EXCEPT !.pc = "query"])
      PROVE  NotAhead'
  <2> DEFINE x == [read[r] EXCEPT !.pc = "query"]
  <2>1. x.ver = read[r].ver /\ x.got = read[r].got /\ x.query = read[r].query /\ x.pc = "query"
    BY <1>0 DEF Reads
  <2>2. Reading(r, x)
    BY <1>6
  <2> HIDE DEF x
  <2>3. x.ver <= version /\ x.query \in Queries /\ \A p \in Parts : x.got[p] # None => x.got[p] <= now
    BY <1>6, <2>1 DEF NotAhead
  <2> QED
    BY <1>3, <1>6, <2>1, <2>2, <2>3
<1>7. ASSUME NEW r \in Readers, NEW p \in Parts, read[r].pc = "query", UNCHANGED cache,
             Reading(r, [read[r] EXCEPT !.got = [read[r].got EXCEPT ![p] = now]])
      PROVE  NotAhead'
  <2> DEFINE x == [read[r] EXCEPT !.got = [read[r].got EXCEPT ![p] = now]]
  <2>1. /\ x.ver = read[r].ver /\ x.query = read[r].query /\ x.pc = "query"
        /\ \A o \in Parts : x.got[o] = IF o = p THEN now ELSE read[r].got[o]
    BY <1>0, <1>7 DEF Reads
  <2> HIDE DEF x
  <2>2. x.ver <= version /\ x.query \in Queries /\ \A o \in Parts : x.got[o] # None => x.got[o] <= now
    BY <1>0, <1>7, <2>1 DEF NotAhead
  <2> QED
    BY <1>3, <1>7, <2>1, <2>2 DEF x
<1>8. ASSUME NEW r \in Readers, read[r].pc = "query", \A p \in Parts : read[r].got[p] # None,
             cache' = [cache EXCEPT ![read[r].ver][read[r].query] = read[r].got],
             Reading(r, NoRead)
      PROVE  NotAhead'
  <2>1. read[r].ver <= version /\ \A p \in Parts : read[r].got[p] <= now
    BY <1>8 DEF NotAhead
  <2>2. \A v \in Versions, q \in Queries :
           cache'[v][q] = cache[v][q] \/ (read[r].ver = v /\ cache'[v][q] = read[r].got)
    BY <1>0, <1>8
  <2>3. \A v \in Versions, q \in Queries : cache'[v][q] # None =>
           v <= version /\ \A p \in Parts : cache'[v][q][p] <= now
    BY <2>1, <2>2 DEF NotAhead
  <2>4. \A o \in Readers : read'[o] = IF o = r THEN NoRead ELSE read[o]
    BY <1>0, <1>8 DEF Reading
  <2>5. now' = now /\ version' = version
    BY <1>8 DEF Reading
  <2>6. NoRead.ver <= version /\ \A p \in Parts : NoRead.got[p] = None
    BY <1>0, NoReadTyped DEF Nothing
  <2> QED
    BY <2>3, <2>4, <2>5, <2>6, NoReadTyped DEF NotAhead
<1>9. ASSUME NEW u \in Versions, NEW q \in Queries, cache' = [cache EXCEPT ![u][q] = None],
             UNCHANGED <<now, version, read, write>>
      PROVE  NotAhead'
  <2>1. \A v \in Versions, o \in Queries : cache'[v][o] \in {cache[v][o], None}
    BY <1>0, <1>9
  <2> QED
    BY <1>0, <1>9, <2>1 DEF NotAhead
<1>10. ASSUME read' = [r \in Readers |-> NoRead], UNCHANGED <<now, version, cache>>
       PROVE  NotAhead'
  <2>1. NoRead.ver <= version /\ \A p \in Parts : NoRead.got[p] = None
    BY <1>0, NoReadTyped DEF Nothing
  <2> QED
    BY <1>0, <1>10, <2>1, NoReadTyped DEF NotAhead
<1> QED
  BY <1>2, <1>4, <1>5, <1>6, <1>7, <1>8, <1>9, <1>10, ReadCases DEF ReadsMove

\* Under the next version nothing is cached or read yet.
LEMMA NextVersionIsFresh ==
  ASSUME ChatTyped, NotAhead, version + 1 \in Versions, NEW n \in Nat, n <= now
  PROVE  SeenUnder(n, version + 1)
BY DEF ChatTyped, NotAhead, SeenUnder

\* A request that is under way keeps its version and floor.
LEMMA FloorsStay ==
  ASSUME ChatInv, [Next]_vars
  PROVE  Floors'
<1>0. /\ ChatTyped /\ NotAhead /\ ReadsMove /\ read \in [Readers -> Reads]
      /\ version \in Versions /\ Counts \subseteq Nat
  BY InBounds, ReadCases DEF ChatInv, ChatTyped
<1>1. ASSUME NEW n \in Nat, NEW v \in Versions, SeenUnder(n, v) PROVE SeenUnder(n, v)'
  BY <1>0, <1>1, OnlyUp, SeenStays
<1>2. \A r \in Readers : read'[r].pc # "idle" =>
         \/ read[r].pc # "idle" /\ read'[r].ver = read[r].ver /\ read'[r].floor = read[r].floor
         \/ read'[r].ver = version /\ read'[r].floor = Settled
  <2> DEFINE Kept(r) == \/ read'[r].pc = "idle"
                        \/ read[r].pc # "idle" /\ read'[r].ver = read[r].ver
                                               /\ read'[r].floor = read[r].floor
                        \/ read'[r].ver = version /\ read'[r].floor = Settled
  <2>1. ASSUME NEW r \in Readers, NEW x, Reading(r, x), NEW o \in Readers,
               \/ x.pc = "idle" \/ (x.ver = version /\ x.floor = Settled)
               \/ read[r].pc # "idle" /\ x.ver = read[r].ver /\ x.floor = read[r].floor
        PROVE  Kept(o)
    BY <1>0, <2>1 DEF Reading
  <2>2. ASSUME NEW r \in Readers, Reading(r, NoRead), NEW o \in Readers PROVE Kept(o)
    <3>1. read'[o] = NoRead \/ read'[o] = read[o]
      BY <1>0, <2>2 DEF Reading
    <3> QED
      BY <3>1, NoReadTyped
  <2>3. ASSUME NEW r \in Readers, read[r].pc # "idle", NEW o \in Readers,
               \/ Reading(r, [read[r] EXCEPT !.pc = "query"])
               \/ \E p \in Parts :
                     Reading(r, [read[r] EXCEPT !.got = [read[r].got EXCEPT ![p] = now]])
        PROVE  Kept(o)
    <3>1. LET x == [read[r] EXCEPT !.pc = "query"]
          IN  x.ver = read[r].ver /\ x.floor = read[r].floor
      BY <1>0 DEF Reads
    <3>2. ASSUME NEW p \in Parts
          PROVE  LET x == [read[r] EXCEPT !.got = [read[r].got EXCEPT ![p] = now]]
                 IN  x.ver = read[r].ver /\ x.floor = read[r].floor
      BY <1>0 DEF Reads
    <3>3. CASE Reading(r, [read[r] EXCEPT !.pc = "query"])
      BY <2>1, <2>3, <3>1, <3>3
    <3>4. ASSUME NEW p \in Parts,
                 Reading(r, [read[r] EXCEPT !.got = [read[r].got EXCEPT ![p] = now]])
          PROVE  Kept(o)
      <4>1. \E x : Reading(r, x) /\ x.ver = read[r].ver /\ x.floor = read[r].floor
        BY <3>2, <3>4
      <4> QED
        BY <2>1, <2>3, <4>1
    <3> QED
      BY <2>3, <3>3, <3>4
  <2>4. ASSUME NEW r \in Readers, NEW q, NEW o \in Readers,
               Reading(r, [pc |-> "lookup", ver |-> version, query |-> q,
                           got |-> Nothing, floor |-> Settled])
        PROVE  Kept(o)
    BY <2>1, <2>4
  <2>5. ASSUME UNCHANGED read \/ read' = [r \in Readers |-> NoRead], NEW o \in Readers
        PROVE  Kept(o)
    BY <2>5, NoReadTyped
  <2> HIDE DEF Kept
  <2>6. \A o \in Readers : Kept(o)
    BY <1>0, <2>2, <2>3, <2>4, <2>5 DEF ReadsMove
  <2> QED
    BY <2>6 DEF Kept
<1>3. Settled \in Nat /\ SeenUnder(Settled, version)
  BY <1>0, SettledIs
<1>4. \A r \in Readers : read[r].floor \in Nat /\ read[r].ver \in Versions
  BY <1>0 DEF Reads
<1>5. \A r \in Readers : read'[r].pc # "idle" =>
         \E n \in Nat, v \in Versions :
            read'[r].floor = n /\ read'[r].ver = v /\ SeenUnder(n, v)
  BY <1>0, <1>2, <1>3, <1>4 DEF ChatInv, Floors
<1>6. ASSUME NEW r \in Readers, read'[r].pc # "idle" PROVE SeenUnder(read[r].floor, read[r].ver)'
  <2> PICK n \in Nat, v \in Versions : read'[r].floor = n /\ read'[r].ver = v /\ SeenUnder(n, v)
    BY <1>5, <1>6
  <2>1. SeenUnder(n, v)'
    BY <1>1
  <2> QED
    BY <2>1 DEF SeenUnder
<1> QED
  BY <1>6 DEF Floors

\* A change is answered only after its version was raised.
LEMMA WriteCases ==
  ASSUME ChatTyped, [Next]_vars, NEW w \in Writers, write'[w].pc \in {"bump", "answer"}
  PROVE  \/ write'[w] = write[w]
         \/ write'[w].pc = "bump" /\ write'[w].index = now'
         \/ /\ write'[w].pc = "answer" /\ write[w].pc = "bump" /\ write'[w].index = write[w].index
            /\ version' = version + 1
<1>0. write \in [Writers -> Writes] /\ \A o \in Writers : write[o] \in Writes
  BY DEF ChatTyped
<1>1. ASSUME NEW o \in Writers, NEW x, write' = [write EXCEPT ![o] = x], x.pc \notin {"bump", "answer"}
      PROVE  write'[w] = write[w]
  BY <1>0, <1>1
<1>2. ASSUME NEW o \in Writers, NEW pc \in {"limit", "expire", "store"}, Step(o, pc)
      PROVE  write'[w] = write[w]
  <2>1. [write[o] EXCEPT !.pc = pc].pc = pc
    BY <1>0 DEF Writes
  <2> QED
    BY <1>1, <1>2, <2>1 DEF Step
<1>3. ASSUME NEW o \in Writers, Finish(o) PROVE write'[w] = write[w]
  BY <1>1, <1>3 DEF Finish, NoWrite
<1>4. ASSUME NEW o \in Writers, CheckBan(o) \/ CountPost(o) \/ StartWindow(o) \/ AnswerWrite(o)
                                \/ WriteFails(o)
      PROVE  write'[w] = write[w]
  <2>1. Finish(o) \/ \E pc \in {"limit", "expire", "store"} : Step(o, pc)
    BY <1>4 DEF CheckBan, CountPost, StartWindow, AnswerWrite, WriteFails
  <2> QED
    BY <1>2, <1>3, <2>1
<1>5. ASSUME NEW o \in Writers, BeginModerate(o) \/ \E u \in Users : BeginPost(o, u)
      PROVE  write'[w] = write[w]
  <2>1. \E u, pc : pc \in {"ban", "moderate"}
                   /\ write' = [write EXCEPT ![o] = [pc |-> pc, user |-> u, index |-> 0]]
    BY <1>5 DEF BeginModerate, BeginPost, Begin
  <2> PICK u, pc : pc \in {"ban", "moderate"}
                   /\ write' = [write EXCEPT ![o] = [pc |-> pc, user |-> u, index |-> 0]]
    BY <2>1
  <2>2. [pc |-> pc, user |-> u, index |-> 0].pc = pc
    OBVIOUS
  <2> QED
    BY <1>1, <2>2
<1>6. ASSUME NEW o \in Writers, ChangeRow(o)
      PROVE  write'[w] = write[w] \/ (write'[w].pc = "bump" /\ write'[w].index = now')
  BY <1>0, <1>6 DEF ChangeRow, Changed, Writes
<1>7. ASSUME NEW o \in Writers, BumpVersion(o)
      PROVE  \/ write'[w] = write[w]
             \/ /\ write'[w].pc = "answer" /\ write[w].pc = "bump"
                /\ write'[w].index = write[w].index /\ version' = version + 1
  BY <1>0, <1>7 DEF BumpVersion, Step, Writes
<1>8. CASE Restart
  BY <1>8 DEF Restart, NoWrite
<1>9. CASE \/ UNCHANGED vars
           \/ \E r \in Readers : Get(r) \/ ReadFails(r) \/ \E q \in Queries : BeginGet(r, q)
           \/ \E u \in Users : LimitExpires(u)
           \/ \E v \in Versions, q \in Queries : PageExpires(v, q)
  <2>1. UNCHANGED write
    BY <1>9 DEF vars, redis, Get, Hit, Miss, Store, Query, ReadFails, BeginGet, LimitExpires,
       PageExpires
  <2> QED
    BY <2>1
<1> QED
  BY <1>4, <1>5, <1>6, <1>7, <1>8, <1>9 DEF Next, Post

LEMMA InBoundsNext ==
  (ChatTyped => /\ now \in Counts /\ version \in Versions /\ version <= now
                /\ Counts \subseteq Nat /\ None \notin Nat)'
BY InBounds, PTL

LEMMA WrittenStays ==
  ASSUME ChatInv, ChatTyped', [Next]_vars
  PROVE  Written'
<1>0. /\ ChatTyped /\ NotAhead /\ ReadsMove /\ write \in [Writers -> Writes]
      /\ version \in Versions /\ version' \in Versions /\ Counts \subseteq Nat
      /\ now \in Nat /\ version \in Nat
  BY InBounds, InBoundsNext, ReadCases DEF ChatInv, ChatTyped
<1>1. ASSUME NEW n \in Nat, NEW v \in Versions, SeenUnder(n, v) PROVE SeenUnder(n, v)'
  BY <1>0, <1>1, OnlyUp, SeenStays
<1>2. now <= now' /\ now' \in Nat
  BY <1>0, OnlyUp
<1>3. \A w \in Writers : write[w].index \in Nat
  BY <1>0 DEF Writes
<1>4. ASSUME NEW w \in Writers, write'[w].pc \in {"bump", "answer"} PROVE write'[w].index <= now'
  BY <1>0, <1>2, <1>3, <1>4, WriteCases DEF ChatInv, Written
<1>5. ASSUME NEW w \in Writers, write'[w].pc = "answer"
      PROVE  \E n \in Nat, v \in Versions : write'[w].index = n /\ version' = v /\ SeenUnder(n, v)
  <2>1. CASE version' = version + 1
    <3>1. write'[w].index = write[w].index /\ write[w].index <= now
      BY <1>0, <1>5, <2>1, WriteCases DEF ChatInv, Written
    <3>2. SeenUnder(write[w].index, version + 1)
      BY <1>0, <1>3, <2>1, <3>1, NextVersionIsFresh
    <3> QED
      BY <1>0, <1>3, <2>1, <3>1, <3>2
  <2>2. CASE version' = version
    <3>1. write'[w] = write[w]
      BY <1>0, <1>5, <2>2, WriteCases
    <3> QED
      BY <1>0, <1>3, <1>5, <2>2, <3>1 DEF ChatInv, Written
  <2> QED
    BY <2>1, <2>2, OnlyUp
<1>6. ASSUME NEW w \in Writers, write'[w].pc = "answer" PROVE SeenUnder(write[w].index, version)'
  <2> PICK n \in Nat, v \in Versions : write'[w].index = n /\ version' = v /\ SeenUnder(n, v)
    BY <1>5, <1>6
  <2>1. SeenUnder(n, v)'
    BY <1>1
  <2> QED
    BY <2>1 DEF SeenUnder
<1> QED
  BY <1>4, <1>6 DEF Written

LEMMA ChatStarts == Init => ChatInv
<1> SUFFICES ASSUME Init PROVE ChatInv
  OBVIOUS
<1>1. Before = {} /\ Bumping = {}
  BY DEF Init, Before, Bumping, NoWrite
<1>2. ChatTyped
  <2>1. NoWrite \in Writes
    BY ChatSnapshotAssumption DEF NoWrite, Writes, Counts, ChatSnapshotAssumption
  <2> QED
    BY <1>1, <2>1, NoReadTyped, FS_EmptySet, ChatSnapshotAssumption
    DEF Init, ChatTyped, ChatSnapshotAssumption
<1>3. NotAhead
  BY NoReadTyped DEF Init, NotAhead, Nothing
<1>4. Floors /\ Written
  BY NoReadTyped DEF Init, Floors, Written, NoWrite
<1> QED
  BY <1>2, <1>3, <1>4 DEF ChatInv

LEMMA ChatInductive == Spec => []ChatInv
<1>1. ChatInv /\ [Next]_vars => ChatInv'
  <2> SUFFICES ASSUME ChatInv, [Next]_vars PROVE ChatInv'
    OBVIOUS
  <2>1. ChatTyped'
    BY WriteTyped, ReadCases, CacheTyped DEF ChatInv, ChatTyped, Budget
  <2> QED
    BY <2>1, NotAheadStays, FloorsStay, WrittenStays DEF ChatInv
<1> QED
  BY <1>1, ChatStarts, PTL DEF Spec

\* For any number of readers, writers and queries: once a writer has its answer, no
\* page that misses its change can be given any more, cached or still being read.
THEOREM AnswersAreSeen == Spec => []AnsweredIsSeen
<1>1. ChatInv => AnsweredIsSeen
  <2> SUFFICES ASSUME ChatInv, NEW w \in Writers, write[w].pc = "answer"
               PROVE  Settled >= write[w].index
    BY DEF AnsweredIsSeen
  <2>1. ChatTyped /\ write[w].index \in Nat /\ SeenUnder(write[w].index, version)
    BY InBounds DEF ChatInv, ChatTyped, Written, Writes
  <2> QED
    BY <2>1, SettledIs
<1> QED
  BY <1>1, ChatInductive, PTL

-----------------------------------------------------------------------------
(* The cache is invisible: every step is one FreshReads allows.            *)

AskedFloor == [r \in Readers |-> Floor(r)]

\* The floors of the requests of R are forgotten, the others stay.
Forgets(R) == AskedFloor' = [r \in Readers |-> IF r \in R THEN None ELSE AskedFloor[r]]

\* What is settled stays settled.
LEMMA SettledGrows ==
  ASSUME ChatInv, ChatInv', [Next]_vars
  PROVE  Settled' \in Settled .. now'
<1>0. /\ ChatTyped /\ ChatTyped' /\ NotAhead /\ ReadsMove
      /\ version \in Versions /\ version' \in Versions /\ now \in Nat /\ version \in Nat
      /\ now' \in Nat
  BY InBounds, InBoundsNext, ReadCases DEF ChatInv, ChatTyped
<1>1. Settled \in Nat /\ Settled <= now /\ SeenUnder(Settled, version)
  BY <1>0, SettledIs
<1>2. \E n \in Nat, v \in Versions : n = Settled /\ version' = v /\ SeenUnder(n, v)
  <2>1. CASE version' = version
    BY <1>0, <1>1, <2>1
  <2>2. CASE version' = version + 1
    BY <1>0, <1>1, <2>2, NextVersionIsFresh
  <2> QED
    BY <2>1, <2>2, OnlyUp
<1>3. PICK n \in Nat, v \in Versions : n = Settled /\ version' = v /\ SeenUnder(n, v)
  BY <1>2
<1>4. SeenUnder(n, v)'
  BY <1>0, <1>3, OnlyUp, SeenStays
<1>5. SeenUnder(n, version)'
  BY <1>3, <1>4 DEF SeenUnder
<1>6. n <= Settled' /\ Settled' \in Nat /\ Settled' <= now'
  BY <1>0, <1>5, SettledNext
<1> QED
  BY <1>0, <1>3, <1>6

\* A reader that answers gives a page no older than its floor, and no newer than now.
LEMMA PagesInTime ==
  ASSUME ChatInv, NEW r \in Readers, read[r].pc # "idle", NEW page \in Page,
         \/ page = cache[read[r].ver][read[r].query] /\ page # None
         \/ read[r].pc = "query" /\ page = read[r].got
  PROVE  page \in [Parts -> read[r].floor .. now]
<1>0. /\ read[r] \in Reads /\ Counts \subseteq Nat /\ None \notin Nat /\ now \in Nat
      /\ read[r].ver \in Versions /\ read[r].query \in Queries /\ read[r].floor \in Nat
  BY InBounds DEF ChatInv, ChatTyped, NotAhead, Reads
<1>1. \A p \in Parts : page[p] \in Nat
  BY <1>0 DEF Page
<1>2. SeenUnder(read[r].floor, read[r].ver)
  BY DEF ChatInv, Floors
<1>3. \A p \in Parts : read[r].floor <= page[p] /\ page[p] <= now
  BY <1>0, <1>1, <1>2 DEF SeenUnder, ChatInv, NotAhead
<1> QED
  BY <1>0, <1>1, <1>3 DEF Page

\* What a step does to the floors and the answer.
FreshStep ==
    \/ /\ now' = now + 1 /\ Forgets({}) /\ answer' = None
    \/ \E r \in Readers :
          /\ AskedFloor[r] = None /\ AskedFloor' = [AskedFloor EXCEPT ![r] = Settled]
          /\ now' = now /\ answer' = None
    \/ \E r \in Readers :
          /\ AskedFloor[r] # None /\ AskedFloor' = [AskedFloor EXCEPT ![r] = None]
          /\ answer' \in [Parts -> AskedFloor[r] .. now] /\ now' = now
    \/ \E R \in SUBSET Readers : Forgets(R) /\ now' = now /\ answer' = None
    \/ UNCHANGED vars

LEMMA StepIsFresh ==
  ASSUME ChatInv, [Next]_vars
  PROVE  FreshStep
<1>0. /\ read \in [Readers -> Reads] /\ Counts \subseteq Nat /\ None \notin Nat
      /\ cache \in [Versions -> [Queries -> Page \cup {None}]]
      /\ \A r \in Readers : read[r].floor \in Nat
  BY InBounds DEF ChatInv, ChatTyped, Reads
<1>1. \A r \in Readers : AskedFloor[r] = Floor(r) /\ (AskedFloor[r] = None <=> read[r].pc = "idle")
  BY <1>0 DEF AskedFloor, Floor
<1>2. ASSUME UNCHANGED read PROVE Forgets({})
  BY <1>2 DEF Forgets, AskedFloor, Floor
<1>3. ASSUME NEW r \in Readers, read' = [read EXCEPT ![r] = NoRead]
      PROVE  AskedFloor' = [AskedFloor EXCEPT ![r] = None] /\ Forgets({r})
  BY <1>0, <1>3, NoReadTyped DEF Forgets, AskedFloor, Floor
<1>4. ASSUME NEW r \in Readers, NEW q \in Queries, BeginGet(r, q) PROVE FreshStep
  <2>1. AskedFloor' = [AskedFloor EXCEPT ![r] = Settled]
    BY <1>0, <1>4 DEF BeginGet, AskedFloor, Floor
  <2> QED
    BY <1>1, <1>4, <2>1 DEF BeginGet, Silent, FreshStep
<1>5. ASSUME NEW r \in Readers, Hit(r) PROVE FreshStep
  <2> DEFINE page == cache[read[r].ver][read[r].query]
  <2>1. page \in Page
    <3>1. read[r].ver \in Versions /\ read[r].query \in Queries
      BY <1>0, <1>5 DEF Hit, Reads, ChatInv, NotAhead
    <3> QED
      BY <1>0, <1>5, <3>1 DEF Hit
  <2>2. page \in [Parts -> read[r].floor .. now]
    BY <1>5, <2>1, PagesInTime DEF Hit
  <2> QED
    BY <1>1, <1>3, <1>5, <2>2 DEF Hit, Respond, Floor, FreshStep
<1>6. ASSUME NEW r \in Readers, Store(r) PROVE FreshStep
  <2>1. read[r].got \in Page
    BY <1>0, <1>6 DEF Store, Reads, Page
  <2>2. read[r].got \in [Parts -> read[r].floor .. now]
    BY <1>6, <2>1, PagesInTime DEF Store
  <2> QED
    BY <1>1, <1>3, <1>6, <2>2 DEF Store, Respond, Floor, FreshStep
<1>7. ASSUME NEW r \in Readers, Miss(r) \/ \E p \in Parts : Query(r, p) PROVE FreshStep
  <2>1. Forgets({})
    <3>1. \A o \in Readers : read'[o].floor = read[o].floor
                            /\ (read'[o].pc = "idle" <=> read[o].pc = "idle")
      <4>1. CASE Miss(r)
        BY <1>0, <4>1 DEF Miss, Reads
      <4>2. ASSUME NEW p \in Parts, Query(r, p)
            PROVE  \A o \in Readers : read'[o].floor = read[o].floor /\ read'[o].pc = read[o].pc
        BY <1>0, <4>2 DEF Query, Reads
      <4> QED
        BY <1>7, <4>1, <4>2
    <3> QED
      BY <3>1 DEF Forgets, AskedFloor, Floor
  <2>2. now' = now /\ answer' = None
    BY <1>7 DEF Miss, Query, Silent
  <2> QED
    BY <2>1, <2>2 DEF FreshStep
<1>8. ASSUME NEW r \in Readers, ReadFails(r) PROVE FreshStep
  BY <1>3, <1>8 DEF ReadFails, Silent, FreshStep
<1>9. CASE Restart
  <2>1. Forgets(Readers)
    BY <1>9, NoReadTyped DEF Restart, Forgets, AskedFloor, Floor
  <2> QED
    BY <1>9, <2>1 DEF Restart, Silent, FreshStep
<1>10. ASSUME NEW w \in Writers, ChangeRow(w) PROVE FreshStep
  BY <1>2, <1>10 DEF ChangeRow, Changed, Silent, FreshStep
<1>11. ASSUME UNCHANGED <<now, read>>, Silent PROVE FreshStep
  BY <1>2, <1>11 DEF Silent, FreshStep
<1>12. ASSUME NEW w \in Writers, \/ Post(w) \/ WriteFails(w) \/ BeginModerate(w)
                                 \/ \E u \in Users : BeginPost(w, u)
       PROVE  FreshStep
  <2>1. ChangeRow(w) \/ (UNCHANGED <<now, read>> /\ Silent)
    BY <1>12 DEF Post, CheckBan, CountPost, StartWindow, BumpVersion, AnswerWrite, WriteFails,
       BeginModerate, BeginPost, Begin
  <2> QED
    BY <1>10, <1>11, <2>1
<1>13. CASE \/ \E u \in Users : LimitExpires(u)
            \/ \E v \in Versions, q \in Queries : PageExpires(v, q)
  BY <1>11, <1>13 DEF LimitExpires, PageExpires
<1>14. CASE UNCHANGED vars
  BY <1>14 DEF FreshStep
<1> QED
  BY <1>4, <1>5, <1>6, <1>7, <1>8, <1>9, <1>12, <1>13, <1>14 DEF Next, Get

\* The chat with its cache implements FreshReads: whatever requests interleave, fill
\* the cache late or fail, an answer misses no change that was settled when its
\* request came in, and no change is unsettled again.
THEOREM CacheIsInvisible == Spec => ReadsAreFresh
<1>1. Init => Fresh!Init
  <2> SUFFICES ASSUME Init PROVE Fresh!Init
    OBVIOUS
  <2>1. ChatTyped
    BY ChatStarts DEF ChatInv
  <2>2. Settled = 0
    BY <2>1, SettledIs DEF Init
  <2>3. \A r \in Readers : Floor(r) = None
    BY DEF Init, Floor, NoRead
  <2> QED
    BY <2>2, <2>3 DEF Init, Fresh!Init
<1>2. ChatInv /\ ChatInv' /\ [Next]_vars => [Fresh!Next]_(Fresh!vars)
  <2> SUFFICES ASSUME ChatInv, ChatInv', [Next]_vars PROVE [Fresh!Next]_(Fresh!vars)
    OBVIOUS
  <2>1. FreshStep /\ Settled' \in Settled .. now'
    BY StepIsFresh, SettledGrows
  <2>2. ASSUME UNCHANGED vars PROVE UNCHANGED Fresh!vars
    BY <2>2 DEF vars, redis, Fresh!vars, Settled, Shown, Cached, Filling, Floor
  <2>3. ASSUME ~UNCHANGED vars PROVE Fresh!Next
    BY <2>1, <2>3 DEF FreshStep, Forgets, AskedFloor, Fresh!Next, Fresh!Change, Fresh!Ask,
       Fresh!Answer, Fresh!Refuse, Fresh!Settle
  <2> QED
    BY <2>2, <2>3
<1> QED
  BY <1>1, <1>2, ChatInductive, PTL DEF Spec, ReadsAreFresh, Fresh!Spec
=============================================================================

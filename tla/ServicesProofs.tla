--------------------------- MODULE ServicesProofs ---------------------------
(***************************************************************************)
(* What is proved of RoomStock, the cap on rooms, and of ApiProcess, the   *)
(* shutdown: for any number of pages, rooms, sweeps and requests.          *)
(***************************************************************************)
EXTENDS MCServices, FiniteSetTheorems, TLAPS

(* The cap.                                                                *)

\* A call that has counted has its insertion before it, and found room for one.
Balance ==
    /\ peak \in Nat /\ Cardinality(Counted) <= peak
    /\ Cardinality(Active) + Cardinality(Counted) < Cap + peak

PageStates == [at : Steps \cup {"setup", "room"}, user : Users \cup {None},
               room : Rooms \cup {None}, left : BOOLEAN]

StockTyped ==
    /\ status \in [Rooms -> {"none", "created", "live", "ended", "purged"}]
    /\ page \in [Pages -> PageStates]
    /\ \A r \in old : r \in Rooms /\ status[r] = "ended"

StockInv == StockTyped /\ Balance

LEMMA FiniteParts ==
  /\ IsFiniteSet(Active) /\ Cardinality(Active) \in Nat
  /\ IsFiniteSet(Counted) /\ Cardinality(Counted) \in Nat
<1>1. IsFiniteSet(Rooms) /\ IsFiniteSet(Pages)
  BY RoomStockAssumption, FS_Interval DEF RoomStockAssumption, Rooms
<1>2. Active \subseteq Rooms /\ Counted \subseteq Pages
  BY DEF Active, Counted
<1> QED
  BY <1>1, <1>2, FS_Subset, FS_CardinalityType

\* A call that has counted gives up, or a room ends, or neither.
LEMMA BalanceStays ==
  ASSUME StockInv, peak' = peak, Active' \subseteq Active, Counted' \subseteq Counted
  PROVE  Balance'
<1>1. /\ Cardinality(Active') <= Cardinality(Active) /\ Cardinality(Active') \in Nat
      /\ Cardinality(Counted') <= Cardinality(Counted) /\ Cardinality(Counted') \in Nat
  BY FiniteParts, FS_Subset, FS_CardinalityType
<1> QED
  BY <1>1, FiniteParts, RoomStockAssumption DEF StockInv, Balance, RoomStockAssumption

\* The count is below the cap: there is room for one more than are between the two.
LEMMA BalanceCounted ==
  ASSUME StockInv, NEW p, p \notin Counted, Cardinality(Active) < Cap, Active' = Active,
         Counted' = Counted \cup {p},
         peak' = (IF Cardinality(Counted) + 1 > peak THEN Cardinality(Counted) + 1 ELSE peak)
  PROVE  Balance'
<1>1. Cardinality(Counted') = Cardinality(Counted) + 1
  BY FiniteParts, FS_AddElement
<1> QED
  BY <1>1, FiniteParts, RoomStockAssumption DEF StockInv, Balance, RoomStockAssumption

\* The room is inserted: its call had counted.
LEMMA BalanceInserted ==
  ASSUME StockInv, NEW p \in Counted, NEW r, r \notin Active, peak' = peak,
         Active' = Active \cup {r}, Counted' = Counted \ {p}
  PROVE  Balance'
<1>1. Cardinality(Active') = Cardinality(Active) + 1
      /\ Cardinality(Counted') = Cardinality(Counted) - 1
  BY FiniteParts, FS_AddElement, FS_RemoveElement
<1> QED
  BY <1>1, FiniteParts, RoomStockAssumption DEF StockInv, Balance, RoomStockAssumption

\* What the steps make of one page.
LEMMA PageMoves ==
  ASSUME NEW s \in PageStates
  PROVE  /\ NoPage \in PageStates /\ NoPage.at = "setup"
         /\ \A u \in Users : LET q == [NoPage EXCEPT !.at = "count", !.user = u]
                            IN  q \in PageStates /\ q.at = "count"
         /\ \A step \in Steps \cup {"room"} : LET q == [s EXCEPT !.at = step]
                                             IN  q \in PageStates /\ q.at = step
         /\ \A r \in Rooms : LET q == [s EXCEPT !.at = "host", !.room = r]
                            IN  q \in PageStates /\ q.at = "host"
         /\ LET q == [s EXCEPT !.left = TRUE] IN q \in PageStates /\ q.at = s.at
<1> USE DEF PageStates
<1>1. NoPage \in PageStates /\ NoPage.at = "setup"
  BY DEF NoPage, Steps
<1>2. ASSUME NEW u \in Users
      PROVE  LET q == [NoPage EXCEPT !.at = "count", !.user = u]
             IN  q \in PageStates /\ q.at = "count"
  BY DEF NoPage, Steps
<1>3. ASSUME NEW step \in Steps \cup {"room"}
      PROVE  LET q == [s EXCEPT !.at = step] IN q \in PageStates /\ q.at = step
  OBVIOUS
<1>4. ASSUME NEW r \in Rooms
      PROVE  LET q == [s EXCEPT !.at = "host", !.room = r] IN q \in PageStates /\ q.at = "host"
  BY DEF Steps
<1>5. LET q == [s EXCEPT !.left = TRUE] IN q \in PageStates /\ q.at = s.at
  OBVIOUS
<1> QED
  BY <1>1, <1>2, <1>3, <1>4, <1>5

\* A page that moves, and no call but one that has counted comes before its insertion.
LEMMA OnePageMoves ==
  ASSUME StockTyped, NEW p \in Pages, NEW u \in Users,
         \/ GivesUp(p) \/ InsertHost(p) \/ InsertRoom(p) \/ Token(p) \/ End(p)
         \/ CountActiveRooms(p) \/ Start(p, u)
  PROVE  /\ page' \in [Pages -> PageStates]
         /\ \A q \in Pages \ {p} : page'[q] = page[q]
         /\ page'[p].at = "insert" => CountActiveRooms(p) /\ RoomIsLeft
<1> USE DEF At, Goto, Setup
<1>0. page \in [Pages -> PageStates] /\ page[p] \in PageStates
  BY DEF StockTyped
<1>1. ASSUME NEW s \in PageStates, page' = [page EXCEPT ![p] = s],
             s.at = "insert" => CountActiveRooms(p) /\ RoomIsLeft
      PROVE  /\ page' \in [Pages -> PageStates]
             /\ \A q \in Pages \ {p} : page'[q] = page[q]
             /\ page'[p].at = "insert" => CountActiveRooms(p) /\ RoomIsLeft
  BY <1>0, <1>1
<1>2. CASE page' = [page EXCEPT ![p] = NoPage]
  <2>1. NoPage \in PageStates /\ NoPage.at # "insert"
    BY <1>0, PageMoves
  <2> QED
    BY <1>1, <1>2, <2>1
<1>3. ASSUME NEW step \in {"host", "token", "room"}, page' = [page EXCEPT ![p].at = step]
      PROVE  \E s \in PageStates : page' = [page EXCEPT ![p] = s] /\ s.at # "insert"
  <2> DEFINE s == [page[p] EXCEPT !.at = step]
  <2>1. page' = [page EXCEPT ![p] = s]
    BY <1>3
  <2>3. step \in Steps \cup {"room"} /\ step # "insert"
    BY DEF Steps
  <2>2. s \in PageStates /\ s.at = step
    BY <1>0, <2>3 DEF PageStates
  <2> HIDE DEF s
  <2> QED
    BY <2>1, <2>2, <2>3
<1>4. CASE GivesUp(p) \/ InsertHost(p) \/ Token(p) \/ End(p)
  BY <1>1, <1>2, <1>3, <1>4 DEF GivesUp, InsertHost, Token, End
<1>5. CASE InsertRoom(p)
  <2>1. SUFFICES ASSUME NEW r \in Rooms, page' = [page EXCEPT ![p].at = "host", ![p].room = r]
                 PROVE  \E s \in PageStates : page' = [page EXCEPT ![p] = s] /\ s.at # "insert"
    BY <1>1, <1>2, <1>5 DEF InsertRoom
  <2> DEFINE s == [page[p] EXCEPT !.at = "host", !.room = r]
  <2>2. page' = [page EXCEPT ![p] = s]
    BY <2>1
  <2>3. s \in PageStates /\ s.at # "insert"
    BY <1>0, PageMoves
  <2> HIDE DEF s
  <2> QED
    BY <2>2, <2>3
<1>6. CASE CountActiveRooms(p)
  <2>1. CASE RoomIsLeft
    <3> DEFINE s == [page[p] EXCEPT !.at = "insert"]
    <3>1. page' = [page EXCEPT ![p] = s]
      BY <1>6, <2>1 DEF CountActiveRooms
    <3>2. s \in PageStates
      BY <1>0, PageMoves DEF Steps
    <3> HIDE DEF s
    <3> QED
      BY <1>1, <1>6, <2>1, <3>1, <3>2
  <2>2. CASE ~RoomIsLeft
    BY <1>2, <1>6, <2>2 DEF CountActiveRooms
  <2> QED
    BY <2>1, <2>2
<1>7. CASE Start(p, u)
  <2> DEFINE s == [NoPage EXCEPT !.at = "count", !.user = u]
  <2>1. page' = [page EXCEPT ![p] = s]
    BY <1>7 DEF Start
  <2>2. s \in PageStates /\ s.at # "insert"
    BY <1>0, PageMoves
  <2> HIDE DEF s
  <2> QED
    BY <1>1, <2>1, <2>2
<1> QED
  BY <1>4, <1>5, <1>6, <1>7

LEMMA StockTypedInductive ==
  ASSUME StockTyped, [Next]_vars
  PROVE  StockTyped'
<1>12. ASSUME NEW p \in Pages, NEW u \in Users,
              \/ GivesUp(p) \/ InsertHost(p) \/ InsertRoom(p) \/ Token(p) \/ End(p)
              \/ CountActiveRooms(p) \/ Start(p, u)
       PROVE  page' \in [Pages -> PageStates]
  BY <1>12, OnePageMoves
<1>13. \E u : u \in Users
  BY RoomStockAssumption DEF RoomStockAssumption
<1> USE DEF StockTyped, rooms, bounds
<1>1. ASSUME NEW p \in Pages,
             \/ GivesUp(p) \/ InsertHost(p) \/ CountActiveRooms(p) \/ \E u \in Users : Start(p, u)
      PROVE  StockTyped'
  BY <1>1, <1>12, <1>13 DEF Start, GivesUp, CountActiveRooms, InsertHost
<1>11. ASSUME NEW p \in Pages, Leaves(p) PROVE StockTyped'
  <2>1. page' = [page EXCEPT ![p] = [page[p] EXCEPT !.left = TRUE]] /\ page[p] \in PageStates
    BY <1>11 DEF Leaves
  <2>2. [page[p] EXCEPT !.left = TRUE] \in PageStates
    BY <2>1, PageMoves
  <2> QED
    BY <1>11, <2>1, <2>2 DEF Leaves
<1>2. ASSUME NEW p \in Pages, InsertRoom(p) PROVE StockTyped'
  <2>1. page' \in [Pages -> PageStates]
    BY <1>2, <1>12, <1>13
  <2>2. status' = status \/ \E r \in Rooms : status[r] = "none" /\ status' = [status EXCEPT ![r] = "created"]
    BY <1>2 DEF InsertRoom
  <2>3. old' = old /\ \A r \in old : r \in Rooms /\ status[r] = "ended"
    BY <1>2 DEF InsertRoom
  <2> QED
    BY <2>1, <2>2, <2>3
<1>3. ASSUME NEW p \in Pages, Token(p) PROVE StockTyped'
  <2>1. page' \in [Pages -> PageStates]
    BY <1>3, <1>12, <1>13
  <2>2. status' = status \/ \E r : status[r] \in {"created", "live"} /\ status' = [status EXCEPT ![r] = "live"]
    BY <1>3 DEF Token
  <2> QED
    BY <1>3, <2>1, <2>2 DEF Token
<1>4. ASSUME NEW p \in Pages, End(p) PROVE StockTyped'
  <2>1. page' \in [Pages -> PageStates]
    BY <1>4, <1>12, <1>13
  <2> QED
    BY <1>4, <2>1 DEF End
<1>5. ASSUME NEW r \in Rooms, RoomStarted(r) \/ RoomFinished(r) \/ RetentionPasses(r)
      PROVE  StockTyped'
  BY <1>5 DEF RoomStarted, RoomFinished, RetentionPasses
<1>6. ASSUME NEW k \in Sweeps, PurgeRooms(k) PROVE StockTyped'
  BY <1>6 DEF PurgeRooms, OldRooms
<1>7. ASSUME UNCHANGED <<status, old, page>> PROVE StockTyped'
  BY <1>7
<1>8. ASSUME NEW k \in Sweeps, ReadParticipants(k) \/ ReadHosts(k) \/ DeleteOrphans(k)
      PROVE  StockTyped'
  BY <1>8, <1>7 DEF ReadParticipants, ReadHosts, DeleteOrphans
<1>9. ASSUME NEW u \in Users, UserAges(u) \/ \E r \in Rooms : Visit(u, r) PROVE StockTyped'
  BY <1>9, <1>7 DEF UserAges, Visit
<1>10. CASE UNCHANGED vars
  BY <1>10, <1>7 DEF vars
<1> QED
  BY <1>1, <1>2, <1>3, <1>4, <1>5, <1>6, <1>8, <1>9, <1>10, <1>11 DEF Next, Create, SweepStep

LEMMA BalanceInductive ==
  ASSUME StockInv, [Next]_vars
  PROVE  Balance'
<1>0. StockTyped
  BY DEF StockInv
<1>16. ASSUME NEW p \in Pages, NEW u \in Users, GivesUp(p) \/ InsertHost(p) \/ Start(p, u)
       PROVE  /\ \A q \in Pages \ {p} : page'[q] = page[q]
              /\ page'[p].at = "insert" => CountActiveRooms(p)
  BY <1>0, <1>16, OnePageMoves
<1> USE DEF rooms, bounds, At, Goto, Setup, NoPage
<1>1. ASSUME UNCHANGED status PROVE Active' = Active
  BY <1>1 DEF Active
<1>2. ASSUME NEW p \in Pages, NEW s, page' = [page EXCEPT ![p] = s]
      PROVE  Counted' = IF s.at = "insert" THEN Counted \cup {p} ELSE Counted \ {p}
  BY <1>0, <1>2 DEF Counted, StockTyped
<1>3. ASSUME NEW p \in Pages, NEW s, page' = [page EXCEPT ![p] = s], s.at # "insert",
             UNCHANGED <<status, peak>>
      PROVE  Balance'
  BY <1>1, <1>2, <1>3, BalanceStays
<1>5. ASSUME NEW p \in Pages, CountActiveRooms(p) PROVE Balance'
  <2>1. CASE RoomIsLeft
    <3>1. p \notin Counted
      BY <1>5 DEF CountActiveRooms, Counted
    <3>2. Counted' = Counted \cup {p}
      BY <1>0, <1>5, <2>1 DEF CountActiveRooms, Counted, StockTyped, PageStates
    <3> QED
      BY <1>1, <1>5, <2>1, <3>1, <3>2, BalanceCounted DEF CountActiveRooms, RoomIsLeft
  <2>2. CASE ~RoomIsLeft
    BY <1>3, <1>5, <2>2 DEF CountActiveRooms
  <2> QED
    BY <2>1, <2>2
<1>4. ASSUME NEW p \in Pages, \/ GivesUp(p) \/ InsertHost(p) \/ \E u \in Users : Start(p, u)
      PROVE  Balance'
  <2>1. CASE CountActiveRooms(p)
    BY <1>5, <2>1
  <2>2. CASE ~CountActiveRooms(p)
    <3>1. PICK u \in Users : GivesUp(p) \/ InsertHost(p) \/ Start(p, u)
      BY <1>4, RoomStockAssumption DEF RoomStockAssumption
    <3>2. Counted' \subseteq Counted
      BY <1>16, <2>2, <3>1 DEF Counted
    <3>3. UNCHANGED <<status, peak>>
      BY <3>1 DEF Start, GivesUp, InsertHost
    <3> QED
      BY <1>1, <3>2, <3>3, BalanceStays
  <2> QED
    BY <2>1, <2>2
<1>15. ASSUME NEW p \in Pages, Leaves(p) PROVE Balance'
  <2>1. \A q \in Pages : page'[q].at = page[q].at
    BY <1>0, <1>15 DEF Leaves, StockTyped
  <2> QED
    BY <1>1, <1>15, <2>1, BalanceStays DEF Leaves, Counted
<1>6. ASSUME NEW p \in Pages, InsertRoom(p) PROVE Balance'
  <2>1. CASE user[page[p].user] = "gone"
    <3> DEFINE s == NoPage
    <3>1. page' = [page EXCEPT ![p] = s] /\ s.at # "insert" /\ UNCHANGED <<status, peak>>
      BY <1>6, <2>1 DEF InsertRoom
    <3> HIDE DEF s
    <3> QED
      BY <1>3, <3>1
  <2>2. CASE user[page[p].user] # "gone"
    <3> PICK r \in Rooms : /\ status[r] = "none"
                           /\ status' = [status EXCEPT ![r] = "created"]
                           /\ page' = [page EXCEPT ![p].at = "host", ![p].room = r]
      BY <1>6, <2>2 DEF InsertRoom
    <3>1. p \in Counted /\ Counted' = Counted \ {p}
      <4> DEFINE s == [page[p] EXCEPT !.at = "host", !.room = r]
      <4>1. page' = [page EXCEPT ![p] = s] /\ s.at # "insert" /\ p \in Counted
        BY <1>0, <1>6 DEF InsertRoom, Counted, StockTyped, PageStates
      <4> HIDE DEF s
      <4> QED
        BY <1>2, <4>1
    <3>2. r \notin Active /\ Active' = Active \cup {r}
      BY <1>0 DEF Active, StockTyped
    <3> QED
      BY <1>6, <3>1, <3>2, BalanceInserted DEF InsertRoom
  <2> QED
    BY <2>1, <2>2
\* A room's status changes, but none becomes active.
<1>7. ASSUME NEW r \in Rooms, NEW s, status' = [status EXCEPT ![r] = s],
             s \in {"created", "live"} => r \in Active
      PROVE  Active' \subseteq Active
  BY <1>0, <1>7 DEF Active, StockTyped
<1>8. ASSUME NEW r \in Rooms, RoomStarted(r) \/ RoomFinished(r) PROVE Balance'
  <2>1. UNCHANGED <<Counted, peak>>
    BY <1>8 DEF RoomStarted, RoomFinished, Counted
  <2>2. \E s : /\ status' = [status EXCEPT ![r] = s]
               /\ s \in {"created", "live"} => r \in Active
    BY <1>8 DEF RoomStarted, RoomFinished, Active
  <2> QED
    BY <1>7, <2>1, <2>2, BalanceStays
<1>9. ASSUME NEW p \in Pages, Token(p) PROVE Balance'
  <2> DEFINE r == page[p].room
  <2>1. CASE status[r] \in {"created", "live"}
    <3>1. Counted' \subseteq Counted
      <4>1. \A q \in Pages : page'[q].at = "insert" => page[q].at = "insert"
        BY <1>0, <1>9, <2>1 DEF Token, StockTyped, PageStates
      <4> QED
        BY <4>1 DEF Counted
    <3>2. Active' = Active /\ UNCHANGED peak
      BY <1>0, <1>9, <2>1 DEF Token, Active, StockTyped
    <3> QED
      BY <3>1, <3>2, BalanceStays
  <2>2. CASE status[r] \notin {"created", "live"}
    BY <1>3, <1>9, <2>2 DEF Token
  <2> QED
    BY <2>1, <2>2
<1>10. ASSUME NEW p \in Pages, End(p) PROVE Balance'
  <2> DEFINE r == page[p].room
  <2>1. Counted' \subseteq Counted /\ UNCHANGED peak
    BY <1>0, <1>10 DEF End, Counted, StockTyped
  <2>2. CASE r \in Rooms
    <3>1. \E s : /\ status' = [status EXCEPT ![r] = s]
                 /\ s \in {"created", "live"} => r \in Active
      BY <1>10, <2>2 DEF End, Active
    <3> QED
      BY <1>7, <2>1, <2>2, <3>1, BalanceStays
  <2>3. CASE r \notin Rooms
    <3>1. UNCHANGED status
      BY <1>0, <1>10, <2>3 DEF End, StockTyped
    <3> QED
      BY <1>1, <2>1, <3>1, BalanceStays
  <2> QED
    BY <2>2, <2>3
<1>11. ASSUME NEW k \in Sweeps, PurgeRooms(k) PROVE Balance'
  <2>1. \A r \in Active : r \notin old
    BY <1>0 DEF StockTyped, Active
  <2>2. Active' = Active
    BY <1>0, <1>11, <2>1 DEF PurgeRooms, OldRooms, Active, StockTyped
  <2>3. UNCHANGED <<Counted, peak>>
    BY <1>11 DEF PurgeRooms, Counted
  <2> QED
    BY <2>2, <2>3, BalanceStays
<1>12. ASSUME UNCHANGED <<status, page, peak>> PROVE Balance'
  BY <1>1, <1>12, BalanceStays DEF Counted
<1>13. ASSUME NEW k \in Sweeps, ReadParticipants(k) \/ ReadHosts(k) \/ DeleteOrphans(k)
       PROVE  Balance'
  BY <1>12, <1>13 DEF ReadParticipants, ReadHosts, DeleteOrphans
<1>14. CASE \/ UNCHANGED vars
            \/ \E u \in Users : UserAges(u) \/ \E r \in Rooms : Visit(u, r)
            \/ \E r \in Rooms : RetentionPasses(r)
  BY <1>12, <1>14 DEF vars, UserAges, Visit, RetentionPasses
<1> QED
  BY <1>4, <1>5, <1>6, <1>8, <1>9, <1>10, <1>11, <1>13, <1>14, <1>15 DEF Next, Create, SweepStep

LEMMA StockInductive == Spec => []StockInv
<1>1. Init => StockInv
  <2> SUFFICES ASSUME Init PROVE StockInv
    OBVIOUS
  <2>1. StockTyped
    BY DEF Init, StockTyped, PageStates, Steps, NoPage
  <2>2. Active = {} /\ Counted = {} /\ peak = 0
    BY DEF Init, Active, Counted, At, NoPage
  <2> QED
    BY <2>1, <2>2, FS_EmptySet, RoomStockAssumption DEF RoomStockAssumption, StockInv, Balance
<1>2. StockInv /\ [Next]_vars => StockInv'
  BY StockTypedInductive, BalanceInductive DEF StockInv
<1> QED
  BY <1>1, <1>2, PTL DEF Spec

\* For any number of rooms, users and pages, several pages of one host among them, and
\* whatever runs between a count and its insertion: the active rooms exceed the cap by
\* less than the most calls that were ever between the two at once.
THEOREM CapHolds == Spec => []CapBound
<1>1. StockInv => CapBound
  BY FiniteParts, RoomStockAssumption DEF RoomStockAssumption, StockInv, Balance, CapBound
<1> QED
  BY <1>1, StockInductive, PTL

-----------------------------------------------------------------------------
(* The shutdown.                                                           *)

\* The connections are closed when all requests are done, and no new one is taken up.
ProcessInv ==
    /\ CleanExit
    /\ phase \in {"none", "closing", "quitting"}
    /\ request \in [Requests -> {"new", "working", "answered", "failed", "refused", "cut"}]
    /\ A!Running => \A r \in Requests : request[r] \notin {"failed", "cut"}
    /\ A!Running /\ phase = "quitting" => A!Drained
    /\ A!Running /\ ~open => phase = "quitting"

LEMMA ProcessInductive == A!Spec => []ProcessInv
<1> USE DEF ProcessInv, CleanExit, A!CleanExit, A!Running, A!Drained
<1>1. A!Init => ProcessInv
  BY DEF A!Init
<1>2. ProcessInv /\ [A!Next]_(A!vars) => ProcessInv'
  <2> SUFFICES ASSUME ProcessInv, [A!Next]_(A!vars) PROVE ProcessInv'
    OBVIOUS
  <2>1. CASE A!Listens
    BY <2>1 DEF A!Listens, A!Exit
  <2>2. CASE A!Signal \/ A!Closed \/ A!Quits
    BY <2>2 DEF A!Signal, A!Closed, A!Quits
  <2>3. CASE A!Done
    BY <2>3 DEF A!Done, A!Exit
  <2>4. CASE A!CloseFails \/ A!HardExit
    BY <2>4 DEF A!CloseFails, A!HardExit, A!Exit
  <2>5. ASSUME NEW r \in Requests, A!Arrives(r) \/ A!Works(r) PROVE ProcessInv'
    BY <2>5 DEF A!Arrives, A!Works
  <2>6. CASE \E s \in ApiSweeps : A!SweepStarts(s) \/ A!SweepReads(s) \/ A!SweepDeletes(s)
    BY <2>6 DEF A!SweepStarts, A!SweepReads, A!SweepDeletes
  <2>7. CASE UNCHANGED A!vars
    BY <2>7 DEF A!vars
  <2> QED
    BY <2>1, <2>2, <2>3, <2>4, <2>5, <2>6, <2>7 DEF A!Next
<1> QED
  BY <1>1, <1>2, PTL DEF A!Spec

\* For any number of requests and sweeps: none loses its connections under way, and
\* a process that exits with 0 has answered all it took up.
THEOREM ShutdownIsClean == A!Spec => []CleanExit
<1>1. ProcessInv => CleanExit
  BY DEF ProcessInv
<1> QED
  BY <1>1, ProcessInductive, PTL
=============================================================================

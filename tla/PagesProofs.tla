----------------------------- MODULE PagesProofs -----------------------------
(***************************************************************************)
(* Theorems about the pages of the web client, for any number of runs,     *)
(* calls and tabs.  Each is about the specification of the page's module,  *)
(* of which MCPages has an instance.                                       *)
(***************************************************************************)
EXTENDS MCPages, TLAPS

-----------------------------------------------------------------------------
(* DevicePreview.                                                          *)

\* Only the latest run holds a stream, what streamRef names is what is on, and the
\* meter reads nothing else; a run that waits for its stream has none, one that
\* lists the devices still has it.
PreviewInv ==
    /\ run \in 0 .. MaxRuns
    /\ pc \in [D!Runs -> {"idle", "asking", "listing", "done"}]
    /\ stream \in {D!None, run}
    /\ live = {stream} \ {D!None}
    /\ meters \subseteq live
    /\ ~previewed => stream = D!None
    /\ previewed /\ run # D!None /\ pc[run] = "asking" => stream = D!None
    /\ previewed /\ run # D!None /\ pc[run] = "listing" => stream = run
    /\ previewed => run # D!None

LEMMA PreviewInductive == D!Spec => []PreviewInv
<1> USE ViewingAssumption DEF D!DevicePreviewAssumption, PreviewInv, D!Runs, D!None
<1>1. D!Init => PreviewInv
  BY DEF D!Init
<1>2. PreviewInv /\ [D!Next]_(D!vars) => PreviewInv'
  <2> SUFFICES ASSUME PreviewInv, [D!Next]_(D!vars) PROVE PreviewInv'
    OBVIOUS
  <2> USE DEF D!Cleanup, D!StopTracks, D!Start, D!Cancelled
  <2>1. CASE D!Mount
    BY <2>1 DEF D!Mount
  <2>2. CASE D!Unmount
    BY <2>2 DEF D!Unmount
  <2>3. CASE D!SelectDevice
    BY <2>3 DEF D!SelectDevice
  <2>4. CASE D!Retry
    BY <2>4 DEF D!Retry
  <2>5. ASSUME NEW r \in D!Runs, D!Granted(r) PROVE PreviewInv'
    BY <2>5 DEF D!Granted
  <2>6. ASSUME NEW r \in D!Runs, D!Listed(r) PROVE PreviewInv'
    <3>1. CASE D!Cancelled(r)
      <4>1. UNCHANGED <<previewed, run, stream, live, meters>> /\ pc' = [pc EXCEPT ![r] = "done"]
        BY <2>6, <3>1 DEF D!Listed
      <4> QED
        BY <4>1
    <3>2. CASE ~D!Cancelled(r)
      <4>1. meters' \subseteq meters \cup {run} /\ live = {run} \ {D!None}
        BY <2>6, <3>2 DEF D!Listed
      <4> QED
        BY <2>6, <3>2, <4>1 DEF D!Listed
    <3> QED
      BY <3>1, <3>2
  <2>7. ASSUME NEW r \in D!Runs, D!Refused(r) PROVE PreviewInv'
    BY <2>7 DEF D!Refused
  <2>8. CASE UNCHANGED D!vars
    BY <2>8 DEF D!vars
  <2> QED
    BY <2>1, <2>2, <2>3, <2>4, <2>5, <2>6, <2>7, <2>8 DEF D!Next
<1> QED
  BY <1>1, <1>2, PTL DEF D!Spec

\* Whatever order mountings, choices of a device and the browser's answers come in, only
\* the current run of the preview's effect holds a device, only while the preview is on
\* the screen, and the meter reads no stream that was stopped.
THEOREM PreviewReleases == D!Spec => []DevicesReleased
<1>1. PreviewInv => DevicesReleased
  BY DEF PreviewInv, DevicesReleased, D!DevicesReleased, D!NothingLeftOn, D!DevicesHandedOver,
         D!MeterHasStream, D!None
<1> QED
  BY <1>1, PreviewInductive, PTL

-----------------------------------------------------------------------------
(* WatchPage.                                                              *)

\* What follows the page's changes keeps the property: an instance goes with its
\* player, and a player starts without one.
LEMMA PlayerStaysOne ==
  ASSUME OnePlayer, W!PlayerFollows
  PROVE  OnePlayer'
<1>1. CASE W!Screen # "hls" /\ W!Screen' = "hls"
  BY <1>1 DEF OnePlayer, W!OnePlayer, W!PlayerFollows, W!hls
<1>2. CASE W!Screen = "hls" /\ W!Screen' # "hls"
  BY <1>2 DEF OnePlayer, W!OnePlayer, W!PlayerFollows
<1>3. CASE (W!Screen = "hls") <=> (W!Screen' = "hls")
  BY <1>3 DEF OnePlayer, W!OnePlayer, W!PlayerFollows, W!player, W!hls
<1> QED
  BY <1>1, <1>2, <1>3

\* A change of something else than the page and the instances keeps it too.
LEMMA ScreenStays ==
  ASSUME OnePlayer, UNCHANGED <<W!page, mount, alive>>
  PROVE  OnePlayer'
BY DEF OnePlayer, W!OnePlayer, W!Screen, W!page

\* However loads, entries and polls overlap, and while hls.js is being imported for a
\* player that may be gone: there is one instance of it at most, and none without a
\* player on the screen.
THEOREM PlayerIsOne == W!Spec => []OnePlayer
<1>1. W!Init => OnePlayer
  BY DEF W!Init, OnePlayer, W!OnePlayer
<1>2. OnePlayer /\ [W!Next]_(W!vars) => OnePlayer'
  <2> SUFFICES ASSUME OnePlayer, [W!Next]_(W!vars) PROVE OnePlayer'
    OBVIOUS
  <2>1. CASE W!Opens \/ W!Closes \/ W!EnterAnswered \/ W!TokenAnswered
    BY <2>1, PlayerStaysOne DEF W!Opens, W!Closes, W!EnterAnswered, W!TokenAnswered
  <2>2. ASSUME NEW l \in Loads, W!LoadAgain(l) \/ W!LoadAnswered(l) \/ W!LoadFails(l)
        PROVE  OnePlayer'
    BY <2>2, PlayerStaysOne DEF W!LoadAgain, W!LoadAnswered, W!LoadFails
  <2>3. CASE W!Enters \/ W!EnterServed \/ W!EnterFails
    BY <2>3, ScreenStays DEF W!Enters, W!EnterServed, W!EnterFails, W!player, W!hls
  <2>4. ASSUME NEW l \in Loads, W!LoadServed(l)
        PROVE  OnePlayer'
    BY <2>4, ScreenStays DEF W!LoadServed, W!player, W!hls
  <2>5. ASSUME NEW p \in Polls, W!Polled(p) \/ W!PollFails(p)
        PROVE  OnePlayer'
    BY <2>5, ScreenStays DEF W!Polled, W!PollAsked, W!PollServed, W!PollAnswered, W!PollFails, W!hls
  <2>6. ASSUME NEW m \in 1 .. MaxMounts, W!Imported(m)
        PROVE  OnePlayer'
    <3>1. UNCHANGED <<W!page, mount>> /\ W!Screen' = W!Screen
      BY <2>6 DEF W!Imported, W!player, W!page, W!Screen
    <3> QED
      BY <2>6, <3>1 DEF W!Imported, W!Cancelled, OnePlayer, W!OnePlayer
  <2>7. CASE W!EgressMoves \/ W!FallsBack \/ W!RoomEnds
    BY <2>7, ScreenStays DEF W!EgressMoves, W!FallsBack, W!RoomEnds, W!Moves, W!player, W!hls
  <2>8. CASE UNCHANGED W!vars
    BY <2>8, ScreenStays DEF W!vars, W!player, W!hls
  <2> QED
    BY <2>1, <2>2, <2>3, <2>4, <2>5, <2>6, <2>7, <2>8 DEF W!Next, W!Entry, W!Served
<1> QED
  BY <1>1, <1>2, PTL DEF W!Spec

-----------------------------------------------------------------------------
(* Dialogs.                                                                *)

\* The sheet's trap gives the focus back to the page, the dialog's to the sheet if
\* it was opened from there and the sheet is still open.
FocusInv ==
    /\ F!FocusReturns
    /\ before \in [{"sheet", "dialog"} -> F!Elements]
    /\ before["sheet"] = "page"
    /\ shown # Nobody => before["dialog"] \in (IF sheet THEN F!InSheet ELSE F!InSheet \cup {"page"})

LEMMA FocusInductive == F!Spec => []FocusInv
<1> USE DEF FocusInv, F!FocusReturns, F!InSheet, F!Elements, F!InDialog
<1>1. F!Init => FocusInv
  BY DEF F!Init
<1>2. FocusInv /\ [F!Next]_(F!vars) => FocusInv'
  <2> SUFFICES ASSUME FocusInv, [F!Next]_(F!vars) PROVE FocusInv'
    OBVIOUS
  <2> USE DEF F!Enter, F!Again, F!First, F!GiveBack, F!There
  <2>1. CASE F!OpenSheet
    BY <2>1 DEF F!OpenSheet
  <2>2. CASE F!CloseSheet
    BY <2>2 DEF F!CloseSheet
  <2>3. CASE F!PageRenders
    BY <2>3 DEF F!PageRenders
  <2>4. ASSUME NEW e \in F!Elements, F!MoveFocus(e) PROVE FocusInv'
    BY <2>4 DEF F!MoveFocus
  <2>5. ASSUME NEW a \in Asks, F!Ask(a) PROVE FocusInv'
    BY <2>5, HostingAssumption DEF F!Ask, F!DialogsAssumption
  <2>6. ASSUME NEW v \in {"yes", "no"}, F!Resolve(v) PROVE FocusInv'
    BY <2>6 DEF F!Resolve
  <2>7. CASE F!Toast \/ F!ToastExpires
    BY <2>7 DEF F!Toast, F!ToastExpires
  <2>8. CASE UNCHANGED F!vars
    BY <2>8 DEF F!vars
  <2> QED
    BY <2>1, <2>2, <2>3, <2>4, <2>5, <2>6, <2>7, <2>8 DEF F!Next
<1> QED
  BY <1>1, <1>2, PTL DEF F!Spec

\* Once no dialog is open the focus is in the sheet or back on the page, whatever was
\* rendered meanwhile, and in whichever order sheet and dialog were closed.
THEOREM FocusComesBack == F!Spec => []FocusReturns
<1>1. FocusInv => FocusReturns
  BY DEF FocusInv, FocusReturns
<1> QED
  BY <1>1, FocusInductive, PTL

-----------------------------------------------------------------------------
(* Sessions.                                                               *)

Creates(t) == tab[t].pc \in {"create", "created"}
Joined(t)  == tab[t].pc \in {"ask", "token", "in"}

\* As long as no two tabs create a session together: one that creates does so while
\* none is stored, and all that are past it use the one that is stored.
SessionInv ==
    /\ users \in Nat
    /\ tab \in [Tabs -> [pc : {"form", "create", "created", "ask", "token", "in"},
                         mine : Nat, new : Nat, asked : Nat, in : Nat]]
    /\ \A t \in Tabs : tab[t].pc = "created" => tab[t].new # B!None
    /\ ~overlapped =>
          /\ \A t, o \in Tabs : Creates(t) /\ Creates(o) => t = o
          /\ \A t \in Tabs :
                /\ Creates(t) => stored = B!None
                /\ Joined(t) => stored # B!None /\ tab[t].mine = stored
                /\ tab[t].pc \in {"token", "in"} => tab[t].asked = stored
                /\ tab[t].pc = "in" => tab[t].in = stored
    /\ stored \in Nat

LEMMA SessionInductive == B!Spec => []SessionInv
<1> USE DEF SessionInv, Creates, Joined, B!None, B!At, B!Idle
<1>1. B!Init => SessionInv
  BY DEF B!Init
<1>2. SessionInv /\ [B!Next]_(B!vars) => SessionInv'
  <2> SUFFICES ASSUME SessionInv, [B!Next]_(B!vars) PROVE SessionInv'
    OBVIOUS
  <2> USE DEF B!Fails, B!Lost
  <2>1. ASSUME NEW t \in Tabs, B!Enter(t) PROVE SessionInv'
    <3>1. CASE stored # B!None
      BY <2>1, <3>1 DEF B!Enter, B!Existing
    <3>2. CASE stored = B!None
      <4>1. tab' = [tab EXCEPT ![t].pc = "create"] /\ UNCHANGED <<users, stored>>
        BY <2>1, <3>2 DEF B!Enter, B!Existing
      <4>2. ~overlapped' => ~overlapped /\ \A o \in Tabs \ {t} : ~Creates(o)
        BY <2>1, <3>2 DEF B!Enter, B!Existing
      <4>3. ~overlapped' => \A o \in Tabs : ~Joined(o)
        BY <4>2, <3>2
      <4> QED
        BY <4>1, <4>2, <4>3, <3>2
    <3> QED
      BY <3>1, <3>2
  <2>2. ASSUME NEW t \in Tabs, B!Created(t) PROVE SessionInv'
    BY <2>2 DEF B!Created
  <2>3. ASSUME NEW t \in Tabs, B!Stored(t) PROVE SessionInv'
    BY <2>3 DEF B!Stored, B!SetSession
  <2>4. ASSUME NEW t \in Tabs, B!Ask(t) PROVE SessionInv'
    BY <2>4 DEF B!Ask, B!Verified
  <2>5. ASSUME NEW t \in Tabs, B!Token(t) PROVE SessionInv'
    BY <2>5 DEF B!Token, B!Verified
  <2>6. CASE B!NextMinute \/ \E u \in B!Users : B!Expires(u)
    BY <2>6 DEF B!NextMinute, B!Expires
  <2>7. CASE UNCHANGED B!vars
    BY <2>7 DEF B!vars
  <2> QED
    BY <2>1, <2>2, <2>3, <2>4, <2>5, <2>6, <2>7 DEF B!Next
<1> QED
  BY <1>1, <1>2, PTL DEF B!Spec

\* For any number of tabs, lost answers and expiries: a tab's token is for the user it
\* asked as and was given, unless two tabs were creating their session together.
THEOREM TabsComeInAsThemselves == B!Spec => []SameUser
<1>1. SessionInv => SameUser
  BY DEF SessionInv, SameUser, B!SameUser, B!At, Joined
<1> QED
  BY <1>1, SessionInductive, PTL
-----------------------------------------------------------------------------
(* The host's page.                                                        *)

HostTyped ==
    /\ rooms \in [P!Rooms -> {"none", "created", "ended"}]
    /\ stage \in {"setup", "prejoin", "live"}
    /\ roomId \in P!Rooms \cup {P!None} /\ hostConn \in P!Rooms \cup {P!None}
    /\ hostToken \in P!Rooms \cup {P!None}
    /\ setup \in [Setups -> [at : {"idle", "room", "token", "invite"}, demo : BOOLEAN,
                             room : P!Rooms \cup {P!None}]]
    /\ ending \in [at : {"idle", "confirm", "asked", "answered"}, room : P!Rooms \cup {P!None}]
    /\ reissue \in [at : {"idle", "timer", "answered"}, room : P!Rooms \cup {P!None}]
    /\ faults \in Nat

Gone(r) == r \in P!Rooms /\ rooms[r] = "ended"

\* One room is set up at a time, and only while none is shown.
OneSetup ==
    /\ \A j, k \in Setups : setup[j].at # "idle" /\ setup[k].at # "idle" => j = k
    /\ \A k \in Setups :
          /\ setup[k].at = "idle" => setup[k] = P!NoSetup
          /\ setup[k].at # "idle" => busy /\ stage = "setup"
          /\ setup[k].at \in {"token", "invite"} <=> setup[k].room \in P!Rooms
    /\ demoUrl => started

\* What the page asks for in a room is for that room, or for one that has ended.
OneRoom ==
    /\ stage = "setup" => hostConn = P!None /\ ending = P!Idle /\ (roomId = P!None \/ Gone(roomId))
    /\ stage # "setup" => roomId \in P!Rooms
    /\ hostConn \in {P!None, roomId} \/ Gone(hostConn)
    /\ hostToken \in {P!None, roomId} \/ Gone(hostToken)
    /\ reissue.at # "idle" =>
          reissue.room \in P!Rooms /\ (reissue.room = roomId \/ Gone(reissue.room))
    /\ ending.at # "idle" => ending.room = roomId
    /\ ending.at = "idle" => ending = P!Idle
    /\ ending.at = "answered" => Gone(roomId)

HostInv == HostTyped /\ (faults = 0 => OneSetup /\ OneRoom /\ P!NothingAbandoned)

LEMMA HostTypedInductive ==
  ASSUME HostTyped, [P!Next]_(P!vars)
  PROVE  HostTyped'
<1> USE HostingAssumption DEF P!HostPageAssumption, HostTyped, P!None, P!Rooms, P!Setup, P!NoSetup,
        P!Call, P!Idle, P!Fault, P!Goto, P!entry
<1>0. ASSUME NEW k \in Setups, NEW s \in [at : {"idle", "room", "token", "invite"}, demo : BOOLEAN,
                                          room : P!Rooms \cup {P!None}],
             setup' = [setup EXCEPT ![k] = s],
             UNCHANGED <<stage, roomId, hostToken, hostConn, ending, reissue, faults>>,
             rooms' \in [P!Rooms -> {"none", "created", "ended"}]
      PROVE  HostTyped'
  BY <1>0
<1>1. CASE P!SelectMode \/ P!Start
  <2>1. ASSUME NEW k \in Setups, NEW d \in BOOLEAN, P!Begin(k, d),
               UNCHANGED <<rooms, stage, roomId, hostToken, hostConn, ending, reissue, faults>>
        PROVE  HostTyped'
    BY <2>1, <1>0 DEF P!Begin
  <2>2. CASE UNCHANGED <<setup, rooms, stage, roomId, hostToken, hostConn, ending, reissue, faults>>
    BY <2>2
  <2> QED
    BY <1>1, <2>1, <2>2 DEF P!SelectMode, P!Effect, P!Start
<1>goes. ASSUME NEW k \in Setups, NEW s \in {"token", "invite"}, NEW r \in P!Rooms \cup {P!None},
             P!Goto(k, s, r), rooms' \in [P!Rooms -> {"none", "created", "ended"}],
             UNCHANGED <<stage, roomId, hostToken, hostConn, ending, reissue, faults>>
      PROVE  HostTyped'
  <2>1. setup[k] \in [at : {"idle", "room", "token", "invite"}, demo : BOOLEAN,
                      room : P!Rooms \cup {P!None}]
    BY DEF HostTyped
  <2>2. \E p \in [at : {"idle", "room", "token", "invite"}, demo : BOOLEAN,
                  room : P!Rooms \cup {P!None}] : setup' = [setup EXCEPT ![k] = p]
    <3> DEFINE p == [setup[k] EXCEPT !.at = s, !.room = r]
    <3>1. setup' = [setup EXCEPT ![k] = p]
      BY <1>goes
    <3> QED
      BY <2>1, <3>1
  <2> QED
    BY <1>0, <1>goes, <2>2
<1>2. ASSUME NEW k \in Setups, P!CreateRoom(k) PROVE HostTyped'
  <2> PICK r \in P!Rooms : rooms' = [rooms EXCEPT ![r] = "created"] /\ P!Goto(k, "token", r)
    BY <1>2 DEF P!CreateRoom
  <2>1. rooms' \in [P!Rooms -> {"none", "created", "ended"}]
    OBVIOUS
  <2>2. P!Goto(k, "token", r)
    OBVIOUS
  <2> QED
    BY <1>2, <1>goes, <2>1, <2>2 DEF P!CreateRoom
<1>3. ASSUME NEW k \in Setups, P!IssueToken(k) PROVE HostTyped'
  <2> DEFINE r == setup[k].room
  <2>1. r \in P!Rooms \cup {P!None}
    OBVIOUS
  <2>2. P!Goto(k, "invite", r) /\ rooms' = rooms
        /\ UNCHANGED <<stage, roomId, hostToken, hostConn, ending, reissue, faults>>
    BY <1>3 DEF P!IssueToken
  <2> HIDE DEF r
  <2> QED
    BY <1>goes, <2>1, <2>2
<1>4. ASSUME NEW k \in Setups, P!Enter(k) PROVE HostTyped'
  BY <1>4 DEF P!Enter
<1>5. ASSUME NEW k \in Setups, P!Fails(k) PROVE HostTyped'
  BY <1>5 DEF P!Fails
<1>6. CASE P!DismissGuide \/ P!SubmitDevices \/ P!Connect \/ P!Drop \/ P!TakeToken
  BY <1>6 DEF P!DismissGuide, P!SubmitDevices, P!Connect, P!Drop, P!TakeToken
<1>7. CASE P!Reissue
  BY <1>7 DEF P!Reissue
<1>8. ASSUME NEW r \in P!Rooms, P!RoomEnds(r) PROVE HostTyped'
  BY <1>8 DEF P!RoomEnds, P!Ended
<1>9. CASE P!AskEnd \/ P!Cancel \/ P!Confirm
  BY <1>9 DEF P!AskEnd, P!Cancel, P!Confirm
<1>10. CASE P!EndRoom
  <2>1. /\ {hostConn', hostToken'} \subseteq P!Rooms \cup {P!None}
        /\ rooms' \in [P!Rooms -> {"none", "created", "ended"}]
    BY <1>10 DEF P!EndRoom, P!Ended
  <2>2. ending' = [at |-> "answered", room |-> ending.room] /\ faults' \in Nat
        /\ UNCHANGED <<setup, stage, roomId, reissue>>
    BY <1>10 DEF P!EndRoom
  <2> QED
    BY <2>1, <2>2
<1>13. CASE P!LeaveRoom
  BY <1>13 DEF P!LeaveRoom, P!Awaited
<1>11. CASE P!Reload
  BY <1>11 DEF P!Reload
<1>12. CASE UNCHANGED P!vars
  BY <1>12 DEF P!vars
<1> QED
  BY <1>1, <1>2, <1>3, <1>4, <1>5, <1>6, <1>7, <1>8, <1>9, <1>10, <1>11, <1>12, <1>13 DEF P!Next

Tidy == OneSetup /\ OneRoom /\ P!NothingAbandoned

LEMMA TidyInductive ==
  ASSUME HostTyped, faults = 0, faults' = 0, Tidy, [P!Next]_(P!vars)
  PROVE  Tidy'
<1> USE HostingAssumption DEF P!HostPageAssumption, HostTyped, P!None, P!Rooms, P!Setup, P!NoSetup,
        P!Call, P!Idle, P!Fault, P!Goto, P!entry, Tidy
<1>a. ASSUME UNCHANGED <<setup, busy, demoUrl, started>>, stage' = "setup" <=> stage = "setup"
      PROVE  OneSetup'
  BY <1>a DEF OneSetup
<1>b. ASSUME UNCHANGED <<roomId, setup>>, stage' = "setup" <=> stage = "setup",
             \A r \in P!Rooms : rooms'[r] = "created" => rooms[r] = "created"
      PROVE  P!NothingAbandoned'
  BY <1>b DEF P!NothingAbandoned
<1>c. ASSUME UNCHANGED <<stage, rooms, roomId, hostToken, hostConn, ending, reissue>>
      PROVE  OneRoom'
  BY <1>c DEF OneRoom, Gone
<1>1. CASE P!SelectMode
  <2>1. ~P!Due
    BY DEF OneSetup, P!Due
  <2>2. UNCHANGED <<started, setup, busy>>
    BY <1>1, <2>1 DEF P!SelectMode, P!Effect
  <2>3. UNCHANGED <<rooms, demoUrl, stage, roomId, hostToken, hostConn, ending, reissue>>
    BY <1>1 DEF P!SelectMode
  <2> QED
    BY <2>2, <2>3, <1>a, <1>b, <1>c
<1>2. CASE P!Start
  <2> PICK k \in Setups : P!Begin(k, FALSE)
    BY <1>2 DEF P!Start
  <2>1. UNCHANGED <<rooms, demoUrl, started, stage, roomId, hostToken, ending, reissue, hostConn>>
        /\ busy' /\ ~busy /\ stage = "setup"
    BY <1>2 DEF P!Begin, P!Start
  <2>2. \A j \in Setups : setup[j] = P!NoSetup
    BY <2>1 DEF OneSetup
  <2>3. setup'[k] = P!Setup("room", FALSE, P!None) /\ \A j \in Setups \ {k} : setup'[j] = P!NoSetup
    BY <2>2 DEF P!Begin
  <2>4. OneSetup'
    BY <2>1, <2>3 DEF OneSetup
  <2>5. P!NothingAbandoned'
    BY <2>1, <2>2 DEF P!NothingAbandoned
  <2> QED
    BY <2>1, <2>4, <2>5, <1>c
<1>3. ASSUME NEW k \in Setups, P!CreateRoom(k) PROVE Tidy'
  BY <1>3 DEF P!CreateRoom, P!Fresh, OneSetup, OneRoom, Gone, P!NothingAbandoned
<1>4. ASSUME NEW k \in Setups, P!IssueToken(k) PROVE Tidy'
  <2>1. UNCHANGED <<rooms, demoUrl, started, busy, stage, roomId, hostToken, ending, reissue, hostConn>>
    BY <1>4 DEF P!IssueToken
  <2>2. /\ setup[k].at = "token" /\ setup'[k].at = "invite" /\ setup'[k].room = setup[k].room
        /\ \A j \in Setups \ {k} : setup'[j] = setup[j]
    BY <1>4 DEF P!IssueToken
  <2>3. OneSetup'
    <3>1. \A j \in Setups : /\ setup'[j].at = "idle" <=> setup[j].at = "idle"
                           /\ setup'[j].at \in {"token", "invite"} <=> setup[j].at \in {"token", "invite"}
                           /\ setup'[j].room = setup[j].room
                           /\ setup'[j].at = "idle" => setup'[j] = setup[j]
      BY <2>2
    <3>2. \A j, m \in Setups : setup'[j].at # "idle" /\ setup'[m].at # "idle" => j = m
      BY <3>1 DEF OneSetup
    <3>3. \A j \in Setups : setup'[j].at = "idle" => setup'[j] = P!NoSetup
      <4> TAKE j \in Setups
      <4>1. CASE j = k
        BY <2>2, <4>1
      <4>2. CASE j # k
        BY <2>2, <4>2 DEF OneSetup
      <4> QED
        BY <4>1, <4>2
    <3>4. \A j \in Setups : setup'[j].at \in {"token", "invite"} <=> setup'[j].room \in P!Rooms
      BY <2>2, <3>1 DEF OneSetup
    <3>5. \A j \in Setups : setup'[j].at # "idle" => busy' /\ stage' = "setup"
      BY <2>1, <3>1 DEF OneSetup
    <3>6. demoUrl' => started'
      BY <2>1 DEF OneSetup
    <3> QED
      BY <3>2, <3>3, <3>4, <3>5, <3>6 DEF OneSetup
  <2>4. P!NothingAbandoned'
    BY <2>1, <2>2 DEF P!NothingAbandoned
  <2> QED
    BY <2>1, <2>3, <2>4, <1>c
<1>5. ASSUME NEW k \in Setups, P!Enter(k) PROVE Tidy'
  <2> DEFINE r == setup[k].room
  <2>1. setup[k].at = "invite" /\ r \in P!Rooms /\ stage = "setup"
    BY <1>5 DEF P!Enter, OneSetup
  <2>2. hostConn = P!None /\ ending = P!Idle /\ (roomId = P!None \/ Gone(roomId))
    BY <2>1 DEF OneRoom
  <2>3. roomId' = r /\ hostToken' = r /\ stage' # "setup" /\ hostConn' = P!None
        /\ UNCHANGED <<rooms, started, ending, reissue>> /\ (demoUrl' => demoUrl)
    BY <1>5, <2>2 DEF P!Enter
  <2>4. \A j \in Setups : setup'[j] = P!NoSetup /\ (j # k => setup[j] = P!NoSetup)
    BY <1>5, <2>1 DEF P!Enter, OneSetup
  <2>5. OneSetup'
    BY <2>3, <2>4 DEF OneSetup
  <2>6. OneRoom'
    BY <2>1, <2>2, <2>3 DEF OneRoom, Gone
  <2>7. P!NothingAbandoned'
    BY <2>1, <2>2, <2>3, <2>4 DEF P!NothingAbandoned, Gone
  <2> QED
    BY <2>5, <2>6, <2>7
<1>6. CASE P!DismissGuide
  BY <1>6, <1>a, <1>b, <1>c DEF P!DismissGuide
<1>7. CASE P!SubmitDevices \/ P!Connect \/ P!AskEnd \/ P!Cancel \/ P!Confirm
  <2>1. UNCHANGED <<rooms, setup, busy, demoUrl, started, roomId, hostToken, reissue>>
        /\ (stage' = "setup" <=> stage = "setup")
    BY <1>7 DEF P!SubmitDevices, P!Connect, P!AskEnd, P!Cancel, P!Confirm
  <2>2. OneRoom'
    BY <1>7, <2>1 DEF P!SubmitDevices, P!Connect, P!AskEnd, P!Cancel, P!Confirm, OneRoom, Gone
  <2> QED
    BY <2>1, <2>2, <1>a, <1>b
<1>8. CASE P!Drop \/ P!Reissue \/ P!TakeToken
  <2>1. UNCHANGED <<rooms, setup, busy, demoUrl, started, stage, roomId, ending>>
    BY <1>8 DEF P!Drop, P!Reissue, P!TakeToken
  <2>2. OneRoom'
    BY <1>8, <2>1 DEF P!Drop, P!Reissue, P!TakeToken, OneRoom, Gone
  <2> QED
    BY <2>1, <2>2, <1>a, <1>b
<1>9. ASSUME NEW r \in P!Rooms, rooms' = [rooms EXCEPT ![r] = "ended"], hostConn' \in {hostConn, P!None}
      PROVE  /\ \A q \in P!Rooms : rooms'[q] = "created" => rooms[q] = "created"
             /\ \A q \in P!Rooms \cup {P!None} : Gone(q) => q \in P!Rooms /\ rooms'[q] = "ended"
  BY <1>9 DEF Gone
<1>10. ASSUME NEW r \in P!Rooms, P!RoomEnds(r) PROVE Tidy'
  <2>1. rooms' = [rooms EXCEPT ![r] = "ended"] /\ hostConn' \in {hostConn, P!None}
        /\ hostToken' \in {hostToken, P!None}
    BY <1>10 DEF P!RoomEnds, P!Ended
  <2>2. UNCHANGED <<setup, busy, demoUrl, started, stage, roomId, ending, reissue>>
    BY <1>10 DEF P!RoomEnds
  <2>3. OneRoom'
    BY <1>9, <2>1, <2>2 DEF OneRoom, Gone
  <2> QED
    BY <2>1, <2>2, <2>3, <1>9, <1>a, <1>b
<1>11. CASE P!EndRoom
  <2>1. /\ ending.at = "asked" /\ ending.room = roomId /\ stage # "setup" /\ roomId \in P!Rooms
    BY <1>11 DEF P!EndRoom, OneRoom
  <2>2. rooms' = [rooms EXCEPT ![roomId] = "ended"] /\ hostConn' \in {hostConn, P!None}
        /\ hostToken' \in {hostToken, P!None}
    BY <1>11, <2>1 DEF P!EndRoom, P!Ended
  <2>3. ending' = [at |-> "answered", room |-> roomId]
        /\ UNCHANGED <<setup, demoUrl, started, busy, stage, roomId, reissue>>
    BY <1>11, <2>1 DEF P!EndRoom
  <2>4. OneRoom'
    BY <1>9, <2>1, <2>2, <2>3 DEF OneRoom, Gone
  <2> QED
    BY <2>1, <2>2, <2>3, <2>4, <1>9, <1>a, <1>b
<1>12. CASE P!LeaveRoom
  <2>1. ending.at = "answered" /\ stage # "setup" /\ stage' = "setup" /\ hostToken' = P!None
        /\ hostConn' = P!None /\ ending' = P!Idle
        /\ UNCHANGED <<rooms, setup, demoUrl, started, busy, roomId, reissue>>
    BY <1>12 DEF P!LeaveRoom, P!Awaited
  <2>2. Gone(roomId) /\ \A k \in Setups : setup[k] = P!NoSetup
    BY <2>1 DEF OneRoom, OneSetup
  <2>3. OneSetup'
    BY <2>1, <2>2 DEF OneSetup
  <2>4. OneRoom'
    BY <2>1, <2>2 DEF OneRoom, Gone
  <2>5. P!NothingAbandoned'
    BY <2>1, <2>2 DEF P!NothingAbandoned, Gone
  <2> QED
    BY <2>3, <2>4, <2>5
<1>13. CASE P!Reload \/ \E k \in Setups : P!Fails(k)
  BY <1>13 DEF P!Reload, P!Fails
<1>14. CASE UNCHANGED P!vars
  BY <1>14, <1>a, <1>b, <1>c DEF P!vars
<1> QED
  BY <1>1, <1>2, <1>3, <1>4, <1>5, <1>6, <1>7, <1>8, <1>10, <1>11, <1>12, <1>13, <1>14 DEF P!Next

LEMMA HostInductive == P!Spec => []HostInv
<1>1. P!Init => HostInv
  <2> SUFFICES ASSUME P!Init PROVE HostInv
    OBVIOUS
  <2> USE HostingAssumption DEF P!Init, P!None, P!Rooms, P!Setup, P!NoSetup, P!Call, P!Idle
  <2>1. setup \in [Setups -> {P!NoSetup, P!Setup("room", TRUE, P!None)}]
    OBVIOUS
  <2>2. HostTyped
    <3>1. setup \in [Setups -> [at : {"idle", "room", "token", "invite"}, demo : BOOLEAN,
                               room : P!Rooms \cup {P!None}]]
      <4>1. P!NoSetup \in [at : {"idle", "room", "token", "invite"}, demo : BOOLEAN,
                           room : P!Rooms \cup {P!None}]
        OBVIOUS
      <4>2. P!Setup("room", TRUE, P!None) \in
              [at : {"idle", "room", "token", "invite"}, demo : BOOLEAN,
               room : P!Rooms \cup {P!None}]
        OBVIOUS
      <4> HIDE DEF P!NoSetup, P!Setup
      <4> QED
        BY <2>1, <4>1, <4>2
    <3> QED
      BY <3>1 DEF HostTyped
  <2>3. OneSetup
    <3>1. CASE demoUrl
      <4> PICK k \in Setups : setup = [j \in Setups |-> IF j = k THEN P!Setup("room", TRUE, P!None)
                                                     ELSE P!NoSetup]
        BY <3>1
      <4> QED
        BY <3>1 DEF OneSetup
    <3>2. CASE ~demoUrl
      BY <3>2 DEF OneSetup
    <3> QED
      BY <3>1, <3>2
  <2>4. OneRoom
    BY DEF OneRoom
  <2>5. P!NothingAbandoned
    BY DEF P!NothingAbandoned
  <2> QED
    BY <2>2, <2>3, <2>4, <2>5 DEF HostInv
<1>2. HostInv /\ [P!Next]_(P!vars) => HostInv'
  <2> SUFFICES ASSUME HostInv, [P!Next]_(P!vars) PROVE HostInv'
    OBVIOUS
  <2>1. HostTyped'
    BY HostTypedInductive DEF HostInv
  <2>2. faults' = 0 => faults = 0
    <3>1. UNCHANGED faults \/ faults' = faults + 1
      BY DEF P!vars, P!entry, P!Next, HostInv, HostTyped, P!Fault, P!SelectMode, P!Start, P!DismissGuide,
        P!SubmitDevices, P!CreateRoom, P!IssueToken, P!Enter, P!Fails, P!Connect, P!Drop, P!Reissue,
        P!TakeToken, P!RoomEnds, P!AskEnd, P!Cancel, P!Confirm, P!EndRoom, P!LeaveRoom, P!Reload
    <3> QED
      BY <3>1 DEF HostInv, HostTyped
  <2> QED
    BY <2>1, <2>2, TidyInductive DEF HostInv, Tidy
<1> QED
  BY <1>1, <1>2, PTL DEF P!Spec

\* For any number of rooms, runs of createAndEnter and broken connections: as long as
\* no call fails, the host is connected to the room its page shows or to one that has
\* ended and that LiveKit made again, and every room it made is the one shown, has
\* ended, or is being set up.
THEOREM RoomStaysInHand == P!Spec => []RoomInHand
<1>1. HostInv => RoomInHand
  BY DEF HostInv, OneRoom, Gone, RoomInHand, P!RoomInHand, P!ConnectedToShown, P!NothingAbandoned
<1> QED
  BY <1>1, HostInductive, PTL

-----------------------------------------------------------------------------
(* The guest's page.                                                       *)

Pages == [at : {"form", "room", "removed", "ended"},
          call : {"idle", "join", "timer", "ask", "sign", "answer", "connect"},
          token : PubRoles \cup {"viewer"}, attempts : Nat,
          manual : BOOLEAN, duplicate : BOOLEAN, ending : BOOLEAN, upgraded : BOOLEAN]

\* The page that is connected waits for nothing, and shows no button to press.
Settled(p) == p.at = "room" /\ p.call = "idle" /\ ~p.manual

GuestInv ==
    /\ page \in [Devices -> Pages]
    /\ conn = Nobody => acting = {}
    /\ conn # Nobody => conn \in Devices /\ Settled(page[conn])
    /\ \A d \in Devices : page[d].call = "connect" => page[d].at = "room"

\* A step that changes one page, which is not connected before or after it.
LEMMA OtherPageMoves ==
  ASSUME GuestInv, NEW d \in Devices, NEW p \in Pages, Set(d, p), conn # d,
         p.call = "connect" => p.at = "room", UNCHANGED <<conn, acting>>
  PROVE  GuestInv'
BY DEF GuestInv, Set, Settled

LEMMA ConnectedPageWaits ==
  ASSUME GuestInv, NEW d \in Devices, page[d].call # "idle" \/ page[d].at # "room"
  PROVE  conn # d
BY GuestPageAssumption DEF GuestPageAssumption, GuestInv, Settled, Pages

LEMMA DisconnectedTyped ==
  ASSUME NEW p \in Pages, NEW reason
  PROVE  /\ Disconnected(p, reason) \in Pages
         /\ p.call # "connect" => Disconnected(p, reason).call # "connect"
         /\ p.call = "idle" => Disconnected(p, reason).call \in {"idle", "timer"}
<1> DEFINE out == Disconnected(p, reason)
<1>1. \E q \in {[p EXCEPT !.duplicate = TRUE], [p EXCEPT !.at = "removed"], [p EXCEPT !.at = "ended"],
               p, [p EXCEPT !.attempts = p.attempts + 1, !.call = "timer"], [p EXCEPT !.manual = TRUE]} :
         out = q
  BY DEF Disconnected, OnDuplicate, Eligible
<1>2. \A q \in {[p EXCEPT !.duplicate = TRUE], [p EXCEPT !.at = "removed"], [p EXCEPT !.at = "ended"],
               p, [p EXCEPT !.attempts = p.attempts + 1, !.call = "timer"], [p EXCEPT !.manual = TRUE]} :
         q \in Pages /\ (q.call = p.call \/ q.call = "timer")
  <2>1. LET q == [p EXCEPT !.attempts = p.attempts + 1, !.call = "timer"]
        IN  q \in Pages /\ q.call = "timer"
    <3>1. p.attempts + 1 \in Nat
      BY DEF Pages
    <3> QED
      BY <3>1 DEF Pages
  <2>2. LET q == [p EXCEPT !.duplicate = TRUE] IN q \in Pages /\ q.call = p.call
    BY DEF Pages
  <2>3. LET q == [p EXCEPT !.manual = TRUE] IN q \in Pages /\ q.call = p.call
    BY DEF Pages
  <2>4. \A place \in {"removed", "ended"} :
           LET q == [p EXCEPT !.at = place] IN q \in Pages /\ q.call = p.call
    BY DEF Pages
  <2> QED
    BY <2>1, <2>2, <2>3, <2>4
<1> HIDE DEF out
<1>3. out \in Pages /\ (out.call = p.call \/ out.call = "timer")
  BY <1>1, <1>2
<1> QED
  BY <1>3 DEF out

LEMMA NothingShown ==
  ASSUME GuestInv, UNCHANGED <<page, conn>>, acting' = acting \/ conn # Nobody
  PROVE  GuestInv'
BY DEF GuestInv

LEMMA PageBreaks ==
  ASSUME GuestInv, NEW d \in Devices, NEW reason, Break(d, reason)
  PROVE  GuestInv'
<1>1. page[d] \in Pages /\ Settled(page[d])
  BY GuestPageAssumption DEF GuestPageAssumption, Break, GuestInv
<1>2. Disconnected(page[d], reason) \in Pages /\ Disconnected(page[d], reason).call # "connect"
  BY <1>1, DisconnectedTyped DEF Settled
<1> QED
  BY <1>1, <1>2 DEF GuestInv, Break, Silence, Set

LEMMA GuestInductive == Spec => []GuestInv
<1> USE GuestPageAssumption DEF GuestPageAssumption, PubRoles, server, media, bounds
<1>1. Init => GuestInv
  BY DEF Init, GuestInv, Row, NewPage, Pages
<1>2. GuestInv /\ [Next]_vars => GuestInv'
  <2> SUFFICES ASSUME GuestInv, [Next]_vars PROVE GuestInv'
    OBVIOUS
  <2>0. \A d \in Devices : page[d] \in Pages
    BY DEF GuestInv
  <2>1. ASSUME NEW d \in Devices, Open(d) PROVE GuestInv'
    <3>1. [page[d] EXCEPT !.call = "join"] \in Pages
      BY <2>0 DEF Pages
    <3> QED
      BY <2>1, <3>1, <2>0, OtherPageMoves, ConnectedPageWaits DEF Open, Pages, GuestInv
  <2>2. ASSUME NEW d \in Devices, BackToForm(d) PROVE GuestInv'
    <3>1. NewPage \in Pages
      BY DEF Pages, NewPage
    <3> QED
      BY <2>2, <3>1, OtherPageMoves DEF BackToForm, NewPage, GuestInv
  <2>3. ASSUME NEW d \in Devices, PressButton(d) PROVE GuestInv'
    <3>1. conn # d
      BY <2>3, <2>0 DEF PressButton, GuestInv, Settled
    <3>2. \A t \in {"guest", "viewer"} :
             [page[d] EXCEPT !.call = "ask", !.attempts = 0, !.token = t] \in Pages
      BY <2>0 DEF Pages
    <3>3. \E p \in Pages : Set(d, p) /\ p.call # "connect"
      BY <2>3, <3>2, <2>0 DEF PressButton, Pages
    <3> QED
      BY <2>3, <3>1, <3>3, OtherPageMoves DEF PressButton
  <2>4. ASSUME NEW d \in Devices, RequestJoin(d) PROVE GuestInv'
    <3>1. conn # d
      BY <2>4, ConnectedPageWaits DEF RequestJoin
    <3>2. \A t \in {"guest", "viewer"} : [page[d] EXCEPT !.call = "ask", !.token = t] \in Pages
      BY <2>0 DEF Pages
    <3>3. NewPage \in Pages /\ NewPage.call = "idle"
      BY DEF Pages, NewPage
    <3>4. \E p \in Pages : Set(d, p) /\ p.call # "connect"
      BY <2>4, <3>2, <3>3, <2>0 DEF RequestJoin, Pages
    <3> QED
      BY <2>4, <3>1, <3>4, OtherPageMoves DEF RequestJoin
  <2>5. ASSUME NEW d \in Devices, CheckToken(d) PROVE GuestInv'
    <3> DEFINE t == TokenFor(page[d].token)
    <3>1. t # "refused" => t \in PubRoles \cup {"viewer"}
      BY DEF TokenFor, Publisher
    <3> HIDE DEF t
    <3>2. t # "refused" => [page[d] EXCEPT !.call = "sign", !.token = t] \in Pages
      BY <2>0, <3>1 DEF Pages
    <3>3. Refused(page[d]) \in Pages /\ Refused(page[d]).call = "idle"
      BY <2>0 DEF Pages, Refused
    <3>4. Set(d, IF t = "refused" THEN Refused(page[d])
                 ELSE [page[d] EXCEPT !.call = "sign", !.token = t])
      BY <2>5 DEF CheckToken, t
    <3>5. \E p \in Pages : Set(d, p) /\ p.call # "connect"
      BY <3>2, <3>3, <3>4, <2>0 DEF Pages
    <3>6. conn # d
      BY <2>5, ConnectedPageWaits DEF CheckToken
    <3> QED
      BY <2>5, <3>5, <3>6, OtherPageMoves DEF CheckToken
  <2>17. ASSUME NEW d \in Devices, IssueToken(d) PROVE GuestInv'
    <3>1. [page[d] EXCEPT !.call = "answer"] \in Pages
      BY <2>0 DEF Pages
    <3> QED
      BY <2>17, <3>1, <2>0, OtherPageMoves, ConnectedPageWaits DEF IssueToken, Pages
  <2>6. ASSUME NEW d \in Devices, TakeAnswer(d) PROVE GuestInv'
    <3>1. LET q == [page[d] EXCEPT !.at = "room", !.call = "connect", !.manual = FALSE]
          IN  q \in Pages /\ q.at = "room"
      BY <2>0 DEF Pages
    <3> QED
      BY <2>6, <3>1, OtherPageMoves, ConnectedPageWaits DEF TakeAnswer
  <2>7. ASSUME NEW d \in Devices, CallFails(d) PROVE GuestInv'
    <3>1. Refused(page[d]) \in Pages /\ Refused(page[d]).call = "idle"
      BY <2>0 DEF Pages, Refused
    <3> QED
      BY <2>7, <3>1, <2>0, OtherPageMoves, ConnectedPageWaits DEF CallFails, GuestInv
  <2>8. ASSUME NEW d \in Devices, Connect(d) PROVE GuestInv'
    <3> DEFINE in  == [page[d] EXCEPT !.call = "idle", !.token = "viewer", !.attempts = 0,
                                      !.manual = FALSE]
               out == Disconnected(page[conn], "duplicate")
    <3>1. in \in Pages /\ Settled(in)
      <4>1. page[d] \in Pages /\ page[d].at = "room"
        BY <2>8, <2>0 DEF Connect, GuestInv
      <4>2. in \in Pages /\ in.at = page[d].at /\ in.call = "idle" /\ in.manual = FALSE
        BY <4>1 DEF Pages
      <4> QED
        BY <4>1, <4>2 DEF Settled
    <3>2. conn # Nobody => conn \in Devices /\ out \in Pages /\ out.call # "connect"
      BY <2>0, DisconnectedTyped DEF GuestInv, Settled
    <3> HIDE DEF in, out
    <3>3. conn' = d /\ acting' = {}
          /\ page' = [e \in Devices |-> IF e = d THEN in ELSE IF e = conn THEN out ELSE page[e]]
      BY <2>8 DEF Connect, Silence, in, out
    <3>4. page' \in [Devices -> Pages]
      BY <3>1, <3>2, <3>3, <2>0
    <3>5. page'[d] = in
      BY <3>3
    <3>6. \A e \in Devices : page'[e].call = "connect" => page'[e].at = "room"
      BY <3>1, <3>2, <3>3 DEF GuestInv, Settled
    <3> QED
      BY <3>1, <3>3, <3>4, <3>5, <3>6 DEF GuestInv
  <2>9. ASSUME NEW d \in Devices, ConnectFails(d) PROVE GuestInv'
    <3>1. [page[d] EXCEPT !.call = "idle"] \in Pages /\ [page[d] EXCEPT !.call = "idle"].call = "idle"
      BY <2>0 DEF Pages
    <3>2. /\ Disconnected([page[d] EXCEPT !.call = "idle"], "signal close") \in Pages
          /\ Disconnected([page[d] EXCEPT !.call = "idle"], "signal close").call # "connect"
      BY <3>1, DisconnectedTyped
    <3> QED
      BY <2>9, <3>2, OtherPageMoves, ConnectedPageWaits DEF ConnectFails, GuestInv
  <2>10. ASSUME NEW d \in Devices, Reissue(d) PROVE GuestInv'
    <3>1. \A t \in {"guest", "viewer"} : [page[d] EXCEPT !.call = "ask", !.token = t] \in Pages
      BY <2>0 DEF Pages
    <3>2. \E p \in Pages : Set(d, p) /\ p.call # "connect"
      BY <2>10, <3>1, <2>0 DEF Reissue, Pages
    <3>3. conn # d
      BY <2>10, ConnectedPageWaits DEF Reissue
    <3> QED
      BY <2>10, <3>2, <3>3, OtherPageMoves DEF Reissue
  <2>11. ASSUME NEW d \in Devices, Drop(d) PROVE GuestInv'
    BY <2>11, PageBreaks DEF Drop
  <2>12. CASE Sync \/ RetryGrants \/ RetryGivesUp \/ ParticipantLeft \/ Reject \/ Mute
    BY <2>12, NothingShown DEF Sync, CanPublish, RetryGrants, RetryGivesUp, ParticipantLeft, Reject, Mute
  <2>13. ASSUME NEW r \in PubRoles, Approve(r) \/ ChangeRole(r) PROVE GuestInv'
    BY <2>13, NothingShown DEF Approve, ChangeRole
  <2>14. CASE SignalEnd \/ \E r \in PubRoles : SetCamera(r)
    <3> DEFINE p == page[conn]
    <3>1. conn \in Devices /\ p \in Pages /\ Settled(p)
      BY <2>14, <2>0 DEF SignalEnd, SetCamera, GuestInv
    <3>2. \E q \in Pages : Set(conn, q) /\ Settled(q)
      <4>1. LET q == [p EXCEPT !.ending = TRUE] IN q \in Pages /\ Settled(q)
        BY <3>1 DEF Pages, Settled
      <4>2. LET q == [p EXCEPT !.upgraded = TRUE] IN q \in Pages /\ Settled(q)
        BY <3>1 DEF Pages, Settled
      <4> QED
        BY <2>14, <4>1, <4>2 DEF SignalEnd, SetCamera
    <3>3. UNCHANGED conn
      BY <2>14 DEF SignalEnd, SetCamera
    <3> QED
      BY <3>1, <3>2, <3>3 DEF GuestInv, Set, Settled
  <2>15. CASE Kick \/ End
    <3>1. CASE conn = Nobody
      BY <2>15, <3>1, NothingShown DEF Kick, End
    <3>2. CASE conn # Nobody
      BY <2>15, <3>2, PageBreaks DEF Kick, End, GuestInv
    <3> QED
      BY <3>1, <3>2
  <2>16. CASE UNCHANGED vars
    BY <2>16, NothingShown DEF vars
  <2> QED
    BY <2>1, <2>2, <2>3, <2>4, <2>5, <2>6, <2>7, <2>8, <2>9, <2>10, <2>11, <2>12, <2>13, <2>14,
       <2>15, <2>16, <2>17 DEF Next, Page
<1> QED
  BY <1>1, <1>2, PTL DEF Spec

\* All tokens that a kicked user's pages still have were checked before the kick.
KickInv == row.state = "kicked" => Pending \subseteq late

Holds(p) == p.call \in {"sign", "answer", "connect"}

LEMMA BreakTakesToken ==
  ASSUME GuestInv, NEW reason, conn # Nobody, Break(conn, reason)
  PROVE  \A d \in Devices : Holds(page'[d]) => Holds(page[d])
<1>1. conn \in Devices /\ page[conn] \in Pages /\ page[conn].call = "idle"
  BY DEF GuestInv, Settled
<1>2. ~Holds(Disconnected(page[conn], reason))
  BY <1>1, DisconnectedTyped DEF Holds
<1>3. \A d \in Devices : d # conn => page'[d] = page[d]
  BY DEF Break, Set, GuestInv
<1>4. page'[conn] = Disconnected(page[conn], reason)
  BY <1>1 DEF Break, Set, GuestInv
<1> QED
  BY <1>2, <1>3, <1>4

\* While a user is kicked no page comes to hold a token, and Connect uses one up.
LEMMA NoTokenComes ==
  ASSUME GuestInv, [Next]_vars, row.state = "kicked", row'.state = "kicked"
  PROVE  /\ \A d \in Devices : Holds(page'[d]) => Holds(page[d])
         /\ \/ late' \in {late, Pending}
            \/ \E d \in Devices : late' = late \ {d} /\ ~Holds(page'[d])
<1> USE GuestPageAssumption DEF GuestPageAssumption, Holds, bounds
<1>0. page \in [Devices -> Pages] /\ \A e \in Devices : page[e] \in Pages
  BY DEF GuestInv
<1>1. ASSUME NEW e \in Devices, NEW p, Holds(p) => Holds(page[e]), Set(e, p)
      PROVE  \A d \in Devices : Holds(page'[d]) => Holds(page[d])
  BY <1>0, <1>1 DEF Set
<1>2. conn # Nobody => conn \in Devices /\ page[conn] \in Pages /\ page[conn].call = "idle"
  BY <1>0 DEF GuestInv, Settled
<1>3. ASSUME NEW reason, NEW p \in Pages, p.call = "idle"
      PROVE  ~Holds(Disconnected(p, reason))
  BY <1>3, DisconnectedTyped
<1>4. ASSUME NEW e \in Devices,
             \/ Open(e) \/ BackToForm(e) \/ PressButton(e) \/ Reissue(e) \/ RequestJoin(e)
             \/ CheckToken(e) \/ IssueToken(e) \/ TakeAnswer(e) \/ CallFails(e)
      PROVE  (\A d \in Devices : Holds(page'[d]) => Holds(page[d])) /\ late' = late
  <2>1. CASE Open(e) \/ BackToForm(e) \/ PressButton(e) \/ Reissue(e) \/ CallFails(e)
    <3>1. \E p : ~Holds(p) /\ Set(e, p)
      BY <2>1, <1>0 DEF Open, BackToForm, PressButton, Reissue, CallFails, Refused, NewPage, Pages
    <3> QED
      BY <2>1, <3>1, <1>1 DEF Open, BackToForm, PressButton, Reissue, CallFails
  <2>2. CASE RequestJoin(e)
    <3>1. \E p : ~Holds(p) /\ Set(e, p)
      BY <2>2, <1>0 DEF RequestJoin, NewPage, Pages
    <3> QED
      BY <2>2, <3>1, <1>1 DEF RequestJoin
  <2>3. CASE CheckToken(e)
    <3>1. Set(e, Refused(page[e]))
      BY <2>3 DEF CheckToken, TokenFor, NotKicked
    <3>2. ~Holds(Refused(page[e]))
      BY <1>0 DEF Refused, Pages
    <3> QED
      BY <2>3, <3>1, <3>2, <1>1 DEF CheckToken
  <2>4. CASE IssueToken(e) \/ TakeAnswer(e)
    <3>1. Holds(page[e]) /\ \E p : Set(e, p)
      BY <2>4 DEF IssueToken, TakeAnswer
    <3> QED
      BY <2>4, <3>1, <1>1 DEF IssueToken, TakeAnswer
  <2> QED
    BY <1>4, <2>1, <2>2, <2>3, <2>4
<1>5. ASSUME NEW e \in Devices, ConnectFails(e)
      PROVE  (\A d \in Devices : Holds(page'[d]) => Holds(page[d])) /\ late' = late
  <2>1. [page[e] EXCEPT !.call = "idle"] \in Pages /\ [page[e] EXCEPT !.call = "idle"].call = "idle"
    BY <1>0 DEF Pages
  <2> QED
    BY <1>5, <2>1, <1>3, <1>1 DEF ConnectFails
<1>7. CASE Kick \/ End \/ \E e \in Devices : Drop(e)
  <2>1. page' = page \/ \E reason : conn # Nobody /\ Break(conn, reason)
    BY <1>7 DEF Kick, End, Drop, Break
  <2> QED
    BY <1>7, <2>1, BreakTakesToken DEF Kick, End, Drop
<1>8. CASE SignalEnd \/ \E r \in PubRoles : SetCamera(r)
  <2>1. conn # Nobody
    BY <1>8 DEF SignalEnd, SetCamera, GuestInv
  <2>2. \E p : p.call = "idle" /\ Set(conn, p)
    BY <1>8, <2>1, <1>2 DEF SignalEnd, SetCamera, Pages
  <2> QED
    BY <1>8, <2>1, <2>2, <1>1, <1>2 DEF SignalEnd, SetCamera
<1>9. ASSUME NEW e \in Devices, Connect(e)
      PROVE  /\ \A d \in Devices : Holds(page'[d]) => Holds(page[d])
             /\ late' = late \ {e} /\ ~Holds(page'[e])
  <2> DEFINE in == [page[e] EXCEPT !.call = "idle", !.token = "viewer", !.attempts = 0,
                                   !.manual = FALSE]
  <2>1. ~Holds(in)
    BY <1>0 DEF Pages
  <2>2. conn # Nobody => ~Holds(Disconnected(page[conn], "duplicate"))
    BY <1>2, <1>3
  <2>3. \A d \in Devices : page'[d] = IF d = e THEN in
                                     ELSE IF d = conn THEN Disconnected(page[d], "duplicate")
                                     ELSE page[d]
    BY <1>9 DEF Connect
  <2>4. late' = late \ {e}
    BY <1>9 DEF Connect
  <2> HIDE DEF in, Holds
  <2> QED
    BY <2>1, <2>2, <2>3, <2>4
<1>10. CASE UNCHANGED page /\ late' \in {late, Pending}
  BY <1>10
<1>11. \/ \E e \in Devices : \/ Open(e) \/ BackToForm(e) \/ PressButton(e) \/ Reissue(e)
                              \/ RequestJoin(e) \/ CheckToken(e) \/ IssueToken(e) \/ TakeAnswer(e)
                              \/ CallFails(e) \/ ConnectFails(e) \/ Drop(e) \/ Connect(e)
       \/ Kick \/ End \/ SignalEnd \/ \E r \in PubRoles : SetCamera(r)
       \/ UNCHANGED page /\ late' \in {late, Pending}
  BY DEF Next, Page, vars, Sync, RetryGrants, RetryGivesUp, ParticipantLeft, Reject, Mute,
     Approve, ChangeRole
<1> QED
  BY <1>4, <1>5, <1>7, <1>8, <1>9, <1>10, <1>11

LEMMA KickInductive == Spec => []KickInv
<1>1. Init => KickInv
  BY DEF Init, KickInv, Row
<1>2. GuestInv /\ KickInv /\ [Next]_vars => KickInv'
  <2> SUFFICES ASSUME GuestInv, KickInv, [Next]_vars, row'.state = "kicked"
               PROVE  Pending' \subseteq late'
    BY DEF KickInv
  <2>1. CASE row.state = "kicked"
    <3>1. \A d \in Devices : Holds(page'[d]) => Holds(page[d])
      BY <2>1, NoTokenComes
    <3>2. Pending' \subseteq Pending /\ Pending \subseteq late
      BY <2>1, <3>1 DEF Pending, Holds, KickInv
    <3>3. \A d \in Devices : ~Holds(page'[d]) => d \notin Pending'
      BY DEF Pending, Holds
    <3> QED
      BY <2>1, <3>2, <3>3, NoTokenComes
  <2>2. CASE row.state # "kicked"
    <3>1. CASE \E d \in Devices : RequestJoin(d)
      <4>1. row' = row \/ row'.state \in {"approved", "requested"}
        BY <3>1 DEF RequestJoin, Row
      <4> QED
        BY <4>1, <2>2
    <3>2. CASE ParticipantLeft \/ \E r \in PubRoles : Approve(r) \/ ChangeRole(r)
      <4>1. row' = row \/ row'.state \in {"approved", "left"}
        BY <3>2 DEF ParticipantLeft, Approve, ChangeRole, Row
      <4> QED
        BY <4>1, <2>2
    <3>3. CASE row' = row
      BY <3>3, <2>2
    <3>4. CASE Kick \/ Reject
      <4>1. late' = Pending
        BY <3>4 DEF Kick, Reject
      <4>2. page' = page \/ \E reason : conn # Nobody /\ Break(conn, reason)
        BY <3>4 DEF Kick, Reject
      <4>3. \A d \in Devices : Holds(page'[d]) => Holds(page[d])
        BY <4>2, BreakTakesToken
      <4> QED
        BY <4>1, <4>3 DEF Pending, Holds
    <3> QED
      BY <3>1, <3>2, <3>3, <3>4 DEF Next, Page, vars, server, Open, BackToForm, PressButton, CheckToken,
         IssueToken, TakeAnswer, CallFails, ConnectFails, Drop, Connect, Reissue, Sync, SetCamera,
         RetryGrants, RetryGivesUp, Mute, SignalEnd, End
  <2> QED
    BY <2>1, <2>2
<1> QED
  BY <1>1, <1>2, GuestInductive, PTL DEF Spec

\* However many devices, timers, buttons and breaks there are: while a user is kicked
\* or rejected and has not asked anew, a page comes in only with a token that was
\* checked before the kick and not used since.
THEOREM KickedAreRefused == Spec => KickedStaysOut
<1>1. KickInv /\ [Next]_vars =>
        (row.state = "kicked" /\ row'.state = "kicked" /\ conn' \notin {conn, Nobody}
         => conn' \in late)
  <2> SUFFICES ASSUME KickInv, [Next]_vars, row.state = "kicked", conn' \notin {conn, Nobody}
               PROVE  conn' \in late
    OBVIOUS
  <2>1. PICK d \in Devices : Connect(d)
    BY DEF Next, Page, vars, server, Open, BackToForm, PressButton, RequestJoin, CheckToken, IssueToken,
       TakeAnswer, CallFails, ConnectFails, Drop, Break, Reissue, Sync, SetCamera, RetryGrants,
       RetryGivesUp, ParticipantLeft, Approve, ChangeRole, Reject, Mute, Kick, SignalEnd, End
  <2> QED
    BY <2>1 DEF Connect, KickInv, Pending
<1> QED
  BY <1>1, KickInductive, PTL DEF Spec, KickedStaysOut
=============================================================================

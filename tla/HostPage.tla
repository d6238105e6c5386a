------------------------------ MODULE HostPage ------------------------------
(***************************************************************************)
(* The broadcast page of one host: it sets a room up by hand or, with      *)
(* ?demo=1 in its URL, by itself; it goes live, reconnects, and ends the   *)
(* room.  The calls it awaits are answered later, and nothing is cancelled *)
(* when the page moves on.  Who may end a room otherwise is the subject of *)
(* RoomLifecycle, and which disconnections lead to a new token of          *)
(* GuestPage.                                                              *)
(***************************************************************************)
EXTENDS Naturals, FiniteSets

CONSTANTS
    Setups,   \* runs of createAndEnter that can be under way together
    MaxRooms, \* bound: rooms that can be created, in this order
    MaxDrops, \* bound: connections that break
    MaxFaults \* bound: calls that fail, and reloads of the page

HostPageAssumption ==
    /\ IsFiniteSet(Setups) /\ Setups # {}
    /\ MaxRooms \in Nat \ {0} /\ {MaxDrops, MaxFaults} \subseteq Nat

None  == 0 \* no room
Rooms == 1 .. MaxRooms

VARIABLES
    status,  \* rooms.status, live being like created here
    demoUrl, \* is ?demo=1 in the URL
    started, \* demoStarted
    stage, busy, error,
    shown,   \* roomId
    token,   \* the room of the token LiveKitRoom has yet to connect with
    guide, seen, \* showGuide, and sessionStorage's record of it
    setup,   \* createAndEnter
    ending,  \* end
    reissue, \* a timer of ReconnectGuard, or its call of issueToken
    conn,    \* the room the page's LiveKitRoom is connected to
    drops, faults

entry == <<demoUrl, started, busy, error, guide, seen, setup>>
vars  == <<status, entry, stage, shown, token, ending, reissue, conn, drops, faults>>

Call(p, r) == [at |-> p, room |-> r]
Idle       == Call("idle", None)
Setup(p, d, r) == [at |-> p, demo |-> d, room |-> r]
NoSetup        == Setup("idle", FALSE, None)

TypeOK ==
    /\ status \in [Rooms -> {"none", "created", "ended"}]
    /\ {demoUrl, started, busy, error, guide, seen} \subseteq BOOLEAN
    /\ stage \in {"setup", "prejoin", "live"}
    /\ {shown, token, conn} \subseteq Rooms \cup {None}
    /\ setup \in [Setups -> [at : {"idle", "room", "token", "invite"}, demo : BOOLEAN,
                             room : Rooms \cup {None}]]
    /\ ending \in [at : {"idle", "confirm", "asked", "answered"}, room : Rooms \cup {None}]
    /\ reissue \in [at : {"idle", "timer", "answered"}, room : Rooms \cup {None}]
    /\ drops \in 0 .. MaxDrops /\ faults \in 0 .. MaxFaults

Fault == faults < MaxFaults /\ faults' = faults + 1

-----------------------------------------------------------------------------
(* createAndEnter, by the button or by the effect.                         *)

Begin(k, demo) ==
    /\ setup[k] = NoSetup
    /\ setup' = [setup EXCEPT ![k] = Setup("room", demo, None)]
    /\ busy' = TRUE /\ error' = FALSE

\* The effect of the demo entry: at the first rendering, and whenever createAndEnter
\* is a new function, that is, when another mode is selected.
Due       == demoUrl /\ ~started
Effect ==
    \/ Due /\ started' = TRUE /\ \E k \in Setups : Begin(k, TRUE)
    \/ ~Due /\ UNCHANGED <<started, setup, busy, error>>

Init ==
    /\ status = [r \in Rooms |-> "none"]
    /\ demoUrl \in BOOLEAN /\ started = demoUrl
    /\ stage = "setup" /\ busy = demoUrl /\ error = FALSE
    /\ shown = None /\ token = None /\ guide = FALSE /\ seen = FALSE
    /\ IF demoUrl
       THEN \E k \in Setups : setup = [j \in Setups |->
                                        IF j = k THEN Setup("room", TRUE, None) ELSE NoSetup]
       ELSE setup = [k \in Setups |-> NoSetup]
    /\ ending = Idle /\ reissue = Idle /\ conn = None
    /\ drops = 0 /\ faults = 0

\* The select is not disabled while a room is being made; the button is.
SelectMode ==
    /\ stage = "setup" /\ Effect
    /\ UNCHANGED <<status, demoUrl, guide, seen, stage, shown, token, ending, reissue, conn,
                   drops, faults>>

Start ==
    /\ stage = "setup" /\ ~busy
    /\ \E k \in Setups : Begin(k, FALSE)
    /\ UNCHANGED <<status, demoUrl, started, guide, seen, stage, shown, token, ending, reissue,
                   conn, drops, faults>>

Goto(k, p, r) == setup' = [setup EXCEPT ![k].at = p, ![k].room = r]

\* POST /rooms.
Fresh(r) == status[r] = "none" /\ \A q \in 1 .. r - 1 : status[q] # "none"
CreateRoom(k) ==
    /\ setup[k].at = "room"
    /\ \E r \in Rooms :
          Fresh(r) /\ status' = [status EXCEPT ![r] = "created"] /\ Goto(k, "token", r)
    /\ UNCHANGED <<demoUrl, started, busy, error, guide, seen, stage, shown, token, ending,
                   reissue, conn, drops, faults>>

\* POST /token.
IssueToken(k) ==
    /\ setup[k].at = "token" /\ status[setup[k].room] # "ended"
    /\ Goto(k, "invite", setup[k].room)
    /\ UNCHANGED <<status, demoUrl, started, busy, error, guide, seen, stage, shown, token,
                   ending, reissue, conn, drops, faults>>

\* POST /invite, and on into the room.  The page leaves LiveKit's room when it goes
\* back to prejoin.
Enter(k) ==
    LET s == setup[k] IN
    /\ s.at = "invite"
    /\ shown' = s.room /\ token' = s.room
    /\ stage' = IF s.demo THEN "live" ELSE "prejoin"
    /\ conn' = IF s.demo THEN conn ELSE None
    /\ demoUrl' = (demoUrl /\ ~s.demo)
    /\ guide' = (guide \/ (s.demo /\ ~seen))
    /\ setup' = [setup EXCEPT ![k] = NoSetup] /\ busy' = FALSE
    /\ UNCHANGED <<status, started, error, seen, ending, reissue, drops, faults>>

\* One of the calls fails, or is refused, like the token for a room that has ended
\* meanwhile; a room that was created stays.
Fails(k) ==
    /\ setup[k].at # "idle" /\ Fault
    /\ \/ UNCHANGED status
       \/ /\ setup[k].at = "room"
          /\ \E r \in Rooms : Fresh(r) /\ status' = [status EXCEPT ![r] = "created"]
    /\ setup' = [setup EXCEPT ![k] = NoSetup]
    /\ busy' = FALSE /\ error' = TRUE /\ started' = FALSE
    /\ UNCHANGED <<demoUrl, guide, seen, stage, shown, token, ending, reissue, conn, drops>>

DismissGuide ==
    /\ stage = "live" /\ guide
    /\ guide' = FALSE /\ seen' = TRUE
    /\ UNCHANGED <<status, demoUrl, started, busy, error, setup, stage, shown, token, ending,
                   reissue, conn, drops, faults>>

-----------------------------------------------------------------------------
(* In the room.                                                            *)

SubmitDevices ==
    /\ stage = "prejoin" /\ stage' = "live"
    /\ UNCHANGED <<status, entry, shown, token, ending, reissue, conn, drops, faults>>

\* LiveKitRoom connects when it is given a token, and anew only with another one; once
\* connected, another token changes nothing.  LiveKit knows no row: it makes the room
\* of a token again, though it has ended.
Connect ==
    /\ stage = "live" /\ conn = None /\ token # None
    /\ conn' = token
    /\ UNCHANGED <<status, entry, stage, shown, token, ending, reissue, drops, faults>>

\* ReconnectGuard starts a timer; its issueToken is of the room shown then.
Drop ==
    /\ conn # None /\ reissue = Idle /\ drops < MaxDrops
    /\ drops' = drops + 1
    /\ conn' = None /\ token' = None /\ reissue' = Call("timer", shown)
    /\ UNCHANGED <<status, entry, stage, shown, ending, faults>>

\* The timer outlives the guard, and so does its call; the API refuses a token for
\* a room that has ended.
Reissue ==
    /\ reissue.at = "timer"
    /\ \/ status[reissue.room] # "ended" /\ reissue' = [reissue EXCEPT !.at = "answered"]
          /\ UNCHANGED faults
       \/ status[reissue.room] = "ended" /\ reissue' = Idle /\ UNCHANGED faults
       \/ Fault /\ reissue' = Idle
    /\ UNCHANGED <<status, entry, stage, shown, token, ending, conn, drops>>

TakeToken ==
    /\ reissue.at = "answered"
    /\ token' = reissue.room /\ reissue' = Idle
    /\ UNCHANGED <<status, entry, stage, shown, ending, conn, drops, faults>>

\* A room ends: by its lifetime, a sweep, another page of the host.
Ended(r) ==
    /\ status' = [status EXCEPT ![r] = "ended"]
    /\ IF conn = r THEN conn' = None /\ token' = None ELSE UNCHANGED <<conn, token>>
RoomEnds(r) ==
    /\ status[r] = "created" /\ Ended(r)
    /\ UNCHANGED <<entry, stage, shown, ending, reissue, drops, faults>>

-----------------------------------------------------------------------------
(* end                                                                     *)

AskEnd ==
    /\ stage = "live" /\ ending = Idle
    /\ ending' = Call("confirm", shown)
    /\ UNCHANGED <<status, entry, stage, shown, token, reissue, conn, drops, faults>>

Cancel ==
    /\ ending.at = "confirm" /\ ending' = Idle
    /\ UNCHANGED <<status, entry, stage, shown, token, reissue, conn, drops, faults>>

Confirm ==
    /\ ending.at = "confirm" /\ ending' = [ending EXCEPT !.at = "asked"]
    /\ UNCHANGED <<status, entry, stage, shown, token, reissue, conn, drops, faults>>

\* POST /end, which may fail before or after it ended the room.
EndRoom ==
    /\ ending.at = "asked"
    /\ \/ Ended(ending.room) /\ UNCHANGED faults
       \/ Fault /\ UNCHANGED <<status, conn, token>>
    /\ ending' = [ending EXCEPT !.at = "answered"]
    /\ UNCHANGED <<entry, stage, shown, reissue, drops>>

\* finally: whatever the answer.
NotAwaited == ending.at \in {"asked", "answered"}
Awaited    == ending.at = "answered"
LeaveRoom ==
    /\ Awaited /\ stage # "setup"
    /\ stage' = "setup" /\ token' = None /\ conn' = None
    /\ ending' = IF ending.at = "answered" THEN Idle ELSE ending
    /\ UNCHANGED <<status, entry, shown, reissue, drops, faults>>

\* The page is loaded anew; its URL is what it was.
Reload ==
    /\ Fault
    /\ started' = demoUrl /\ busy' = demoUrl /\ error' = FALSE /\ guide' = FALSE
    /\ stage' = "setup" /\ shown' = None /\ token' = None /\ conn' = None
    /\ ending' = Idle /\ reissue' = Idle
    /\ \E k \in Setups : setup' = [j \in Setups |-> IF demoUrl /\ j = k
                                                    THEN Setup("room", TRUE, None) ELSE NoSetup]
    /\ UNCHANGED <<status, demoUrl, seen, drops>>

Next ==
    \/ SelectMode \/ Start \/ DismissGuide \/ SubmitDevices
    \/ \E k \in Setups : CreateRoom(k) \/ IssueToken(k) \/ Enter(k) \/ Fails(k)
    \/ Connect \/ Drop \/ Reissue \/ TakeToken
    \/ \E r \in Rooms : RoomEnds(r)
    \/ AskEnd \/ Cancel \/ Confirm \/ EndRoom \/ LeaveRoom \/ Reload

Spec == Init /\ [][Next]_vars

-----------------------------------------------------------------------------

\* As long as no call fails, the host is connected to no other room than the one its
\* page shows and manages, but for one that has ended: the token a reconnection asked
\* for there can arrive in the next room's preparation, and LiveKit makes the room again.
ConnectedToShown ==
    faults = 0 => conn \in {None, shown} \/ status[conn] = "ended"

\* As long as no call fails, no room is left behind: each that has not ended is the
\* one on the page or one being set up, however the ways into a room and the mode
\* interleave.
NothingAbandoned ==
    faults = 0 =>
        \A r \in Rooms : status[r] = "created" =>
            \/ r = shown /\ stage # "setup"
            \/ \E k \in Setups : setup[k].room = r

\* The page manages the room it is in, and every room it made.
RoomInHand == ConnectedToShown /\ NothingAbandoned
=============================================================================

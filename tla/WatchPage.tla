------------------------------ MODULE WatchPage ------------------------------
(***************************************************************************)
(* A viewer's page (watch/[roomId]) and the HLS player in it: the room is  *)
(* loaded when the page opens and once more when the viewer enters, in     *)
(* calls that overlap; the player polls GET /hls, imports hls.js when it   *)
(* has a playlist, and must not outlive its screen.  Egress says how the   *)
(* room's row comes to change; here it changes by itself.                  *)
(***************************************************************************)
EXTENDS Naturals, FiniteSets

CONSTANTS
    Loads,     \* GET /rooms/:id calls of loadRoom that can be under way
    Polls,     \* GET /hls calls that can be under way
    MaxMounts, \* bound: players mounted
    MaxMoves,  \* bound: changes of the row
    MaxErrors  \* bound: calls that fail

WatchPageAssumption == {MaxMounts, MaxMoves, MaxErrors} \subseteq Nat

VARIABLES
    mode, status, est, \* the row: viewer_mode, status, egress_status
    open, room, entered, token, loadFailed, \* the page
    load,   \* loadRoom's calls
    enter,  \* the viewer's entry
    mount,  \* the latest mounting of the player
    shownStatus, url, \* its state
    poll,   \* its calls
    importing, alive, \* mountings that import hls.js, and that have an instance of it
    moves, errors

row    == <<mode, status, est>>
page   == <<open, room, entered, token, loadFailed>>
player == <<mount, shownStatus, url, poll>>
hls    == <<importing, alive>>
bounds == <<moves, errors>>
vars   == <<row, page, load, enter, player, hls, bounds>>

Detail(m, s) == [mode |-> m, status |-> s]
NoRoom       == Detail("none", "none")
Details      == [mode : {"hls", "webrtc"}, status : {"live", "ended"}]
Info(e, l)   == [status |-> e, playlist |-> l]
Statuses     == {"none", "starting", "active", "ending", "failed"}
Call(p, v)   == [pc |-> p, got |-> v]
Idle         == Call("idle", NoRoom)
NoPoll       == Call("idle", Info("none", FALSE))

TypeOK ==
    /\ mode \in {"hls", "webrtc"} /\ status \in {"live", "ended"} /\ est \in Statuses
    /\ {open, entered, token, loadFailed, url} \subseteq BOOLEAN
    /\ room \in Details \cup {NoRoom}
    /\ load \in [Loads -> [pc : {"idle", "asked", "served"}, got : Details \cup {NoRoom}]]
    /\ enter \in [pc : {"idle", "asked", "served", "token"}, got : Details \cup {NoRoom}]
    /\ mount \in 0 .. MaxMounts /\ shownStatus \in Statuses
    /\ poll \in [Polls -> [pc : {"idle", "asked", "served"},
                           got : [status : Statuses, playlist : BOOLEAN]]]
    /\ importing \subseteq 1 .. MaxMounts /\ alive \subseteq 1 .. MaxMounts
    /\ moves \in 0 .. MaxMoves /\ errors \in 0 .. MaxErrors

Init ==
    /\ mode \in {"hls", "webrtc"} /\ status = "live" /\ est = "none"
    /\ open = FALSE /\ room = NoRoom
    /\ entered = FALSE /\ token = FALSE /\ loadFailed = FALSE
    /\ load = [l \in Loads |-> Idle] /\ enter = Idle
    /\ mount = 0 /\ shownStatus = "none" /\ url = FALSE
    /\ poll = [p \in Polls |-> NoPoll]
    /\ importing = {} /\ alive = {}
    /\ moves = 0 /\ errors = 0

-----------------------------------------------------------------------------
(* What is on the screen, and the player that comes and goes with it.      *)

Screen ==
    CASE ~open                   -> "closed"
      [] room.status = "ended"   -> "ended"
      [] loadFailed /\ ~entered  -> "error"
      [] ~entered                -> "form"
      [] room.mode = "hls"       -> "hls"
      [] token                   -> "webrtc"
      [] OTHER                   -> "blank"

Unmounted(m) == Screen # "hls"
Cancelled(m) == Screen # "hls" \/ m # mount

\* Effects run when the player is mounted, clean up when it is not any more; the
\* answers its polls still get are not looked at.
PlayerFollows ==
    CASE Screen # "hls" /\ Screen' = "hls" ->
            /\ mount < MaxMounts /\ mount' = mount + 1
            /\ shownStatus' = "none" /\ url' = FALSE
            /\ UNCHANGED <<poll, hls>>
      [] Screen = "hls" /\ Screen' # "hls" ->
            /\ alive' = alive \ {mount}
            /\ poll' = [p \in Polls |-> NoPoll]
            /\ UNCHANGED <<mount, shownStatus, url, importing>>
      [] OTHER -> UNCHANGED <<player, hls>>

Fails == errors < MaxErrors /\ errors' = errors + 1

-----------------------------------------------------------------------------
(* The page.                                                               *)

Opens ==
    /\ ~open
    /\ open' = TRUE /\ room' = NoRoom
    /\ entered' = FALSE /\ token' = FALSE /\ loadFailed' = FALSE
    /\ \E l \in Loads : load' = [load EXCEPT ![l] = Call("asked", NoRoom)]
    /\ UNCHANGED <<row, enter, bounds>>
    /\ PlayerFollows

\* Answers that come after this change nothing anyone sees.
Closes ==
    /\ open
    /\ open' = FALSE
    /\ load' = [l \in Loads |-> Idle] /\ enter' = Idle
    /\ UNCHANGED <<row, room, entered, token, loadFailed, bounds>>
    /\ PlayerFollows

LoadAgain(l) ==
    /\ Screen = "error" /\ load[l].pc = "idle"
    /\ loadFailed' = FALSE
    /\ load' = [load EXCEPT ![l] = Call("asked", NoRoom)]
    /\ UNCHANGED <<row, open, room, entered, token, enter, bounds>>
    /\ PlayerFollows

LoadServed(l) ==
    /\ load[l].pc = "asked"
    /\ load' = [load EXCEPT ![l] = Call("served", Detail(mode, status))]
    /\ UNCHANGED <<row, page, enter, player, hls, bounds>>

LoadAnswered(l) ==
    /\ load[l].pc = "served"
    /\ room' = load[l].got
    /\ load' = [load EXCEPT ![l] = Idle]
    /\ UNCHANGED <<row, open, entered, token, loadFailed, enter, bounds>>
    /\ PlayerFollows

LoadFails(l) ==
    /\ Fails
    /\ load[l].pc # "idle"
    /\ loadFailed' = TRUE
    /\ load' = [load EXCEPT ![l] = Idle]
    /\ UNCHANGED <<row, open, room, entered, token, enter, moves>>
    /\ PlayerFollows

\* The button is there before the room is, and disabled while an entry is under way.
Enters ==
    /\ Screen = "form" /\ enter.pc = "idle"
    /\ enter' = Call("asked", NoRoom)
    /\ UNCHANGED <<row, page, load, player, hls, bounds>>

EnterServed ==
    /\ enter.pc = "asked"
    /\ enter' = Call("served", Detail(mode, status))
    /\ UNCHANGED <<row, page, load, player, hls, bounds>>

EnterAnswered ==
    /\ enter.pc = "served"
    /\ room' = enter.got
    /\ IF enter.got.mode = "webrtc"
       THEN enter' = Call("token", NoRoom) /\ entered' = entered
       ELSE enter' = Idle /\ entered' = TRUE
    /\ UNCHANGED <<row, open, token, loadFailed, load, bounds>>
    /\ PlayerFollows

\* POST /token: refused (409) once the room has ended.
TokenAnswered ==
    /\ enter.pc = "token"
    /\ enter' = Idle
    /\ IF status = "ended" THEN UNCHANGED <<entered, token>> ELSE entered' = TRUE /\ token' = TRUE
    /\ UNCHANGED <<row, open, room, loadFailed, load, bounds>>
    /\ PlayerFollows

EnterFails ==
    /\ Fails
    /\ enter.pc # "idle"
    /\ enter' = Idle
    /\ UNCHANGED <<row, page, load, player, hls, moves>>

-----------------------------------------------------------------------------
(* The player.                                                             *)

\* The timer goes on for as long as the player is there, whatever became of
\* the earlier calls.
DueUntilUrl(p) == Screen = "hls" /\ poll[p].pc = "idle" /\ ~url
Due(p)         == Screen = "hls" /\ poll[p].pc = "idle"
PollAsked(p) ==
    /\ Due(p)
    /\ poll' = [poll EXCEPT ![p].pc = "asked"]
    /\ UNCHANGED <<row, page, load, enter, mount, shownStatus, url, hls, bounds>>

PollServed(p) ==
    /\ poll[p].pc = "asked"
    /\ poll' = [poll EXCEPT ![p] = Call("served", Info(est, mode = "hls" /\ est = "active"))]
    /\ UNCHANGED <<row, page, load, enter, mount, shownStatus, url, hls, bounds>>

\* The first playlist starts the import.
PollAnswered(p) ==
    /\ poll[p].pc = "served"
    /\ shownStatus' = poll[p].got.status
    /\ url' = (url \/ poll[p].got.playlist)
    /\ importing' = IF url' /\ ~url THEN importing \cup {mount} ELSE importing
    /\ poll' = [poll EXCEPT ![p] = NoPoll]
    /\ UNCHANGED <<row, page, load, enter, mount, alive, bounds>>

PollFails(p) ==
    /\ Fails
    /\ poll[p].pc # "idle"
    /\ poll' = [poll EXCEPT ![p] = NoPoll]
    /\ UNCHANGED <<row, page, load, enter, mount, shownStatus, url, hls, moves>>

Imported(m) ==
    /\ m \in importing
    /\ importing' = importing \ {m}
    /\ alive' = IF Cancelled(m) THEN alive ELSE alive \cup {m}
    /\ UNCHANGED <<row, page, load, enter, player, bounds>>

-----------------------------------------------------------------------------
(* The row.                                                                *)

Moves ==
    /\ moves < MaxMoves /\ moves' = moves + 1
    /\ UNCHANGED <<page, load, enter, player, hls, errors>>

EgressMoves ==
    /\ mode = "hls" /\ status = "live"
    /\ \E next \in {<<"none", "starting">>, <<"starting", "active">>, <<"active", "none">>} :
          est = next[1] /\ est' = next[2]
    /\ UNCHANGED <<mode, status>>
    /\ Moves

FallsBack ==
    /\ mode = "hls" /\ est \in {"starting", "active"}
    /\ mode' = "webrtc" /\ est' = "failed" /\ status' = status
    /\ Moves

RoomEnds ==
    /\ status = "live"
    /\ status' = "ended" /\ mode' = mode
    /\ est' = IF mode = "hls" THEN "ending" ELSE est
    /\ Moves

-----------------------------------------------------------------------------
Served(l)   == LoadServed(l) \/ LoadAnswered(l)
Polled(p)   == PollAsked(p) \/ PollServed(p) \/ PollAnswered(p)
Entry       == EnterServed \/ EnterAnswered \/ TokenAnswered

Next ==
    \/ Opens \/ Closes \/ Enters \/ Entry \/ EnterFails
    \/ \E l \in Loads : LoadAgain(l) \/ Served(l) \/ LoadFails(l)
    \/ \E p \in Polls : Polled(p) \/ PollFails(p)
    \/ \E m \in 1 .. MaxMounts : Imported(m)
    \/ EgressMoves \/ FallsBack \/ RoomEnds

Spec == Init /\ [][Next]_vars

\* Calls are answered, timers fire, imports arrive; nobody has to open or enter.
Fairness ==
    /\ WF_vars(Entry)
    /\ \A l \in Loads : WF_vars(Served(l))
    /\ \A p \in Polls : WF_vars(Polled(p))
    /\ \A m \in 1 .. MaxMounts : WF_vars(Imported(m))

FairSpec == Spec /\ Fairness
-----------------------------------------------------------------------------
\* However the screens follow one another while hls.js is still being imported,
\* there is at most one instance of it, and none without the player it feeds.
OnePlayer == alive \subseteq (IF Screen = "hls" THEN {mount} ELSE {})

\* Polls overlap and are answered in any order; in the end the player says what
\* the egress is, and plays if there ever was a playlist.
PlayerCatchesUp ==
    <>[](Screen = "hls" => shownStatus = est /\ (url => mount \in alive))
=============================================================================

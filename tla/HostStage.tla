------------------------------ MODULE HostStage ------------------------------
(***************************************************************************)
(* The host's stage: a tile for every camera, in pages or with the loudest *)
(* in the big tile, a chip for every speaker, and the buttons on both.     *)
(* The room changes under the page at any time: cameras come and go,       *)
(* subscriptions are lost, somebody else gets loud, roles change.          *)
(*                                                                         *)
(* React keeps one component for the big tile, whoever it shows, with its  *)
(* state and its listeners, until the effect of a later render has run.    *)
(***************************************************************************)
EXTENDS Naturals, Sequences, SequencesExt

CONSTANTS
    People, Host,
    None,
    PageSize,   \* PAGE_SIZE
    MaxChanges  \* bound: changes of the room the host has no part in

HostStageAssumption ==
    /\ Host \in People /\ None \notin People
    /\ PageSize \in Nat \ {0} /\ MaxChanges \in Nat

VARIABLES
    cameras,   \* cameraTracks, as their participants
    role,      \* by person: "guest", "speaker", "host", or "away"
    mic,       \* the microphone's publication
    hears,     \* whose microphones the host's page is subscribed to
    loud,      \* speaking[0]
    changes,
    spotlight, \* the page's state
    page,
    listens,   \* whose events the big tile's badge hears
    badge,     \* is it the loudspeaker or the crossed-out one
    ask,       \* the dialog about a kick: who it names, and the tile it came from
    calls      \* calls to the API under way

room   == <<cameras, role, mic, hears, loud>>
big    == <<listens, badge>>
screen == <<spotlight, page>>
vars   == <<room, changes, screen, big, ask, calls>>

Guests == People \ {Host}
Events == {"TrackMuted", "TrackUnmuted", "TrackSubscribed", "TrackUnsubscribed",
           "TrackPublished", "TrackUnpublished"}
NoAsk  == [names |-> None, tile |-> None]
BigTile == "big"

Init ==
    /\ cameras = <<>> /\ loud = None /\ hears = {}
    /\ role = [p \in People |-> IF p = Host THEN "host" ELSE "away"]
    /\ mic = [p \in People |-> "none"]
    /\ changes = 0
    /\ spotlight = FALSE /\ page = 0
    /\ listens = None /\ badge = FALSE
    /\ ask = NoAsk /\ calls = {}

-----------------------------------------------------------------------------
(* What is on the screen.                                                  *)

\* The page of the grid, which may have shrunk since the last click.
Pages   == (Len(cameras) + PageSize - 1) \div PageSize
Current == IF page < Pages - 1 THEN page ELSE Pages - 1
Shown   == SubSeq(cameras, Current * PageSize + 1,
                  IF Len(cameras) < (Current + 1) * PageSize THEN Len(cameras)
                                                             ELSE (Current + 1) * PageSize)

\* The big tile.
HasBig == spotlight /\ cameras # <<>>
Main   == IF loud \in ToSet(cameras) THEN loud ELSE Head(cameras)

Tiles == IF spotlight \/ cameras = <<>> THEN ToSet(cameras) ELSE ToSet(Shown)
\* A camera is in the list once.
Without(p) == IF p \in ToSet(cameras)
              THEN RemoveAt(cameras, CHOOSE i \in DOMAIN cameras : cameras[i] = p)
              ELSE cameras

Chips == {p \in Guests : role[p] = "speaker"}

\* The audio badge: the person's microphone, as it is and as the host has it.
Audible(p) == mic[p] = "on" /\ (p = Host \/ p \in hears)

OnlyMutes   == Events \ {"TrackSubscribed", "TrackUnsubscribed"}
Listened    == Events

-----------------------------------------------------------------------------
(* The room.  A change of a microphone reaches the big tile as an event.   *)

RoomChanges == changes < MaxChanges /\ changes' = changes + 1

Heard(p, event) ==
    /\ badge' = IF listens = p /\ event \in Listened THEN Audible(p)' ELSE badge
    /\ UNCHANGED listens

Microphone(p, before, after, event) ==
    /\ role[p] # "away" /\ mic[p] = before
    /\ mic' = [mic EXCEPT ![p] = after]
    /\ hears' = IF after = "none" THEN hears \ {p} ELSE hears
    /\ Heard(p, event)
    /\ UNCHANGED <<cameras, role, loud>>

MicrophoneChanges(p) ==
    /\ RoomChanges
    /\ \/ Microphone(p, "none", "on", "TrackPublished")
       \/ Microphone(p, "on", "muted", "TrackMuted")
       \/ Microphone(p, "muted", "on", "TrackUnmuted")
       \/ Microphone(p, "on", "none", "TrackUnpublished")
       \/ Microphone(p, "muted", "none", "TrackUnpublished")
    /\ UNCHANGED <<screen, ask, calls>>

SubscriptionChanges(p) ==
    /\ RoomChanges
    /\ p # Host /\ mic[p] # "none"
    /\ hears' = IF p \in hears THEN hears \ {p} ELSE hears \cup {p}
    /\ UNCHANGED <<cameras, role, mic, loud, screen, ask, calls>>
    /\ Heard(p, IF p \in hears THEN "TrackUnsubscribed" ELSE "TrackSubscribed")

\* React takes the big tile away when nothing is left to show in it.
Unmounts == IF spotlight' /\ cameras' # <<>> THEN UNCHANGED big
                                             ELSE listens' = None /\ badge' = FALSE

CameraChanges(p) ==
    /\ RoomChanges
    /\ role[p] \in {"guest", "host"}
    /\ cameras' = IF p \in ToSet(cameras) THEN Without(p) ELSE Append(cameras, p)
    /\ UNCHANGED <<role, mic, hears, loud, screen, ask, calls>>
    /\ Unmounts

GetsLoud(p) ==
    /\ RoomChanges
    /\ loud' = IF p = loud THEN None ELSE p
    /\ UNCHANGED <<cameras, role, mic, hears, screen, big, ask, calls>>

\* Somebody comes, on stage as a guest or a speaker.
Comes(p, as) ==
    /\ RoomChanges
    /\ role[p] = "away"
    /\ role' = [role EXCEPT ![p] = as]
    /\ UNCHANGED <<cameras, mic, hears, loud, screen, big, ask, calls>>

\* Whoever goes takes the tracks along; so does a loss of the role.
Goes(p, as) ==
    /\ role' = [role EXCEPT ![p] = as]
    /\ cameras' = Without(p)
    /\ IF as = "away"
       THEN /\ mic' = [mic EXCEPT ![p] = "none"] /\ hears' = hears \ {p}
            /\ loud' = IF loud = p THEN None ELSE loud
       ELSE UNCHANGED <<mic, hears, loud>>
    /\ IF spotlight /\ cameras' # <<>>
       THEN UNCHANGED listens /\ badge' = IF listens = p THEN Audible(p)' ELSE badge
       ELSE listens' = None /\ badge' = FALSE

Leaves(p) ==
    /\ RoomChanges
    /\ p # Host /\ role[p] # "away"
    /\ Goes(p, "away")
    /\ UNCHANGED <<screen, ask, calls>>

-----------------------------------------------------------------------------
(* The page.                                                               *)

\* The badge's effect, after a render with another participant.
BadgeEffect ==
    /\ HasBig /\ listens # Main
    /\ listens' = Main /\ badge' = Audible(Main)
    /\ UNCHANGED <<room, changes, screen, ask, calls>>

Toggle ==
    /\ cameras # <<>>
    /\ spotlight' = ~spotlight
    /\ UNCHANGED <<room, changes, page, ask, calls>>
    /\ Unmounts

Turn(by) ==
    /\ ~spotlight /\ Pages > 1
    /\ \/ by = "next" /\ Current < Pages - 1 /\ page' = Current + 1
       \/ by = "previous" /\ Current > 0 /\ page' = Current - 1
    /\ UNCHANGED <<room, changes, spotlight, big, ask, calls>>

\* onMute, onToSpeaker and onToGuest call at once.
Call(op, p) ==
    /\ ask = NoAsk
    /\ p # Host
    /\ \/ op \in {"mute", "speaker"} /\ p \in Tiles
       \/ op = "guest" /\ p \in Chips
    /\ calls' = calls \cup {[op |-> op, who |-> p]}
    /\ UNCHANGED <<room, changes, screen, big, ask>>

\* onKick opens a dialog that names whoever the tile showed at the click, and
\* goes on with the participant of that render.
AskKick(p, tile) ==
    /\ ask = NoAsk
    /\ p # Host
    /\ \/ tile = BigTile /\ HasBig /\ p = Main
       \/ tile = p /\ p \in Chips \cup (IF HasBig THEN Tiles \ {Main} ELSE Tiles)
    /\ ask' = [names |-> p, tile |-> tile]
    /\ UNCHANGED <<room, changes, screen, big, calls>>

AsShownNow(a) == IF a.tile = BigTile /\ HasBig THEN Main ELSE a.names
Meant(a)      == a.names

Confirm(yes) ==
    /\ ask # NoAsk
    /\ ask' = NoAsk
    /\ calls' = IF yes THEN calls \cup {[op |-> "kick", who |-> Meant(ask)]} ELSE calls
    /\ UNCHANGED <<room, changes, screen, big>>

\* The API's answer: what it has done to the room, or a toast about an error.
Answered(c) ==
    /\ c \in calls /\ calls' = calls \ {c}
    /\ \/ UNCHANGED <<room, big>>
       \/ c.op = "mute" /\ Microphone(c.who, "on", "muted", "TrackMuted")
       \/ c.op = "kick" /\ role[c.who] # "away" /\ Goes(c.who, "away")
       \/ c.op = "speaker" /\ role[c.who] = "guest" /\ Goes(c.who, "speaker")
       \/ /\ c.op = "guest" /\ role[c.who] = "speaker"
          /\ role' = [role EXCEPT ![c.who] = "guest"]
          /\ UNCHANGED <<cameras, mic, hears, loud, big>>
    /\ UNCHANGED <<changes, screen, ask>>

Next ==
    \/ \E p \in People :
          MicrophoneChanges(p) \/ SubscriptionChanges(p) \/ CameraChanges(p)
             \/ GetsLoud(p) \/ Leaves(p)
    \/ \E p \in Guests, as \in {"guest", "speaker"} : Comes(p, as)
    \/ BadgeEffect \/ Toggle \/ Turn("next") \/ Turn("previous")
    \/ \E p \in Guests : \E op \in {"mute", "speaker", "guest"} : Call(op, p)
    \/ \E p \in Guests : AskKick(p, p) \/ AskKick(p, BigTile)
    \/ Confirm(TRUE) \/ Confirm(FALSE)
    \/ \E c \in calls : Answered(c)

Spec == Init /\ [][Next]_vars

-----------------------------------------------------------------------------

\* The one badge the big tile keeps for everybody it shows is that of the person
\* it shows, as soon as the effect has run: no change of a microphone or of a
\* subscription escapes it, and none of the person shown before gets into it.
BadgeTrue == HasBig /\ listens = Main => badge = Audible(Main)

\* The kick goes to whom the dialog named, even if the tile it was opened from
\* shows somebody else by then.
KickAsAsked == [][\A c \in calls' \ calls : c.op = "kick" => c.who = ask.names]_vars
=============================================================================

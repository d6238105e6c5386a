------------------------------- MODULE MCPages -------------------------------
(***************************************************************************)
(* The pages of the web client for TLC: the guest's page (GuestPage, which *)
(* this module extends), the device preview, the viewer's page, the host's *)
(* page, its dialogs, the session that a browser's tabs share, and the     *)
(* invitation.  They share no state, so one run looks at them side by      *)
(* side: in each behaviour one of them moves, and the others stay as they  *)
(* began.                                                                  *)
(***************************************************************************)
EXTENDS GuestPage

CONSTANTS
    MaxRuns,                               \* of DevicePreview
    Loads, Polls, MaxMounts, WatchMoves, MaxErrors, \* of WatchPage
    Setups, MaxRooms, MaxFaults,           \* of HostPage
    Asks, MaxToasts,                       \* of Dialogs
    Tabs, MaxUsers, PerMinute, MaxLost,    \* of Sessions
    Guests, Ttl, MaxTries                  \* of Invites

VARIABLES
    part, \* the component that moves
    previewed, run, pc, stream, live, meters, denied, video, listed,
    mode, status, est, open, room, entered, token, loadFailed, load, enter, mount,
    shownStatus, url, poll, importing, alive, watchMoves, errors,
    rooms, demoUrl, started, stage, busy, error, roomId, hostToken, guide, seen, setup,
    ending, reissue, hostConn, hostDrops, faults,
    sheet, shown, ask, focus, before, toasts,
    users, expired, minute, stored, tab, overlapped, lost,
    sharing, linkShown, code, used, usedTtl, guest, link, tries, broken

preview == <<previewed, run, pc, stream, live, meters, denied, video, listed>>
watch   == <<mode, status, est, open, room, entered, token, loadFailed, load, enter, mount,
             shownStatus, url, poll, importing, alive, watchMoves, errors>>
host    == <<rooms, demoUrl, started, stage, busy, error, roomId, hostToken, guide, seen, setup,
             ending, reissue, hostConn, hostDrops, faults>>
dialogs == <<sheet, shown, ask, focus, before, toasts>>
session == <<users, expired, minute, stored, tab, overlapped, lost>>
invite  == <<sharing, linkShown, code, used, usedTtl, guest, link, tries, broken>>

D == INSTANCE DevicePreview WITH mounted <- previewed
W == INSTANCE WatchPage WITH MaxMoves <- WatchMoves, moves <- watchMoves
P == INSTANCE HostPage
        WITH status <- rooms, shown <- roomId, token <- hostToken, conn <- hostConn,
             drops <- hostDrops
F == INSTANCE Dialogs WITH None <- Nobody
B == INSTANCE Sessions WITH MaxFaults <- MaxLost, faults <- lost
I == INSTANCE Invites WITH page <- sharing, shown <- linkShown, faults <- broken

ASSUME ViewingAssumption == D!DevicePreviewAssumption /\ W!WatchPageAssumption
ASSUME HostingAssumption == P!HostPageAssumption /\ F!DialogsAssumption
ASSUME InvitingAssumption == B!SessionsAssumption /\ I!InvitesAssumption

\* A page that does not move starts as one of the instances it could be.
PagesInit ==
    /\ part \in {"guest", "preview", "watch", "host", "dialogs", "session", "invite"}
    /\ Init /\ D!Init /\ W!Init /\ P!Init /\ F!Init /\ B!Init /\ I!Init
    /\ part # "watch" => mode = "hls"
    /\ part # "host" => ~demoUrl

PagesNext ==
    \/ /\ part = "guest" /\ Next
       /\ UNCHANGED <<part, preview, watch, host, dialogs, session, invite>>
    \/ /\ part = "preview" /\ D!Next
       /\ UNCHANGED <<part, vars, watch, host, dialogs, session, invite>>
    \/ /\ part = "watch" /\ W!Next
       /\ UNCHANGED <<part, vars, preview, host, dialogs, session, invite>>
    \/ /\ part = "host" /\ P!Next
       /\ UNCHANGED <<part, vars, preview, watch, dialogs, session, invite>>
    \/ /\ part = "dialogs" /\ F!Next
       /\ UNCHANGED <<part, vars, preview, watch, host, session, invite>>
    \/ /\ part = "session" /\ B!Next
       /\ UNCHANGED <<part, vars, preview, watch, host, dialogs, invite>>
    \/ /\ part = "invite" /\ I!Next
       /\ UNCHANGED <<part, vars, preview, watch, host, dialogs, session>>

\* A page nobody has opened has nothing to be fair about: GuestPage's and WatchPage's
\* fairness asks nothing while another moves.  Tabs and time would go on by themselves.
Tabbed == part = "session"
Shared == part = "invite"
PagesSpec ==
    /\ PagesInit
    /\ [][PagesNext]_<<part, vars, preview, watch, host, dialogs, session, invite>>
    /\ Fairness /\ W!Fairness
    /\ WF_session(Tabbed /\ B!NextMinute)
    /\ \A t \in Tabs :
          /\ WF_session(Tabbed /\ B!Enter(t)) /\ WF_session(Tabbed /\ B!Created(t))
          /\ WF_session(Tabbed /\ B!Stored(t)) /\ WF_session(Tabbed /\ B!Ask(t))
          /\ WF_session(Tabbed /\ B!Token(t))
    /\ WF_invite(Shared /\ I!Tick) /\ WF_invite(Shared /\ I!CreateInvite)
    /\ \A g \in Guests :
          /\ WF_invite(Shared /\ I!Share(g)) /\ WF_invite(Shared /\ I!Ask(g))
          /\ WF_invite(Shared /\ I!Resolve(g)) /\ WF_invite(Shared /\ I!Record(g))
          /\ WF_invite(Shared /\ I!Requested(g))

-----------------------------------------------------------------------------
\* What is checked of the pages besides GuestPage's own properties: the preview's
\* devices, the HLS player, the host's rooms, the focus, sessions and invitations
\* (see the modules).
DevicesReleased == D!DevicesReleased

\* At most one hls.js, and none without its player (WatchPage).
OnePlayer == W!OnePlayer

\* The player ends up showing what the egress is (WatchPage).
PlayerCatchesUp == W!PlayerCatchesUp

\* The host's page manages the room it is in, and every room it made (HostPage).
RoomInHand == P!RoomInHand

\* The focus is where the host is, once no dialog is open (Dialogs).
FocusReturns == F!FocusReturns

\* A tab comes in as whom it asked as, but for a race of two first tabs (Sessions).
SameUser == B!SameUser

\* And it does come in, if it tries on and no session expires (Sessions).
GetsIn == Tabbed => B!GetsIn

\* Who used an invitation is forgotten in the end (Invites).
UsesForgotten == I!UsesForgotten
=============================================================================

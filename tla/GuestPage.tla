----------------------------- MODULE GuestPage -----------------------------
(***************************************************************************)
(* The guest's side of one participation: the join page open on several    *)
(* devices of the same user, with ReconnectGuard (fresh tokens after a     *)
(* break, back-off, a manual button), GuestUpgrade (microphone and camera  *)
(* follow the permission) and the host's decisions.  Each API call is one  *)
(* step on the server (their interleavings are Participation's subject),   *)
(* but POST /token, which signs after it has checked; the answer, the      *)
(* connection and the webhook of a departure come later.                   *)
(***************************************************************************)
EXTENDS Naturals

CONSTANTS
    Devices,     \* where the user has the page open
    Nobody,      \* nobody connected, no loop
    MaxAttempts, \* MAX_RECONNECT_ATTEMPTS
    MaxOpens,    \* bound: times the user fills in the form
    MaxDrops,    \* bound: connections that break or fail
    MaxMoves     \* bound: decisions of the host

ASSUME GuestPageAssumption ==
    /\ Nobody \notin Devices
    /\ {MaxAttempts, MaxOpens, MaxDrops, MaxMoves} \subseteq Nat

VARIABLES
    row,    \* room_participants
    over,   \* has the room ended
    conn,   \* the device LiveKit has connected
    grant,  \* the role its permissions are those of
    mic, cam, \* what it publishes
    muted,  \* history: has the host muted the microphone since it came on the stage
    acting, \* roles that syncs under way have read
    retry,  \* ensurePublishPermission: the role still to be granted
    lefts,  \* participant_left webhooks to come
    page,   \* the page on each device
    late,   \* history: the devices whose token was checked before the last kick
    opens, drops, moves

server == <<row, over, retry>>
media  == <<mic, cam, acting, muted>>
bounds == <<late, opens, drops, moves>>
vars   == <<server, conn, grant, media, lefts, page, bounds>>

PubRoles == {"guest", "speaker"}
Row(r, s) == [role |-> r, state |-> s]

\* call: what the page waits for; token: the role it asks for, then that of the token
\* it has not used yet.
NewPage == [at |-> "form", call |-> "idle", token |-> "viewer", attempts |-> 0,
            manual |-> FALSE, duplicate |-> FALSE, ending |-> FALSE, upgraded |-> FALSE]

TypeOK ==
    /\ row \in [role : PubRoles \cup {"viewer", "none"},
                state : {"none", "requested", "approved", "kicked", "left"}]
    /\ {over, mic, cam, muted} \subseteq BOOLEAN /\ late \subseteq Devices
    /\ conn \in Devices \cup {Nobody} /\ grant \in PubRoles \cup {"viewer"}
    /\ acting \subseteq PubRoles /\ retry \in PubRoles \cup {Nobody}
    /\ lefts \in Nat
    /\ page \in [Devices ->
         [at : {"form", "room", "removed", "ended"},
          call : {"idle", "join", "timer", "ask", "sign", "answer", "connect"},
          token : PubRoles \cup {"viewer"}, attempts : 0 .. MaxAttempts,
          manual : BOOLEAN, duplicate : BOOLEAN, ending : BOOLEAN, upgraded : BOOLEAN]]

Init ==
    /\ row = Row("none", "none") /\ over = FALSE
    /\ conn = Nobody /\ grant = "viewer"
    /\ mic = FALSE /\ cam = FALSE /\ acting = {} /\ muted = FALSE
    /\ retry = Nobody /\ lefts = 0 /\ late = {}
    /\ page = [d \in Devices |-> NewPage]
    /\ opens = 0 /\ drops = 0 /\ moves = 0

-----------------------------------------------------------------------------
(* The join page and its calls.                                            *)

Set(d, p) == page' = [page EXCEPT ![d] = p]

\* join, from the form; rerequest leads back to it, and so does a reload.
Open(d) ==
    /\ page[d].at = "form" /\ page[d].call = "idle" /\ opens < MaxOpens
    /\ opens' = opens + 1
    /\ Set(d, [page[d] EXCEPT !.call = "join"])
    /\ UNCHANGED <<server, conn, grant, media, lefts, late, drops, moves>>

BackToForm(d) ==
    /\ page[d].at = "removed" \/ page[d].duplicate \/ page[d].manual
    /\ page[d].call = "idle" /\ conn # d /\ opens < MaxOpens
    /\ Set(d, NewPage)
    /\ UNCHANGED <<server, conn, grant, media, lefts, bounds>>

\* POST /join-requests; a slot is free or not.
Publisher == row.role \in PubRoles /\ row.state = "approved"
Returning == row.role \in PubRoles /\ row.state = "left"
RequestJoin(d) ==
    /\ page[d].call = "join"
    /\ \/ /\ ~over /\ Publisher
          /\ row' = row
          /\ Set(d, [page[d] EXCEPT !.call = "ask", !.token = "guest"])
       \/ /\ ~over /\ Returning
          /\ row' = Row(row.role, "approved")
          /\ Set(d, [page[d] EXCEPT !.call = "ask", !.token = "guest"])
       \/ /\ ~over /\ ~Publisher
          /\ row' = Row("guest", "requested")
          /\ Set(d, [page[d] EXCEPT !.call = "ask", !.token = "viewer"])
       \/ /\ over /\ row' = row /\ Set(d, NewPage)
    /\ UNCHANGED <<over, retry, conn, grant, media, lefts, bounds>>

\* A refusal, or a call that fails, leaves the form with an error and
\* ReconnectGuard with its button.
RefusedQuietly(p) == [p EXCEPT !.call = "idle"]
Refused(p)        == [p EXCEPT !.call = "idle", !.manual = p.at = "room"]

\* POST /token decides first who may have one: the role the row has, whichever
\* publishing role is asked for.
AnyState(s)  == TRUE
NotKicked(s) == s # "kicked"
TokenFor(asked) ==
    IF over \/ ~NotKicked(row.state) THEN "refused"
    ELSE IF asked = "viewer" THEN "viewer"
    ELSE IF Publisher THEN row.role ELSE "refused"
CheckToken(d) ==
    /\ page[d].call = "ask"
    /\ LET t == TokenFor(page[d].token)
       IN  Set(d, IF t = "refused" THEN Refused(page[d])
                  ELSE [page[d] EXCEPT !.call = "sign", !.token = t])
    /\ UNCHANGED <<server, conn, grant, media, lefts, bounds>>

\* It signs what it decided, whatever the row is by then.
IssueToken(d) ==
    /\ page[d].call = "sign"
    /\ Set(d, [page[d] EXCEPT !.call = "answer"])
    /\ UNCHANGED <<server, conn, grant, media, lefts, bounds>>

\* A token goes to LiveKitRoom, which connects.
TakeAnswer(d) ==
    /\ page[d].call = "answer"
    /\ Set(d, [page[d] EXCEPT !.at = "room", !.call = "connect", !.manual = FALSE])
    /\ UNCHANGED <<server, conn, grant, media, lefts, bounds>>

CallFails(d) ==
    /\ page[d].call \in {"join", "ask", "sign"} /\ drops < MaxDrops
    /\ drops' = drops + 1
    /\ Set(d, Refused(page[d]))
    /\ UNCHANGED <<server, conn, grant, media, lefts, late, opens, moves>>

-----------------------------------------------------------------------------
(* Connection and disconnection: ReconnectGuard.                           *)

\* shouldReconnectOnDisconnect.
EvenDuplicate(reason) == reason \in {"signal close", "duplicate"}
Eligible(reason)      == reason = "signal close"

OnDuplicate(p, reason) ==
    IF Eligible("duplicate") THEN [p EXCEPT !.call = "timer"] ELSE [p EXCEPT !.duplicate = TRUE]

TriesLeft(p) == p.attempts < MaxAttempts

\* onDisconnected of the page p.
Disconnected(p, reason) ==
    CASE reason = "duplicate" -> OnDuplicate(p, reason)
      [] reason = "removed"   -> [p EXCEPT !.at = "removed"]
      [] reason = "deleted" \/ (p.ending /\ reason \in {"signal close", "shutdown"})
                              -> [p EXCEPT !.at = "ended"]
      [] reason = "shutdown" /\ ~p.ending -> p
      [] OTHER -> IF TriesLeft(p) THEN [p EXCEPT !.attempts = @ + 1, !.call = "timer"]
                  ELSE [p EXCEPT !.manual = TRUE]

Silence == mic' = FALSE /\ cam' = FALSE /\ acting' = {} /\ muted' = FALSE

\* LiveKit asks nobody: a token is good for a row that was kicked since, and for a
\* room that has ended, which it makes again.  A second connection of the same user
\* takes over, and LiveKit may report the session it replaced as a departure.
Connect(d) ==
    /\ page[d].call = "connect"
    /\ conn' = d /\ grant' = page[d].token
    /\ Silence
    /\ page' = [e \in Devices |->
                 IF e = d THEN [page[d] EXCEPT !.call = "idle", !.token = "viewer", !.attempts = 0, !.manual = FALSE]
                 ELSE IF e = conn THEN Disconnected(page[e], "duplicate") ELSE page[e]]
    /\ lefts' \in (IF conn \in Devices \ {d} THEN {lefts, lefts + 1} ELSE {lefts})
    /\ late' = late \ {d}
    /\ UNCHANGED <<server, opens, drops, moves>>

\* External: LiveKit reports a connection that fails as a disconnection.
ConnectFails(d) ==
    /\ page[d].call = "connect" /\ drops < MaxDrops
    /\ drops' = drops + 1
    /\ Set(d, Disconnected([page[d] EXCEPT !.call = "idle"], "signal close"))
    /\ UNCHANGED <<server, conn, grant, media, lefts, late, opens, moves>>

Break(d, reason) ==
    /\ conn = d
    /\ conn' = Nobody /\ Silence
    /\ Set(d, Disconnected(page[d], reason))
    /\ lefts' = lefts + 1

Drop(d) ==
    /\ drops < MaxDrops /\ drops' = drops + 1
    /\ \E reason \in {"signal close", "shutdown"} : Break(d, reason)
    /\ UNCHANGED <<server, grant, late, opens, moves>>

\* The back-off is over: reissue; a page that was on stage asks as a guest.
Reissue(d) ==
    /\ page[d].call = "timer"
    /\ Set(d, [page[d] EXCEPT !.call = "ask",
                              !.token = IF page[d].upgraded THEN "guest" ELSE "viewer"])
    /\ UNCHANGED <<server, conn, grant, media, lefts, bounds>>

\* The button; a second click while the first is under way is left out.
PressButton(d) ==
    /\ page[d].manual /\ page[d].call = "idle" /\ opens < MaxOpens
    /\ opens' = opens + 1
    /\ Set(d, [page[d] EXCEPT !.call = "ask", !.attempts = 0,
                              !.token = IF page[d].upgraded THEN "guest" ELSE "viewer"])
    /\ UNCHANGED <<server, conn, grant, media, lefts, late, drops, moves>>

-----------------------------------------------------------------------------
(* GuestUpgrade: sync, on every event and every 2 s.                       *)

\* The microphone first; the role is read before that is awaited and used for the
\* camera after it.  Bound: one sync under way for each role.
FirstTime  == conn # Nobody /\ grant \in PubRoles /\ ~page[conn].upgraded
CanPublish == conn # Nobody /\ grant \in PubRoles
Sync ==
    /\ CanPublish /\ grant \notin acting
    /\ acting' = acting \cup {grant}
    /\ mic' = TRUE
    /\ UNCHANGED <<server, conn, grant, cam, muted, lefts, page, bounds>>

\* LiveKit publishes no camera for a permission without one; onUpgraded is last.
SetCamera(r) ==
    /\ r \in acting
    /\ acting' = acting \ {r}
    /\ cam' = (r = "guest" /\ grant = "guest")
    /\ Set(conn, [page[conn] EXCEPT !.upgraded = TRUE])
    /\ UNCHANGED <<server, conn, grant, mic, muted, lefts, bounds>>

-----------------------------------------------------------------------------
(* The host, and what the API does for it.                                 *)

Decide == moves < MaxMoves /\ moves' = moves + 1 \* bound

\* LiveKit ends the tracks a new permission does not cover.
Granted(r) ==
    /\ grant' = r
    /\ mic' = (mic /\ r # "viewer")
    /\ cam' = (cam /\ r = "guest")
    /\ muted' = (muted /\ r # "viewer")

Approve(r) ==
    /\ Decide /\ ~Publisher /\ row.state # "none"
    /\ row' = Row(r, "approved") /\ retry' = r
    /\ UNCHANGED <<over, conn, grant, media, lefts, page, late, opens, drops>>

\* The permission is tried eight times, 800 ms apart.
RetryGrants ==
    /\ retry # Nobody /\ conn # Nobody
    /\ Granted(retry) /\ retry' = Nobody
    /\ UNCHANGED <<row, over, conn, acting, lefts, page, bounds>>

RetryGivesUp ==
    /\ retry # Nobody /\ conn = Nobody
    /\ retry' = Nobody
    /\ UNCHANGED <<row, over, conn, grant, media, lefts, page, bounds>>

ChangeRole(r) ==
    /\ Decide /\ Publisher /\ row.role # r
    /\ row' = Row(r, "approved")
    /\ IF conn # Nobody THEN Granted(r) /\ retry' = retry
                      ELSE retry' = r /\ UNCHANGED <<grant, mic, cam, muted>>
    /\ UNCHANGED <<over, conn, acting, lefts, page, late, opens, drops>>

\* The pages with a token that was checked and not used.
Pending == {d \in Devices : page[d].call \in {"sign", "answer", "connect"}}

Reject ==
    /\ Decide /\ row.state = "requested"
    /\ row' = Row("viewer", "kicked")
    /\ Granted("viewer")
    /\ late' = Pending
    /\ UNCHANGED <<over, retry, conn, acting, lefts, page, opens, drops>>

\* muteParticipantAudio: the host can turn the microphone off, not on.
Mute ==
    /\ Decide /\ mic
    /\ mic' = FALSE /\ muted' = TRUE
    /\ UNCHANGED <<server, conn, grant, cam, acting, lefts, page, late, opens, drops>>

Kick ==
    /\ Decide /\ row.state # "none"
    /\ row' = Row("viewer", "kicked")
    /\ late' = Pending
    /\ IF conn # Nobody THEN Break(conn, "removed")
                      ELSE UNCHANGED <<conn, media, page, lefts>>
    /\ UNCHANGED <<over, retry, grant, opens, drops>>

\* endRoomGracefully signals ROOM_ENDING, which may be lost, before it deletes the
\* room; POST /end deletes it without.
SignalEnd ==
    /\ Decide /\ conn # Nobody /\ ~over
    /\ Set(conn, [page[conn] EXCEPT !.ending = TRUE])
    /\ UNCHANGED <<server, conn, grant, media, lefts, late, opens, drops>>

End ==
    /\ Decide /\ ~over
    /\ over' = TRUE
    /\ IF conn # Nobody THEN Break(conn, "deleted")
                      ELSE UNCHANGED <<conn, media, page, lefts>>
    /\ UNCHANGED <<row, retry, grant, late, opens, drops>>

\* markParticipantLeft, whoever is connected by then.
ParticipantLeft ==
    /\ lefts > 0
    /\ lefts' = lefts - 1
    /\ row' = IF NotKicked(row.state) THEN Row(row.role, "left") ELSE row
    /\ UNCHANGED <<over, retry, conn, grant, media, page, bounds>>

Page(d) == \/ RequestJoin(d) \/ CheckToken(d) \/ IssueToken(d) \/ TakeAnswer(d)
           \/ Reissue(d) \/ Connect(d)

Next ==
    \/ \E d \in Devices : \/ Open(d) \/ BackToForm(d) \/ PressButton(d)
                          \/ Page(d) \/ CallFails(d) \/ ConnectFails(d) \/ Drop(d)
    \/ Sync \/ RetryGrants \/ RetryGivesUp \/ ParticipantLeft
    \/ \E r \in PubRoles : SetCamera(r) \/ Approve(r) \/ ChangeRole(r)
    \/ Reject \/ Mute \/ Kick \/ SignalEnd \/ End

Spec == Init /\ [][Next]_vars

\* Calls are answered, timers fire, syncs go on, webhooks come.
Fairness ==
    /\ \A d \in Devices : WF_vars(Page(d))
    /\ WF_vars(Sync) /\ WF_vars(RetryGrants) /\ WF_vars(ParticipantLeft)
    /\ \A r \in PubRoles : WF_vars(SetCamera(r))

FairSpec == Spec /\ Fairness

-----------------------------------------------------------------------------

\* ReconnectGuard's reason to exclude DUPLICATE_IDENTITY: devices of one user do
\* not go on throwing each other out.
NoPingPong == <>[][conn' = conn]_vars

\* A page whose connection broke for a passing reason is connected again, or
\* shows why not: a button, a banner or a final state.
NotStranded ==
    \A d \in Devices :
        page[d].at = "room" /\ page[d].call = "timer"
        ~> conn = d \/ page[d].manual \/ page[d].duplicate \/ page[d].at # "room"

\* Microphone and camera end up as the permission says, whatever older sync was still
\* under way when the role changed; the microphone is on, or the host has muted it.
DevicesFollowRole ==
    <>[](conn # Nobody => /\ mic => grant \in PubRoles
                          /\ grant \in PubRoles => mic \/ muted
                          /\ cam = (grant = "guest"))

\* kick and reject: while the row says so, a page comes in only with a token that was
\* checked before and had not been used, once for each page, whatever timers, buttons,
\* other devices and late departures there are.
KickedStaysOut ==
    [][row.state = "kicked" /\ row'.state = "kicked" /\ conn' \notin {conn, Nobody}
       => conn' \in late]_vars
=============================================================================

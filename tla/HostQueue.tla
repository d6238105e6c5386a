------------------------------ MODULE HostQueue ------------------------------
(***************************************************************************)
(* The host's queue page put together with the handlers of Participation:  *)
(* what the page lists is a copy of the rows, made by refreshes that read  *)
(* at two moments and show what they read at a third, and its buttons      *)
(* start the very handlers that change the rows.                           *)
(*                                                                         *)
(* The guests here wait without a connection, so rows change by requests,  *)
(* approvals and rejections.  A refresh starts on a timer, on a            *)
(* QUEUE_UPDATED signal and after a click: at any time, therefore; one     *)
(* that fails changes nothing.  The way of a request to the server is part *)
(* of the page's being out of date.                                        *)
(***************************************************************************)
EXTENDS Participation

CONSTANTS
    Refreshes, \* refreshes that can be under way together
    Nobody,    \* busy === null
    Buttons,   \* bound: the roles the host approves to
    Asks       \* bound: the slots in which guests ask

ASSUME HostQueueAssumption ==
    /\ Nobody \notin Users /\ Buttons \subseteq PubRoles /\ Asks \subseteq Requests

VARIABLES
    requests, \* the users the page lists
    approved, \* the approved users it counts, by role
    busy,     \* the user whose buttons are off
    refresh,  \* refreshes: the GETs to come, and what the others have read
    click     \* by handler slot, the click that waits for its answer

page  == <<requests, approved, busy>>
qvars == <<vars, page, refresh, click>>

NoClick   == [user |-> Nobody, answer |-> "none"]
Counts    == [PubRoles -> 0 .. Cardinality(Users)]
NoCounts  == [r \in PubRoles |-> 0]
NoRefresh == [on |-> FALSE, todo |-> {}, requests |-> {}, approved |-> NoCounts]

QInit ==
    /\ Init
    /\ requests = {} /\ approved = NoCounts /\ busy = Nobody
    /\ refresh = [q \in Refreshes |-> NoRefresh]
    /\ click = [k \in Requests |-> NoClick]

-----------------------------------------------------------------------------
(* refresh: GET /join-requests and GET /rooms/:id, together.               *)

Waiting(u) == row[u].state = "requested"

Refresh(q) ==
    /\ ~refresh[q].on
    /\ refresh' = [refresh EXCEPT ![q] =
                     [NoRefresh EXCEPT !.on = TRUE, !.todo = {"requests", "detail"}]]
    /\ UNCHANGED <<vars, page, click>>

ReadRequests(q) ==
    /\ "requests" \in refresh[q].todo
    /\ refresh' = [refresh EXCEPT ![q].todo = @ \ {"requests"},
                                  ![q].requests = {u \in Users : Waiting(u)}]
    /\ UNCHANGED <<vars, page, click>>

ReadDetail(q) ==
    /\ "detail" \in refresh[q].todo
    /\ refresh' = [refresh EXCEPT ![q].todo = @ \ {"detail"},
                                  ![q].approved = [r \in PubRoles |-> Cardinality(Approved(r))]]
    /\ UNCHANGED <<vars, page, click>>

\* Both have answered: the page shows what they read.
AddedTo(old, read) == old \cup read
Listed(old, read)  == read
Show(q) ==
    /\ refresh[q].on /\ refresh[q].todo = {}
    /\ requests' = Listed(requests, refresh[q].requests)
    /\ approved' = refresh[q].approved
    /\ refresh' = [refresh EXCEPT ![q] = NoRefresh]
    /\ UNCHANGED <<vars, busy, click>>

-----------------------------------------------------------------------------
(* The buttons.  A row's three buttons are off while it is the busy one,   *)
(* the two of approval also when the page counts a full role.              *)

CanReject(u)     == u \in requests /\ busy # u
CanApprove(u, r) == CanReject(u) /\ approved[r] < Cap(r)

Press(k, u, answer) ==
    /\ click[k] = NoClick
    /\ click' = [click EXCEPT ![k] = [user |-> u, answer |-> answer]]
    /\ busy' = u
    /\ UNCHANGED <<requests, approved, refresh>>

\* A user who is on stage already is answered at once.
PressApprove(k, u, r) ==
    /\ CanApprove(u, r)
    /\ \/ Press(k, u, "none") /\ BeginApprove(k, u, r)
       \/ Press(k, u, "ok") /\ call[k] = Idle /\ IsPublisher(u) /\ UNCHANGED vars

PressReject(k, u) ==
    /\ CanReject(u)
    /\ Press(k, u, "none") /\ BeginReject(k, u)

\* The answer clears busy, whosever click it was; a good one drops the row.
Kept(old)     == old
Cleared(old)  == Nobody
Answered(k) ==
    /\ click[k].answer # "none"
    /\ requests' = IF click[k].answer = "ok" THEN requests \ {click[k].user} ELSE requests
    /\ busy' = Cleared(busy)
    /\ click' = [click EXCEPT ![k] = NoClick]
    /\ UNCHANGED <<vars, approved, refresh>>

-----------------------------------------------------------------------------
(* The server: a guest asks, handlers go on.                               *)

GuestAsks(k, u) ==
    /\ k \in Asks /\ click[k] = NoClick
    /\ BeginJoin(k, u)
    /\ UNCHANGED <<page, refresh, click>>

\* The handler's end is the click's answer, which may be lost; a full role
\* answers 409.
Replies(k) == IF call[k].pc = "count" THEN {"failed"} ELSE {"ok", "failed"}
Serve(k) ==
    /\ Enqueue(k) \/ CountSlots(k) \/ Approve(k) \/ ShutOut(k) \/ Revoke(k)
    /\ IF click[k] # NoClick /\ call'[k] = Idle
       THEN \E a \in Replies(k) : click' = [click EXCEPT ![k].answer = a]
       ELSE click' = click
    /\ UNCHANGED <<page, refresh>>

-----------------------------------------------------------------------------
RefreshStep(q) == Refresh(q) \/ ReadRequests(q) \/ ReadDetail(q) \/ Show(q)

QNext ==
    \/ \E q \in Refreshes : RefreshStep(q)
    \/ \E k \in Requests :
          \/ Serve(k) \/ Answered(k)
          \/ \E u \in Users :
                \/ GuestAsks(k, u) \/ PressReject(k, u)
                \/ \E r \in Buttons : PressApprove(k, u, r)

\* The timer goes on, GETs and handlers come to an answer.  Nobody has to press.
QSpec ==
    /\ QInit /\ [][QNext]_qvars
    /\ \A q \in Refreshes : WF_qvars(RefreshStep(q))
    /\ \A k \in Requests : WF_qvars(Serve(k) \/ Answered(k))

-----------------------------------------------------------------------------
(* What the page promises.                                                 *)

\* "The source of truth is GET /join-requests": the host gets to decide about a
\* guest who goes on waiting.  The row appears with its buttons on, those of
\* approval included if there is a slot, however old a refresh is when it is shown, whatever
\* clicks fail or overlap and whichever other row is busy.
HostCanDecide ==
    \A u \in Users :
        Waiting(u) ~> \/ ~Waiting(u)
                      \/ CanReject(u) /\ \A r \in Buttons : HasSlot(r) => CanApprove(u, r)

\* A row that an older refresh put back after its guest was decided on does not
\* stay: its reject button would throw an approved guest off the stage.
GhostsLeave == \A u \in Users : ~Waiting(u) ~> u \notin requests \/ Waiting(u)
=============================================================================

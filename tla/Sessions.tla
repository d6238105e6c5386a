------------------------------- MODULE Sessions -------------------------------
(***************************************************************************)
(* The session of one browser, shared by its tabs through localStorage:    *)
(* each tab makes sure there is one, asks to join a room and fetches its   *)
(* token; every call goes out with the session that is stored by then.     *)
(* A session is named after the user it was issued for.                    *)
(***************************************************************************)
EXTENDS Naturals

CONSTANTS
    Tabs,
    MaxUsers, \* bound: users the API creates for this browser
    PerMinute, \* limitPerIp of POST /auth/session
    MaxFaults  \* bound: lost answers

SessionsAssumption ==
    /\ PerMinute \in Nat \ {0} /\ {MaxUsers, MaxFaults} \subseteq Nat

Users == 1 .. MaxUsers
None  == 0

VARIABLES
    users,   \* users created so far
    expired, \* sessions older than 7 days
    minute,  \* sessions that can still be issued in this minute
    stored,  \* localStorage
    tab,     \* pc, mine: what ensureSession returned, new: what the API has issued,
             \* asked: whose join request it made, in: whose token it holds
    overlapped, \* two tabs were creating a session together
    faults

vars == <<users, expired, minute, stored, tab, overlapped, faults>>

Idle == [pc |-> "form", mine |-> None, new |-> None, asked |-> None, in |-> None]

Init ==
    /\ users = 0 /\ expired = {} /\ minute = PerMinute
    /\ stored = None
    /\ tab = [t \in Tabs |-> Idle]
    /\ overlapped = FALSE /\ faults = 0

At(t, where) == tab[t].pc = where

\* A call fails: the form is there again, with a message.
Fails(t) == tab' = [tab EXCEPT ![t] = Idle]

\* An answer that is lost fails the call at the page.
Lost(t) == faults < MaxFaults /\ faults' = faults + 1 /\ Fails(t)

-----------------------------------------------------------------------------
(* ensureSession and POST /auth/session.                                   *)

Forgotten == None
Existing  == stored

Enter(t) ==
    /\ At(t, "form")
    /\ IF Existing # None
       THEN tab' = [tab EXCEPT ![t].pc = "ask", ![t].mine = Existing] /\ UNCHANGED overlapped
       ELSE /\ tab' = [tab EXCEPT ![t].pc = "create"]
            /\ overlapped' = (overlapped \/ \E o \in Tabs \ {t} : tab[o].pc \in {"create", "created"})
    /\ UNCHANGED <<users, expired, minute, stored, faults>>

Created(t) ==
    /\ At(t, "create")
    /\ \/ /\ minute > 0 /\ users < MaxUsers
          /\ users' = users + 1 /\ minute' = minute - 1
          /\ tab' = [tab EXCEPT ![t].pc = "created", ![t].new = users + 1]
          /\ UNCHANGED faults
       \/ minute = 0 /\ Fails(t) /\ UNCHANGED <<users, minute, faults>>
       \/ Lost(t) /\ UNCHANGED <<users, minute>>
    /\ UNCHANGED <<expired, stored, overlapped>>

OnlyReturned(t) == UNCHANGED stored
SetSession(t)   == stored' = tab[t].new

Stored(t) ==
    /\ At(t, "created")
    /\ \/ /\ SetSession(t)
          /\ tab' = [tab EXCEPT ![t].pc = "ask", ![t].mine = tab[t].new]
          /\ UNCHANGED faults
       \/ Lost(t) /\ UNCHANGED stored
    /\ UNCHANGED <<users, expired, minute, overlapped>>

-----------------------------------------------------------------------------
(* The calls of the join page, each as the user of the stored session.     *)

\* authGuard: verifySession refuses what has expired, with 401.
Verified == stored # None /\ stored \notin expired

Ask(t) ==
    /\ At(t, "ask")
    /\ \/ /\ Verified
          /\ tab' = [tab EXCEPT ![t].pc = "token", ![t].asked = stored]
          /\ UNCHANGED faults
       \/ ~Verified /\ Fails(t) /\ UNCHANGED faults
       \/ Lost(t)
    /\ UNCHANGED <<users, expired, minute, stored, overlapped>>

Token(t) ==
    /\ At(t, "token")
    /\ \/ /\ Verified
          /\ tab' = [tab EXCEPT ![t].pc = "in", ![t].in = stored]
          /\ UNCHANGED faults
       \/ ~Verified /\ Fails(t) /\ UNCHANGED faults
       \/ Lost(t)
    /\ UNCHANGED <<users, expired, minute, stored, overlapped>>

-----------------------------------------------------------------------------
(* Time.                                                                   *)

NextMinute ==
    /\ minute < PerMinute /\ minute' = PerMinute
    /\ UNCHANGED <<users, expired, stored, tab, overlapped, faults>>

Expires(u) ==
    /\ u \in 1 .. users \ expired
    /\ expired' = expired \cup {u}
    /\ UNCHANGED <<users, minute, stored, tab, overlapped, faults>>

Next ==
    \/ \E t \in Tabs : Enter(t) \/ Created(t) \/ Stored(t) \/ Ask(t) \/ Token(t)
    \/ NextMinute
    \/ \E u \in Users : Expires(u)

Spec == Init /\ [][Next]_vars

\* Requests are served or fail, minutes pass, and users try again.
Fairness ==
    /\ WF_vars(NextMinute)
    /\ \A t \in Tabs :
          /\ WF_vars(Enter(t)) /\ WF_vars(Created(t)) /\ WF_vars(Stored(t))
          /\ WF_vars(Ask(t)) /\ WF_vars(Token(t))

FairSpec == Spec /\ Fairness
-----------------------------------------------------------------------------

\* The token of a tab is for the user that it asked to join as, and that
\* ensureSession gave it, unless two tabs were creating their first session at the
\* same time.
SameUser == \A t \in Tabs :
    ~overlapped /\ At(t, "in") => tab[t].in = tab[t].asked /\ tab[t].in = tab[t].mine

\* Who tries again gets in, over lost answers and the limit on new sessions, while
\* no session expires.
GetsIn == \A t \in Tabs : <>(At(t, "in") \/ expired # {})
=============================================================================

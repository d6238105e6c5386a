------------------------------ MODULE HostAlerts ------------------------------
(***************************************************************************)
(* The warnings on the host's tiles: every page reports every 10 s what    *)
(* audio it hears, the API keeps the time of the last report and of every  *)
(* missing track, and the host's page asks every 10 s who is to be looked  *)
(* at.  A step of Tick is 10 s; reports and polls that are due come before *)
(* the next one, answers whenever they like.                               *)
(*                                                                         *)
(* What a report is compared with is AudioReach's subject; here a page     *)
(* hears all the tracks or not.                                            *)
(***************************************************************************)
EXTENDS Naturals, Sequences

CONSTANTS
    Users,
    Polls,     \* GET /alerts that can be under way together
    Old,       \* ALERT_THRESHOLD_MS in ticks
    MaxMoves,  \* bound: joins, departures, pages that stop or stop hearing
    MaxFaults  \* bound: lost reports and answers

HostAlertsAssumption ==
    /\ Old \in Nat \ {0} /\ {MaxMoves, MaxFaults} \subseteq Nat

VARIABLES
    inRoom,
    stuck,       \* pages that send no reports (a tab put to sleep, a dead network)
    deaf,        \* pages that miss a track
    due,         \* reports this tick still owes
    hooks,       \* webhooks to come
    present,     \* Redis: presence,
    lastReport,  \* ages of the last reports,
    alerts,      \* and of the alerts
    poll,        \* the polls: what they have read
    pollDue,
    shown,       \* whom the last answer was about
    moves, faults

api    == <<present, lastReport, alerts>>
client == <<inRoom, stuck, deaf>>
host   == <<poll, pollDue, shown>>
vars   == <<client, due, hooks, api, host, moves, faults>>

Never  == Old + 1
Older(a) == IF a < Old THEN a + 1 ELSE a
IsOld(a) == a = Old

Init ==
    /\ inRoom = {} /\ stuck = {} /\ deaf = {} /\ due = {} /\ hooks = <<>>
    /\ present = {}
    /\ lastReport = [u \in Users |-> Never] /\ alerts = [u \in Users |-> Never]
    /\ poll = [p \in Polls |-> [pc |-> "idle", who |-> {}]]
    /\ pollDue = TRUE /\ shown = {}
    /\ moves = 0 /\ faults = 0

Fault == faults < MaxFaults /\ faults' = faults + 1
Move  == moves < MaxMoves /\ moves' = moves + 1

-----------------------------------------------------------------------------
(* The participants.                                                       *)

\* The interval of the page starts with the page: its first report is 10 s away.
Join(u) ==
    /\ Move /\ u \notin inRoom
    /\ inRoom' = inRoom \cup {u}
    /\ hooks' = Append(hooks, [event |-> "joined", who |-> u])
    /\ UNCHANGED <<stuck, deaf, due, api, host, faults>>

\* A report that is under way outlives the page.
Leave(u) ==
    /\ Move /\ u \in inRoom
    /\ inRoom' = inRoom \ {u}
    /\ stuck' = stuck \ {u} /\ deaf' = deaf \ {u}
    /\ hooks' = Append(hooks, [event |-> "left", who |-> u])
    /\ UNCHANGED <<due, api, host, faults>>

Toggled(set, u) == IF u \in set THEN set \ {u} ELSE set \cup {u}
PageChanges(u) ==
    /\ Move /\ u \in inRoom
    /\ \/ stuck' = Toggled(stuck, u) /\ UNCHANGED deaf
       \/ deaf' = Toggled(deaf, u) /\ UNCHANGED stuck
    /\ UNCHANGED <<inRoom, due, hooks, api, host, faults>>

\* POST /audio-report, as far as it is kept: its time, and an alert at the first
\* report that misses the track (hsetnx) until one has it.
Judged(u) ==
    IF u \notin deaf THEN [alerts EXCEPT ![u] = Never]
    ELSE IF alerts[u] = Never THEN [alerts EXCEPT ![u] = 0] ELSE alerts

Report(u) ==
    /\ u \in due /\ due' = due \ {u}
    /\ \/ /\ lastReport' = [lastReport EXCEPT ![u] = 0]
          /\ alerts' = Judged(u)
          /\ UNCHANGED <<present, faults>>
       \/ Fault /\ UNCHANGED api
    /\ UNCHANGED <<client, hooks, host, moves>>

\* participant_joined; participant_left with clearAlertsForReceiver.
Hook ==
    /\ hooks # <<>> /\ hooks' = Tail(hooks)
    /\ LET u == Head(hooks).who
       IN  IF Head(hooks).event = "joined"
           THEN present' = present \cup {u} /\ UNCHANGED <<lastReport, alerts>>
           ELSE /\ present' = present \ {u}
                /\ lastReport' = [lastReport EXCEPT ![u] = Never]
                /\ alerts' = [alerts EXCEPT ![u] = Never]
    /\ UNCHANGED <<client, due, host, moves, faults>>

Tick ==
    /\ due = {} /\ ~pollDue
    /\ due' = inRoom \ stuck /\ pollDue' = TRUE
    /\ lastReport' = [u \in Users |-> Older(lastReport[u])]
    /\ alerts' = [u \in Users |-> Older(alerts[u])]
    /\ UNCHANGED <<inRoom, stuck, deaf, hooks, present, poll, shown, moves, faults>>

-----------------------------------------------------------------------------
(* The host's page and GET /alerts.                                        *)

\* The route reads who is present, then the ages; the answer comes later, or not.
\* A poll that finds all the slots taken is left out.
PollStarts ==
    /\ pollDue /\ pollDue' = FALSE
    /\ \/ \E p \in Polls :
             /\ poll[p].pc = "idle"
             /\ poll' = [poll EXCEPT ![p] = [pc |-> "present", who |-> present]]
       \/ (\A p \in Polls : poll[p].pc # "idle") /\ UNCHANGED poll
    /\ UNCHANGED <<client, due, hooks, api, shown, moves, faults>>

ReportedOnce(a) == IsOld(a)
Stale(a)        == IsOld(a) \/ a = Never

StaleReports(who) == {u \in who : Stale(lastReport[u])}
Missing           == {u \in Users : IsOld(alerts[u])}

Evaluate(p) ==
    /\ poll[p].pc = "present"
    /\ poll' = [poll EXCEPT ![p] =
          [pc |-> "answer", who |-> Missing \cup StaleReports(poll[p].who)]]
    /\ UNCHANGED <<client, due, hooks, api, pollDue, shown, moves, faults>>

Answer(p) ==
    /\ poll[p].pc = "answer"
    /\ poll' = [poll EXCEPT ![p] = [pc |-> "idle", who |-> {}]]
    /\ \/ shown' = poll[p].who /\ UNCHANGED faults
       \/ Fault /\ UNCHANGED shown
    /\ UNCHANGED <<client, due, hooks, api, pollDue, moves>>

\* A tile, a chip and a row of the list are marked by nickname; here no two users
\* have the same.
Warned(u) == u \in inRoom /\ u \in shown

Next ==
    \/ \E u \in Users : Join(u) \/ Leave(u) \/ PageChanges(u) \/ Report(u)
    \/ Hook \/ Tick \/ PollStarts
    \/ \E p \in Polls : Evaluate(p) \/ Answer(p)

Spec == Init /\ [][Next]_vars

\* Timers fire, and requests are served or fail.
Fairness ==
    /\ WF_vars(Tick) /\ WF_vars(Hook) /\ WF_vars(PollStarts)
    /\ \A u \in Users : WF_vars(Report(u))
    /\ \A p \in Polls : WF_vars(Evaluate(p)) /\ WF_vars(Answer(p))

FairSpec == Spec /\ Fairness

-----------------------------------------------------------------------------

\* A participant who stays in the room and whose page reports nothing, or who
\* stays without a track, is marked in the end and stays marked: also one that
\* never reported, and although polls overlap and answers get lost.
SilenceShown == \A u \in Users :
    <>[](u \in inRoom /\ u \in stuck \cup deaf) => <>[]Warned(u)

\* The mark goes, and stays away, once the page reports and hears everything.
WarningGoes == \A u \in Users :
    <>[](u \in inRoom /\ u \notin stuck \cup deaf) => <>[]~Warned(u)

\* The host's marks end up where they belong.
MarksFollow == SilenceShown /\ WarningGoes
=============================================================================

------------------------------- MODULE MCAudio -------------------------------
(***************************************************************************)
(* What is heard, for TLC: a participant's microphone (Microphone), how a  *)
(* receiver's alerts come about (AudioReach, which this module extends),   *)
(* how they reach the host (HostAlerts), and the host's tiles with their   *)
(* audio badges (HostStage).  They share no state here, so one run looks   *)
(* at them side by side: in each behaviour one of them moves.              *)
(***************************************************************************)
EXTENDS AudioReach

CONSTANTS
    tx,                                \* of AudioReach: whose the tracks are
    Viewers, Polls, Old, MaxMoves,     \* of HostAlerts
    Syncs, Mutes, MaxPubs, MaxActs,    \* of Microphone
    NoOne, People, Host, PageSize, MaxChanges \* of HostStage

\* The receiver is told of another's tracks.
MCOwner == [t \in Tracks |-> tx]

VARIABLES
    part, \* the component that moves
    there, stuck, deaf, due, hooks, present, lastReport, ages, poll, pollDue, shown, moves,
    alertFaults,
    mounted, grant, track, muted, cam, pubs, sync, banner, mute, acts,
    cameras, role, mic, hears, loud, changes, spotlight, page, listens, badge, ask, calls

marks == <<there, stuck, deaf, due, hooks, present, lastReport, ages, poll, pollDue, shown,
           moves, alertFaults>>
voice == <<mounted, grant, track, muted, cam, pubs, sync, banner, mute, acts>>
tiles == <<cameras, role, mic, hears, loud, changes, spotlight, page, listens, badge, ask, calls>>

H == INSTANCE HostAlerts
        WITH Users <- Viewers, inRoom <- there, alerts <- ages, faults <- alertFaults
M == INSTANCE Microphone WITH mic <- track
S == INSTANCE HostStage WITH None <- NoOne

ASSUME HearingAssumption == H!HostAlertsAssumption /\ M!MicrophoneAssumption /\ S!HostStageAssumption

AudioInit ==
    /\ part \in {"reach", "alerts", "mic", "stage"}
    /\ Init /\ H!Init /\ M!Init /\ S!Init

AudioNext ==
    \/ part = "reach" /\ Next /\ UNCHANGED <<part, marks, voice, tiles>>
    \/ part = "alerts" /\ H!Next /\ UNCHANGED <<part, vars, voice, tiles>>
    \/ part = "mic" /\ M!Next /\ UNCHANGED <<part, vars, marks, tiles>>
    \/ part = "stage" /\ S!Next /\ UNCHANGED <<part, vars, marks, voice>>

\* The Fairness of the two modules that have it, for the one that moves.
Reach  == part = "reach"
Alerts == part = "alerts"
AudioSpec ==
    /\ AudioInit /\ [][AudioNext]_<<part, vars, marks, voice, tiles>>
    /\ WF_vars(Reach /\ (HookStarts \/ HookStep))
    /\ \A p \in Reports : WF_vars(Reach /\ Reporting(p))
    /\ WF_marks(Alerts /\ H!Tick) /\ WF_marks(Alerts /\ H!Hook)
    /\ WF_marks(Alerts /\ H!PollStarts)
    /\ \A u \in Viewers : WF_marks(Alerts /\ H!Report(u))
    /\ \A q \in Polls : WF_marks(Alerts /\ H!Evaluate(q)) /\ WF_marks(Alerts /\ H!Answer(q))

-----------------------------------------------------------------------------
\* The host's marks end up on those who are silent or unheard, and on nobody else
\* (HostAlerts).
MarksFollow == H!MarksFollow

\* The banner says whether the microphone is muted (Microphone).
BannerTrue == M!BannerTrue

\* The big tile's badge is that of whom it shows (HostStage).
BadgeTrue == S!BadgeTrue

\* The kick goes to whom the dialog named (HostStage).
KickAsAsked == S!KickAsAsked
=============================================================================

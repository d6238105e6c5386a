-------------------------------- MODULE Egress --------------------------------
(***************************************************************************)
(* HLS broadcasting (viewer mode B) of one room: the egress that LiveKit   *)
(* runs, what the room's row says of it, the start at the host's join, the *)
(* two ways to stop, the fall-back to WebRTC, and one viewer's player.     *)
(*                                                                         *)
(* One action is the code between two awaits.  How the room comes to its   *)
(* end is RoomLifecycle's subject: here POST /end stops the egress and     *)
(* deletes the LiveKit room, and everything else that closes it (sweepers, *)
(* empty timeout) is the action RoomCloses.                                *)
(***************************************************************************)
EXTENDS Naturals, Sequences, SequencesExt

CONSTANTS
    Starts,      \* ensureEgressStarted calls that can be under way
    Runs, NoRun, \* ids of egresses, and NULL
    InOrder,     \* are webhooks handled one at a time, in the order of events
    Serial,      \* is a start's first write done before the next webhook
    Prompt,      \* is LiveKit's answer to a start handled before its webhooks
    MaxJoins,    \* bound: connections of the host
    MaxFaults    \* bound: timeouts, failing calls and handlers, restarts of the API

ASSUME EgressAssumption ==
    /\ NoRun \notin Runs
    /\ {InOrder, Serial, Prompt} \subseteq BOOLEAN
    /\ MaxJoins \in Nat /\ MaxFaults \in Nat

VARIABLES
    mode, est, eid, \* rooms.viewer_mode, egress_status, egress_id
    status,         \* rooms.status
    lk, hostOn,     \* is there a LiveKit room, is the host connected to it
    run,            \* LiveKit's egresses
    hooks,          \* webhooks sent and not handled, in the order of events
    start,          \* ensureEgressStarted calls
    stop,           \* stopEgressForRoom and what follows, by POST /end and room_finished
    viewer,         \* a viewer's page
    joins, faults

row     == <<mode, est, eid>>
livekit == <<lk, hostOn>>
bounds  == <<joins, faults>>
vars    == <<mode, est, eid, status, lk, hostOn, run, hooks, start, stop, viewer,
             joins, faults>>

Stoppers  == {"end", "finished"}
Alive     == {"starting", "active", "stopping"}
RoomHooks == {"joined", "finished"}
RunHooks  == {"active", "complete", "failed"}
Hook(e, r) == [event |-> e, egress |-> r]
At(p, r)   == [pc |-> p, egress |-> r]
Idle       == At("idle", NoRun)

NoFault == faults' = faults
Fault   == faults < MaxFaults /\ faults' = faults + 1

TypeOK ==
    /\ mode \in {"hls", "webrtc"}
    /\ est \in {"none", "starting", "active", "ending", "failed"}
    /\ eid \in Runs \cup {NoRun}
    /\ status \in {"live", "ended"}
    /\ lk \in BOOLEAN /\ hostOn \in BOOLEAN
    /\ run \in [Runs -> Alive \cup {"unused", "complete", "failed"}]
    /\ hooks \in Seq([event : RoomHooks, egress : {NoRun}]
                       \cup [event : RunHooks, egress : Runs])
    /\ start \in [Starts -> [pc : {"idle", "write", "livekit", "fallback"}, egress : {NoRun}]
                             \cup [pc : {"record"}, egress : Runs]]
    /\ stop \in [Stoppers -> [pc : {"idle", "read", "forget", "record", "delete"},
                              egress : {NoRun}] \cup [pc : {"stop"}, egress : Runs]]
    /\ viewer \in {"away", "waiting", "playing", "webrtc"}
    /\ joins \in 0 .. MaxJoins /\ faults \in 0 .. MaxFaults

\* A room in mode B whose host has a token: POST /rooms and POST /token are done.
Init ==
    /\ mode = "hls" /\ est = "none" /\ eid = NoRun /\ status = "live"
    /\ lk = TRUE /\ hostOn = FALSE
    /\ run = [r \in Runs |-> "unused"]
    /\ hooks = << >>
    /\ start = [k \in Starts |-> Idle]
    /\ stop = [o \in Stoppers |-> Idle]
    /\ viewer = "away"
    /\ joins = 0 /\ faults = 0

-----------------------------------------------------------------------------
(* Operations on the row.                                                  *)

SetEgressState(s)      == est' = s /\ UNCHANGED <<mode, eid>>
IdIgnored(s, r)        == est' = s /\ UNCHANGED <<mode, eid>>
SetEgressIdState(s, r) == est' = s /\ eid' = r /\ mode' = mode

ModeOnly         == mode' = "webrtc" /\ UNCHANGED <<est, eid>>
FallbackToWebrtc == mode' = "webrtc" /\ est' = "failed" /\ eid' = NoRun

-----------------------------------------------------------------------------
(* ensureEgressStarted, called from participant_joined and not awaited.    *)

\* Is an egress called for?  HlsMode is the first condition alone.
HlsMode == mode = "hls"
Wanted  == mode = "hls" /\ est = "none"

StartAt(k, p)   == start[k].pc = p
StartTo(k, p, r) == start' = [start EXCEPT ![k] = At(p, r)]

WriteStarting(k) ==
    /\ StartAt(k, "write")
    /\ SetEgressState("starting")
    /\ StartTo(k, "livekit", NoRun)
    /\ UNCHANGED <<status, livekit, run, hooks, stop, viewer, bounds>>

\* startHlsEgress: LiveKit starts an egress, or refuses.  With a timeout it starts
\* one whose id the caller never learns.
CallLiveKit(k) ==
    /\ StartAt(k, "livekit")
    /\ \/ \E r \in Runs :
            /\ run[r] = "unused"
            /\ run' = [run EXCEPT ![r] = "starting"]
            /\ \/ NoFault /\ StartTo(k, "record", r)
               \/ Fault /\ StartTo(k, "fallback", NoRun)
       \/ NoFault /\ run' = run /\ StartTo(k, "fallback", NoRun)
    /\ UNCHANGED <<row, status, livekit, hooks, stop, viewer, joins>>

RecordId(k) ==
    /\ StartAt(k, "record")
    /\ SetEgressIdState("starting", start[k].egress)
    /\ StartTo(k, "idle", NoRun)
    /\ UNCHANGED <<status, livekit, run, hooks, stop, viewer, bounds>>

\* notifyFallback; the host's banner changes nothing else.
StartFallsBack(k) ==
    /\ StartAt(k, "fallback")
    /\ FallbackToWebrtc
    /\ StartTo(k, "idle", NoRun)
    /\ UNCHANGED <<status, livekit, run, hooks, stop, viewer, bounds>>

-----------------------------------------------------------------------------
(* stopEgressForRoom, and the end of the room it is part of.               *)

StopAt(o, p)    == stop[o].pc = p
StopTo(o, p, r) == stop' = [stop EXCEPT ![o] = At(p, r)]

BeginEnd ==
    /\ StopAt("end", "idle")
    /\ StopTo("end", "read", NoRun)
    /\ UNCHANGED <<row, status, livekit, run, hooks, start, viewer, bounds>>

\* getEgressId
ReadId(o) ==
    /\ StopAt(o, "read")
    /\ IF eid = NoRun THEN StopTo(o, "forget", NoRun) ELSE StopTo(o, "stop", eid)
    /\ UNCHANGED <<row, status, livekit, run, hooks, start, viewer, bounds>>

\* stopHlsEgress: an egress that is over is left as it is, errors are ignored.
Stopped(r) == IF run[r] \in Alive THEN [run EXCEPT ![r] = "stopping"] ELSE run

StopEgress(o) ==
    /\ StopAt(o, "stop")
    /\ \/ NoFault /\ run' = Stopped(stop[o].egress)
       \/ Fault /\ run' = run
    /\ StopTo(o, "forget", NoRun)
    /\ UNCHANGED <<row, status, livekit, hooks, start, viewer, joins>>

ForgetId(o) ==
    /\ StopAt(o, "forget")
    /\ SetEgressIdState("ending", NoRun)
    /\ StopTo(o, "record", NoRun)
    /\ UNCHANGED <<status, livekit, run, hooks, start, viewer, bounds>>

\* endRoomRecord, or markRoomEnded
RecordEnd(o) ==
    /\ StopAt(o, "record")
    /\ status' = "ended"
    /\ StopTo(o, IF o = "end" THEN "delete" ELSE "idle", NoRun)
    /\ UNCHANGED <<row, livekit, run, hooks, start, viewer, bounds>>

CloseRoom ==
    /\ lk' = FALSE /\ hostOn' = FALSE
    /\ hooks' = Append(hooks, Hook("finished", NoRun))

DeleteRoom ==
    /\ StopAt("end", "delete")
    /\ \/ lk /\ CloseRoom /\ NoFault
       \/ UNCHANGED <<livekit, hooks>> /\ IF lk THEN Fault ELSE NoFault
    /\ StopTo("end", "idle", NoRun)
    /\ UNCHANGED <<row, status, run, start, viewer, joins>>

-----------------------------------------------------------------------------
(* Webhooks.                                                               *)

\* The i-th pending webhook, of event e, can be taken up.
Turn(i, e) ==
    /\ i \in DOMAIN hooks
    /\ InOrder => i = 1 /\ StopAt("finished", "idle")
    /\ Serial => \A k \in Starts : ~StartAt(k, "write")
    /\ Prompt => \A k \in Starts :
                    StartAt(k, "record") => start[k].egress # hooks[i].egress
    /\ hooks[i].event = e

Done(i) == hooks' = RemoveAt(hooks, i)

\* participant_joined of the host: the row it reads decides about the start.
HostJoined(i) ==
    /\ Turn(i, "joined")
    /\ IF Wanted
       THEN \E k \in Starts : StartAt(k, "idle") /\ StartTo(k, "write", NoRun)
       ELSE start' = start
    /\ Done(i)
    /\ UNCHANGED <<row, status, livekit, run, stop, viewer, bounds>>

RoomFinished(i) ==
    /\ Turn(i, "finished")
    /\ StopAt("finished", "idle")
    /\ StopTo("finished", "read", NoRun)
    /\ Done(i)
    /\ UNCHANGED <<row, status, livekit, run, start, viewer, bounds>>

ActiveIgnored(i) ==
    /\ Turn(i, "active")
    /\ Done(i)
    /\ UNCHANGED <<row, status, livekit, run, start, stop, viewer, bounds>>

EgressActive(i) ==
    /\ Turn(i, "active")
    /\ SetEgressIdState("active", hooks[i].egress)
    /\ Done(i)
    /\ UNCHANGED <<status, livekit, run, start, stop, viewer, bounds>>

EgressComplete(i) ==
    /\ Turn(i, "complete")
    /\ SetEgressIdState("none", NoRun)
    /\ Done(i)
    /\ UNCHANGED <<status, livekit, run, start, stop, viewer, bounds>>

EgressFailed(i) ==
    /\ Turn(i, "failed")
    /\ FallbackToWebrtc
    /\ Done(i)
    /\ UNCHANGED <<status, livekit, run, start, stop, viewer, bounds>>

\* The handler throws and the answer is 200 nevertheless.
HookLost(i) ==
    /\ Fault
    /\ i \in DOMAIN hooks
    /\ Done(i)
    /\ UNCHANGED <<row, status, livekit, run, start, stop, viewer, joins>>

-----------------------------------------------------------------------------
(* LiveKit, the host, the viewer.                                          *)

HostConnects ==
    /\ lk /\ ~hostOn /\ joins < MaxJoins
    /\ hostOn' = TRUE
    /\ hooks' = Append(hooks, Hook("joined", NoRun))
    /\ joins' = joins + 1
    /\ UNCHANGED <<row, status, lk, run, start, stop, viewer, faults>>

HostLeaves ==
    /\ hostOn
    /\ hostOn' = FALSE
    /\ UNCHANGED <<row, status, lk, run, hooks, start, stop, viewer, bounds>>

\* The sweepers delete the room, or it is empty for too long.
RoomCloses ==
    /\ lk /\ CloseRoom
    /\ UNCHANGED <<row, status, run, start, stop, viewer, bounds>>

RunTo(r, s, e) ==
    /\ run' = [run EXCEPT ![r] = s]
    /\ hooks' = Append(hooks, Hook(e, r))
    /\ UNCHANGED <<row, status, livekit, start, stop, viewer, bounds>>

RunActivates(r) == run[r] = "starting" /\ lk /\ RunTo(r, "active", "active")
RunFails(r)     == run[r] \in {"starting", "active"} /\ RunTo(r, "failed", "failed")

\* An egress that was stopped, or whose room is gone, comes to its end.
RunCompletes(r) ==
    /\ run[r] = "stopping" \/ (run[r] = "active" /\ ~lk)
    /\ RunTo(r, "complete", "complete")

Enter ==
    /\ viewer = "away" /\ status # "ended"
    /\ viewer' = IF mode = "hls" THEN "waiting" ELSE "webrtc"
    /\ UNCHANGED <<row, status, livekit, run, hooks, start, stop, bounds>>

\* GET /hls: is there a playlist to play?  The player asks every 4 s.
Playlist == mode = "hls" /\ est = "active"
Poll ==
    /\ viewer = "waiting" /\ Playlist
    /\ viewer' = "playing"
    /\ UNCHANGED <<row, status, livekit, run, hooks, start, stop, bounds>>

\* The API restarts; room_finished, if it was being handled, is sent again.
Restart ==
    /\ Fault
    /\ start' = [k \in Starts |-> Idle]
    /\ stop' = [o \in Stoppers |-> Idle]
    /\ hooks' = IF StopAt("finished", "idle") THEN hooks
                ELSE <<Hook("finished", NoRun)>> \o hooks
    /\ UNCHANGED <<row, status, livekit, run, viewer, joins>>

-----------------------------------------------------------------------------
Start(k) == WriteStarting(k) \/ CallLiveKit(k) \/ RecordId(k) \/ StartFallsBack(k)

Stop(o) == ReadId(o) \/ StopEgress(o) \/ ForgetId(o) \/ RecordEnd(o)

Webhook(i) ==
    \/ HostJoined(i) \/ RoomFinished(i)
    \/ EgressActive(i) \/ EgressComplete(i) \/ EgressFailed(i)

RunEnds(r) == RunActivates(r) \/ RunCompletes(r) \/ (~lk /\ RunFails(r))

People == HostConnects \/ HostLeaves \/ BeginEnd \/ Enter \/ Poll

Next ==
    \/ People \/ DeleteRoom \/ RoomCloses \/ Restart
    \/ \E k \in Starts : Start(k)
    \/ \E o \in Stoppers : Stop(o)
    \/ \E i \in DOMAIN hooks : Webhook(i) \/ HookLost(i)
    \/ \E r \in Runs : RunActivates(r) \/ RunFails(r) \/ RunCompletes(r)

Spec == Init /\ [][Next]_vars

\* Node runs continuations, LiveKit delivers webhooks and carries an egress on
\* (to its end when the room is gone), a player polls.  Nobody has to join, leave
\* or end, and nothing has to fail.
Fairness ==
    /\ \A k \in Starts : WF_vars(Start(k))
    /\ \A o \in Stoppers : WF_vars(Stop(o))
    /\ WF_vars(DeleteRoom)
    /\ WF_vars(\E i \in DOMAIN hooks : Webhook(i))
    /\ \A r \in Runs : WF_vars(RunEnds(r))
    /\ WF_vars(Poll)

FairSpec == Spec /\ Fairness

-----------------------------------------------------------------------------
(* What the egress code promises.                                          *)

\* ensureEgressStarted, "start if there is no egress yet": no two egresses of the
\* room are alive together, over rejoins, late and lost webhooks, timeouts, stops
\* and restarts, provided the starts themselves do not overlap (Serial).
OneEgress ==
    \A r, s \in Runs : run[r] \in Alive /\ run[s] \in Alive => r = s

Settled ==
    /\ hooks = << >>
    /\ \A k \in Starts : start[k] = Idle
    /\ \A o \in Stoppers : stop[o] = Idle

\* The row and LiveKit agree when nothing is under way in a live room: a running
\* egress is known by its id, so that it can be stopped, and the playlist that
\* /hls offers is one of an egress that runs.
EgressKnown ==
    Settled /\ status = "live" /\ faults = 0 =>
        /\ \A r \in Runs : run[r] = "active" => eid = r /\ est = "active"
        /\ Playlist => eid \in Runs /\ run[eid] = "active"

\* An egress that runs reaches the viewer who waits for it, from LiveKit through
\* webhook, row and poll, unless it ends, the room falls back, it is being ended or
\* a call or webhook is lost.
EgressReachesViewer ==
    \A r \in Runs :
        run[r] = "active" /\ viewer = "waiting" ~>
            viewer = "playing" \/ run[r] # "active" \/ mode = "webrtc" \/ est = "ending"
            \/ faults > 0

\* stopEgressForRoom: once the LiveKit room is gone, the egress goes as well, and
\* the row stops telling viewers of it, for good.
Quiet == est \notin {"starting", "active"} /\ \A r \in Runs : run[r] \notin Alive
NothingOutlivesRoom == ~lk ~> [](Quiet \/ faults > 0)
=============================================================================

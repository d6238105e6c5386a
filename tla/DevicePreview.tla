---------------------------- MODULE DevicePreview ----------------------------
(***************************************************************************)
(* The camera and microphone preview of the join form.  Every mounting,    *)
(* change of device and retry starts a run of one effect, which asks for a *)
(* stream, then lists the devices, then meters the microphone; the answers *)
(* of earlier runs may come at any later time.  Which devices are asked    *)
(* for makes no difference here; a stream is named after its run.          *)
(***************************************************************************)
EXTENDS Naturals

CONSTANT MaxRuns \* bound: runs of the effect

DevicePreviewAssumption == MaxRuns \in Nat

Runs == 1 .. MaxRuns
None == 0

VARIABLES
    mounted,
    run,     \* the latest run; earlier ones, and all once unmounted, are cancelled
    pc,      \* what each run waits for
    stream,  \* streamRef
    live,    \* streams whose tracks are not stopped
    meters,  \* runs whose AudioContext and animation loop are alive
    denied,
    video,   \* the stream the <video> element shows, if there is one
    listed   \* are there devices to choose from

vars == <<mounted, run, pc, stream, live, meters, denied, video, listed>>

Init ==
    /\ mounted = FALSE /\ run = None
    /\ pc = [r \in Runs |-> "idle"]
    /\ stream = None /\ live = {} /\ meters = {}
    /\ denied = FALSE /\ video = None /\ listed = FALSE

Cancelled(r) == ~mounted \/ r # run

StopTracks(s) == live' = live \ {s}

ForgetsStream == stream' = None /\ meters' = meters \ {run} /\ UNCHANGED live
\* What the effect's return value does to the run that ends; the next one's
\* first lines stop streamRef as well, which by then is empty.
Cleanup ==
    /\ StopTracks(stream)
    /\ stream' = None
    /\ meters' = meters \ {run}

\* A new run, whose getUserMedia is under way.
Start ==
    /\ run < MaxRuns
    /\ run' = run + 1
    /\ pc' = [pc EXCEPT ![run + 1] = "asking"]

Mount ==
    /\ ~mounted
    /\ mounted' = TRUE
    /\ Start
    /\ denied' = FALSE /\ video' = None /\ listed' = FALSE
    /\ UNCHANGED <<stream, live, meters>>

\* The form gives way to the waiting room, or the page is left.
Unmount ==
    /\ mounted
    /\ mounted' = FALSE
    /\ Cleanup
    /\ video' = None
    /\ UNCHANGED <<run, pc, denied, listed>>

SelectDevice ==
    /\ mounted /\ ~denied /\ listed
    /\ Cleanup
    /\ Start
    /\ UNCHANGED <<mounted, denied, video, listed>>

Retry ==
    /\ mounted /\ denied
    /\ Cleanup
    /\ Start
    /\ UNCHANGED <<mounted, denied, video, listed>>

\* getUserMedia answers with a stream.
Granted(r) ==
    /\ pc[r] = "asking"
    /\ IF Cancelled(r)
       THEN /\ pc' = [pc EXCEPT ![r] = "done"]
            /\ UNCHANGED <<stream, live, denied, video>>
       ELSE /\ pc' = [pc EXCEPT ![r] = "listing"]
            /\ stream' = r
            /\ live' = live \cup {r}
            /\ denied' = FALSE
            /\ video' = IF denied THEN None ELSE r \* no element to show it in yet
    /\ UNCHANGED <<mounted, run, meters, listed>>

\* enumerateDevices answers; the meter may not start, which is not an error.
Listed(r) ==
    /\ pc[r] = "listing"
    /\ pc' = [pc EXCEPT ![r] = "done"]
    /\ IF Cancelled(r)
       THEN UNCHANGED <<listed, meters>>
       ELSE /\ listed' = TRUE
            /\ meters' \in {meters, meters \cup {r}}
    /\ UNCHANGED <<mounted, run, stream, live, denied, video>>

\* Either call is refused: without permission, device or document.
Refused(r) ==
    /\ pc[r] \in {"asking", "listing"}
    /\ pc' = [pc EXCEPT ![r] = "done"]
    /\ IF Cancelled(r)
       THEN UNCHANGED <<denied, video>>
       ELSE denied' = TRUE /\ video' = None \* the element is gone
    /\ UNCHANGED <<mounted, run, stream, live, meters, listed>>

Next ==
    \/ Mount \/ Unmount
    \/ SelectDevice \/ Retry
    \/ \E r \in Runs : Granted(r) \/ Listed(r) \/ Refused(r)

Spec == Init /\ [][Next]_vars

TypeOK ==
    /\ {mounted, denied, listed} \subseteq BOOLEAN
    /\ run \in 0 .. MaxRuns
    /\ pc \in [Runs -> {"idle", "asking", "listing", "done"}]
    /\ {stream, video} \subseteq Runs \cup {None}
    /\ live \subseteq Runs /\ meters \subseteq Runs
-----------------------------------------------------------------------------
\* Once the preview is gone no camera or microphone stays on and nothing reads
\* one, also when the browser grants a request after the guest has left.
NothingLeftOn == ~mounted => live = {} /\ meters = {}

\* A guest who changes devices faster than the browser answers has at most the
\* latest choice open, and nothing is open when the next one is asked for:
\* a device that is still held would refuse the new request.
DevicesHandedOver ==
    /\ live \subseteq {run}
    /\ mounted /\ pc[run] = "asking" => live = {}

\* The level meter never goes on reading a microphone that was stopped.
MeterHasStream == meters \subseteq live

\* The preview's devices: whatever order mountings, choices and the browser's answers
\* come in, only the current run holds any, and only while it is on the screen.
DevicesReleased == NothingLeftOn /\ DevicesHandedOver /\ MeterHasStream
=============================================================================

----------------------------- MODULE AudioReach -----------------------------
(***************************************************************************)
(* Whether everyone hears everyone: one receiver of a room reports every   *)
(* 10 s which audio tracks it is subscribed to; the API compares that with *)
(* the tracks its webhooks have recorded in Redis, keeps an alert for each *)
(* missing one and tells the receiver to subscribe again.                  *)
(*                                                                         *)
(* LiveKit's webhooks about a room come in order, one at a time (how they  *)
(* come otherwise is RoomLifecycle's subject); their handlers interleave   *)
(* with reports at every await.  Times are left out: an alert becomes a    *)
(* badge when it is 30 s old.                                              *)
(***************************************************************************)
EXTENDS Naturals, Sequences, FiniteSets

CONSTANTS
    Users, Rx,   \* the participants, and the receiver looked at
    Tracks,      \* audio tracks (sids), each published at most once
    Owner,       \* by track, the participant it belongs to
    Reports,     \* reports of the receiver that can be under way together
    MaxAttempts, \* MAX_RESUBSCRIBE_ATTEMPTS
    MaxJoins,    \* bound: times a participant comes back
    MaxDrops,    \* bound: subscriptions the SFU loses
    MaxFaults    \* bound: failing handlers, lost reports and signals

ASSUME AudioReachAssumption ==
    /\ Rx \in Users /\ "nobody" \notin Users /\ Owner \in [Tracks -> Users]
    /\ {MaxAttempts, MaxJoins, MaxDrops, MaxFaults} \subseteq Nat

VARIABLES
    inRoom,     \* who is connected
    fresh,      \* tracks not published yet
    live,       \* tracks published in the LiveKit room
    joins,
    subscribed, \* what the receiver is subscribed to
    attempts,   \* AudioReach.tsx: resubscriptions, by track
    drops,
    queue,      \* webhooks to come
    hook,       \* the webhook being handled: what is left to do, about which tracks
    published,  \* room:*:published_audio
    owner,      \* room:*:audio_owner
    alerts,     \* room:*:audio_alerts of the receiver
    report,     \* POST /audio-report
    spoiled,    \* a webhook handler has failed
    faults

client == <<subscribed, attempts>>
sfu    == <<inRoom, fresh, live, joins, drops>>
redis  == <<published, owner, alerts>>
vars   == <<sfu, client, queue, hook, redis, report, spoiled, faults>>

Nobody   == "nobody"
Steps    == {"sadd", "hset", "owned", "srem", "hdel", "clear", "fields"}
NoHook   == [todo |-> <<>>, sids |-> {}, user |-> Rx]
NoReport == [pc |-> "idle", reported |-> {}, expected |-> {}]

TypeOK ==
    /\ inRoom \subseteq Users
    /\ live \subseteq Tracks /\ fresh \subseteq Tracks \ live
    /\ subscribed \subseteq live
    /\ attempts \in [Tracks -> 0 .. MaxAttempts]
    /\ hook.todo \in Seq(Steps) /\ hook.sids \subseteq Tracks /\ hook.user \in Users
    /\ published \subseteq Tracks /\ alerts \subseteq Tracks
    /\ owner \in [Tracks -> Users \cup {Nobody}]
    /\ report \in [Reports -> [pc : {"idle", "read", "judge", "signal"},
                               reported : SUBSET Tracks, expected : SUBSET Tracks]]
    /\ spoiled \in BOOLEAN /\ faults \in 0 .. MaxFaults

Init ==
    /\ inRoom = Users /\ fresh = Tracks /\ live = {} /\ joins = 0 /\ drops = 0
    /\ subscribed = {} /\ attempts = [t \in Tracks |-> 0]
    /\ queue = <<>> /\ hook = NoHook
    /\ published = {} /\ owner = [t \in Tracks |-> Nobody] /\ alerts = {}
    /\ report = [p \in Reports |-> NoReport]
    /\ spoiled = FALSE /\ faults = 0

-----------------------------------------------------------------------------
(* The LiveKit room.                                                       *)

Webhook(todo, sids, u) == queue' = Append(queue, [todo |-> todo, sids |-> sids, user |-> u])

\* track_published.
Publish(t) ==
    /\ t \in fresh /\ Owner[t] \in inRoom
    /\ fresh' = fresh \ {t} /\ live' = live \cup {t}
    /\ Webhook(<<"sadd", "hset">>, {t}, Owner[t])
    /\ UNCHANGED <<inRoom, joins, drops, client, hook, redis, report, spoiled, faults>>

\* track_unpublished: removePublishedAudioTrack.
Unpublish(t) ==
    /\ t \in live
    /\ live' = live \ {t}
    /\ subscribed' = subscribed \ {t}
    /\ Webhook(<<"srem", "hdel", "clear">>, {t}, Owner[t])
    /\ UNCHANGED <<inRoom, fresh, joins, drops, attempts, hook, redis, report, spoiled, faults>>

\* participant_left: cleanupParticipantAudio, then clearAlertsForReceiver.  The
\* room ends the participant's tracks without a webhook of their own.  The page
\* of a receiver that leaves forgets its attempts.
Leave(u) ==
    LET gone == IF u = Rx THEN Tracks ELSE {t \in Tracks : Owner[t] = u}
    IN  /\ u \in inRoom
        /\ inRoom' = inRoom \ {u}
        /\ live' = live \ {t \in Tracks : Owner[t] = u}
        /\ subscribed' = subscribed \ gone
        /\ attempts' = IF u = Rx THEN [t \in Tracks |-> 0] ELSE attempts
        /\ Webhook(<<"owned", "srem", "hdel", "clear", "fields", "clear">>, {}, u)
        /\ UNCHANGED <<fresh, joins, drops, hook, redis, report, spoiled, faults>>

Join(u) ==
    /\ u \notin inRoom /\ joins < MaxJoins
    /\ joins' = joins + 1 /\ inRoom' = inRoom \cup {u}
    /\ UNCHANGED <<fresh, live, drops, client, queue, hook, redis, report, spoiled, faults>>

\* autoSubscribe and onPublished ask for every track of the others, and
\* resubscribe again; the SFU grants a subscription now or later or never, and
\* may lose it.
Granted(t) ==
    /\ Rx \in inRoom /\ t \in live \ subscribed /\ Owner[t] # Rx
    /\ subscribed' = subscribed \cup {t}
    /\ attempts' = [attempts EXCEPT ![t] = 0]
    /\ UNCHANGED <<sfu, queue, hook, redis, report, spoiled, faults>>

Drop(t) ==
    /\ t \in subscribed /\ drops < MaxDrops
    /\ drops' = drops + 1 /\ subscribed' = subscribed \ {t}
    /\ UNCHANGED <<inRoom, fresh, live, joins, attempts, queue, hook, redis, report, spoiled, faults>>

-----------------------------------------------------------------------------
(* The webhook handler, one Redis call at a time.                          *)

HookStarts ==
    /\ hook.todo = <<>> /\ queue # <<>>
    /\ hook' = Head(queue) /\ queue' = Tail(queue)
    /\ UNCHANGED <<sfu, client, redis, report, spoiled, faults>>

\* The tracks a departure is about are those recorded as its own; the fields it
\* clears last are those of the receiver.
NoneOwned(u) == {}
Owned(u)     == {t \in Tracks : owner[t] = u}
Fields(u)    == IF u = Rx THEN alerts ELSE {}

StepIs(s) == hook.todo # <<>> /\ Head(hook.todo) = s
NextStep(sids) == hook' = [hook EXCEPT !.todo = Tail(@), !.sids = sids]
HookStep ==
    /\ \/ /\ StepIs("sadd") /\ NextStep(hook.sids)
          /\ published' = published \cup hook.sids /\ UNCHANGED <<owner, alerts>>
       \/ /\ StepIs("hset") /\ NextStep(hook.sids)
          /\ owner' = [t \in Tracks |-> IF t \in hook.sids THEN hook.user ELSE owner[t]]
          /\ UNCHANGED <<published, alerts>>
       \/ /\ StepIs("owned") /\ NextStep(Owned(hook.user)) /\ UNCHANGED redis
       \/ /\ StepIs("srem") /\ NextStep(hook.sids)
          /\ published' = published \ hook.sids /\ UNCHANGED <<owner, alerts>>
       \/ /\ StepIs("hdel") /\ NextStep(hook.sids)
          /\ owner' = [t \in Tracks |-> IF t \in hook.sids THEN Nobody ELSE owner[t]]
          /\ UNCHANGED <<published, alerts>>
       \/ /\ StepIs("clear") /\ NextStep({})
          /\ alerts' = alerts \ hook.sids /\ UNCHANGED <<published, owner>>
       \/ /\ StepIs("fields") /\ NextStep(Fields(hook.user)) /\ UNCHANGED redis
    /\ UNCHANGED <<sfu, client, queue, report, spoiled, faults>>

\* A rejected call ends the handler, which answers 200 all the same.
HookFails ==
    /\ hook.todo # <<>> /\ faults < MaxFaults
    /\ faults' = faults + 1 /\ spoiled' = TRUE
    /\ hook' = NoHook
    /\ UNCHANGED <<sfu, client, queue, redis, report>>

-----------------------------------------------------------------------------
(* POST /audio-report: checkAudioReach.                                    *)

Send(p) ==
    /\ Rx \in inRoom /\ report[p].pc = "idle"
    /\ report' = [report EXCEPT ![p] = [NoReport EXCEPT !.pc = "read", !.reported = subscribed]]
    /\ UNCHANGED <<sfu, client, queue, hook, redis, spoiled, faults>>

\* smembers and hgetall leave together, on one connection.
Expected == {t \in published : owner[t] # Rx}
Read(p) ==
    /\ report[p].pc = "read"
    /\ report' = [report EXCEPT ![p].pc = "judge", ![p].expected = Expected]
    /\ UNCHANGED <<sfu, client, queue, hook, redis, spoiled, faults>>

\* hdel for what is heard, hsetnx for what is missing.
Judged(heard, missing) == (alerts \ heard) \cup missing
Judge(p) ==
    LET missing == report[p].expected \ report[p].reported
        heard   == report[p].expected \cap report[p].reported
    IN  /\ report[p].pc = "judge"
        /\ alerts' = Judged(heard, missing)
        /\ report' = [report EXCEPT ![p] =
                        IF missing = {} THEN NoReport ELSE [@ EXCEPT !.pc = "signal"]]
        /\ UNCHANGED <<sfu, client, queue, hook, published, owner, spoiled, faults>>

TriedOnce(t) == attempts[t] = 0
MayRetry(t)  == attempts[t] < MaxAttempts

\* RESUBSCRIBE_AUDIO reaches the page, at most three times a track.
Signal(p) ==
    LET missing == report[p].expected \ report[p].reported
        again   == {t \in missing \cap live : Rx \in inRoom /\ t \notin subscribed /\ MayRetry(t)}
    IN  /\ report[p].pc = "signal"
        /\ report' = [report EXCEPT ![p] = NoReport]
        /\ attempts' = [t \in Tracks |-> IF t \in again THEN attempts[t] + 1 ELSE attempts[t]]
        /\ UNCHANGED <<sfu, subscribed, queue, hook, redis, spoiled, faults>>

\* The report or the signal is lost, or a Redis call fails (500).
ReportFails(p) ==
    /\ report[p].pc # "idle" /\ faults < MaxFaults
    /\ faults' = faults + 1
    /\ report' = [report EXCEPT ![p] = NoReport]
    /\ UNCHANGED <<sfu, client, queue, hook, redis, spoiled>>

Reporting(p) == Send(p) \/ Read(p) \/ Judge(p) \/ Signal(p)

Next ==
    \/ \E t \in Tracks : Publish(t) \/ Unpublish(t) \/ Granted(t) \/ Drop(t)
    \/ \E u \in Users : Leave(u) \/ Join(u)
    \/ HookStarts \/ HookStep \/ HookFails
    \/ \E p \in Reports : Reporting(p) \/ ReportFails(p)

Spec == Init /\ [][Next]_vars

\* Webhooks come and are handled; the page's timer reports for ever.  The SFU
\* owes nothing.
Fairness ==
    /\ WF_vars(HookStarts \/ HookStep)
    /\ \A p \in Reports : WF_vars(Reporting(p))

FairSpec == Spec /\ Fairness

-----------------------------------------------------------------------------

\* When no webhook is under way the record is the room: nothing is expected that
\* is gone, nothing missed, and no track has lost its owner, unless a handler was
\* cut short.
BaselineTrue ==
    queue = <<>> /\ hook.todo = <<>> /\ ~spoiled =>
        /\ published = live
        /\ \A t \in Tracks : owner[t] = IF t \in live THEN Owner[t] ELSE Nobody

Unheard(t) == Rx \in inRoom /\ t \in live /\ Owner[t] # Rx /\ t \notin subscribed
Heard(t)   == Rx \in inRoom /\ t \in subscribed /\ t \in Expected

\* A track the receiver goes on missing is asked for again until it is heard or
\* the attempts are used up, and by then the host has its alert.
MissingIsActedOn ==
    \A t \in Tracks :
        Unheard(t) ~> ((t \in alerts /\ attempts[t] = MaxAttempts) \/ ~Unheard(t) \/ spoiled)

\* An alert about a track that is heard and expected goes away, whatever late
\* report put it there.
AlertResolves == \A t \in Tracks : (t \in alerts /\ Heard(t)) ~> (t \notin alerts \/ ~Heard(t))

\* Alerts follow what the receiver hears, over lost reports and signals and the
\* webhooks that change the record under a report.
AlertsFollow == MissingIsActedOn /\ AlertResolves
=============================================================================

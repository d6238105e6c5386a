------------------------------ MODULE Microphone ------------------------------
(***************************************************************************)
(* The microphone of one participant: the page turns it on whenever it may *)
(* publish (GuestUpgrade, on events and every 2 s), the host turns it off  *)
(* (POST .../mute), a banner offers the participant to turn it on again    *)
(* (MuteBanner).  Publications are numbered, as the API mutes a track by   *)
(* the sid it found a call earlier.                                        *)
(***************************************************************************)
EXTENDS Naturals

CONSTANTS
    Syncs,   \* sync() calls that can overlap
    Mutes,   \* POST .../mute that can be under way together
    MaxPubs, \* bound: publications of a microphone
    MaxActs  \* bound: acts of the host

MicrophoneAssumption == {MaxPubs, MaxActs} \subseteq Nat

Roles == {"viewer", "speaker", "guest"}
None  == 0

VARIABLES
    mounted, \* the page is in the room, MuteBanner on it
    grant,   \* LiveKit: the role of the permission and of the metadata
    mic,     \* the publication, None without one
    muted, cam,
    pubs,    \* publications so far
    sync,    \* GuestUpgrade: where each sync is, and the role it read
    banner,  \* MuteBanner
    mute,    \* the API: the track each request has found
    acts

track == <<mic, muted, pubs>>
vars  == <<mounted, grant, track, cam, sync, banner, mute, acts>>

NoSync == [pc |-> "idle", role |-> "viewer"]
NoMute == [pc |-> "idle", mic |-> None]

Init ==
    /\ mounted = FALSE /\ grant = "viewer"
    /\ mic = None /\ muted = FALSE /\ cam = FALSE /\ pubs = 0
    /\ sync = [s \in Syncs |-> NoSync]
    /\ banner = FALSE
    /\ mute = [r \in Mutes |-> NoMute]
    /\ acts = 0

-----------------------------------------------------------------------------
(* The banner looks at the microphone when it is mounted and on events.    *)

Events == {"TrackMuted", "TrackUnmuted", "LocalTrackPublished", "LocalTrackUnpublished"}
MutesOnly == {"TrackMuted", "LocalTrackPublished"}
Followed  == Events \ {"LocalTrackUnpublished"}

IsMuted == mic # None /\ muted
Noticed(event) == banner' = IF mounted /\ event \in Followed THEN IsMuted' ELSE banner

\* setMicrophoneEnabled(true): publishes, or unmutes what is published, if LiveKit
\* lets it; otherwise it throws.
Enable ==
    \/ /\ mic = None /\ grant # "viewer" /\ pubs < MaxPubs
       /\ pubs' = pubs + 1 /\ mic' = pubs + 1 /\ muted' = FALSE
       /\ Noticed("LocalTrackPublished")
    \/ /\ mic # None
       /\ muted' = FALSE /\ UNCHANGED <<mic, pubs>>
       /\ IF muted THEN Noticed("TrackUnmuted") ELSE UNCHANGED banner

Unpublish ==
    /\ mic' = None /\ muted' = FALSE /\ UNCHANGED pubs
    /\ IF mic # None THEN Noticed("LocalTrackUnpublished") ELSE UNCHANGED banner

Enters ==
    /\ ~mounted /\ mounted' = TRUE
    /\ banner' = IsMuted
    /\ UNCHANGED <<grant, track, cam, sync, mute, acts>>

\* A break: the tracks are published anew after it.
Breaks ==
    /\ mounted /\ acts < MaxActs /\ acts' = acts + 1
    /\ Unpublish
    /\ cam' = FALSE
    /\ UNCHANGED <<mounted, grant, sync, mute>>

-----------------------------------------------------------------------------
(* GuestUpgrade.                                                           *)

SyncStarts(s) ==
    /\ mounted /\ grant # "viewer" /\ sync[s].pc = "idle"
    /\ sync' = [sync EXCEPT ![s] = [pc |-> "mic", role |-> grant]]
    /\ UNCHANGED <<mounted, grant, track, cam, banner, mute, acts>>

SyncMic(s) ==
    /\ sync[s].pc = "mic"
    /\ \/ Enable /\ sync' = [sync EXCEPT ![s].pc = "cam"]
       \/ sync' = [sync EXCEPT ![s] = NoSync] /\ UNCHANGED <<track, banner>>
    /\ UNCHANGED <<mounted, grant, cam, mute, acts>>

SyncCam(s) ==
    /\ sync[s].pc = "cam"
    /\ sync' = [sync EXCEPT ![s] = NoSync]
    /\ cam' = (sync[s].role = "guest" /\ grant = "guest")
    /\ UNCHANGED <<mounted, grant, track, banner, mute, acts>>

\* The banner's button.
TurnOn ==
    /\ banner
    /\ \/ Enable
       \/ UNCHANGED <<track, banner>>
    /\ UNCHANGED <<mounted, grant, cam, sync, mute, acts>>

-----------------------------------------------------------------------------
(* The host.                                                               *)

\* A new role; LiveKit ends what the permission no longer allows.
Permission(r) ==
    /\ acts < MaxActs /\ acts' = acts + 1
    /\ r # grant /\ grant' = r
    /\ IF r = "viewer" THEN Unpublish ELSE UNCHANGED <<track, banner>>
    /\ cam' = (cam /\ r = "guest")
    /\ UNCHANGED <<mounted, sync, mute>>

\* muteParticipantAudio: getParticipant, then mutePublishedTrack for what it found.
MuteFinds(r) ==
    /\ mute[r].pc = "idle" /\ acts < MaxActs /\ acts' = acts + 1
    /\ mute' = [mute EXCEPT ![r] = [pc |-> "found", mic |-> mic]]
    /\ UNCHANGED <<mounted, grant, track, cam, sync, banner>>

\* A track that is gone by then is an error, answered with 404.
MuteDone(r) ==
    /\ mute[r].pc = "found"
    /\ mute' = [mute EXCEPT ![r] = NoMute]
    /\ IF mute[r].mic # None /\ mute[r].mic = mic
       THEN /\ muted' = TRUE /\ UNCHANGED <<mic, pubs>>
            /\ IF muted THEN UNCHANGED banner ELSE Noticed("TrackMuted")
       ELSE UNCHANGED <<track, banner>>
    /\ UNCHANGED <<mounted, grant, cam, sync, acts>>

Next ==
    \/ Enters \/ Breaks \/ TurnOn
    \/ \E s \in Syncs : SyncStarts(s) \/ SyncMic(s) \/ SyncCam(s)
    \/ \E r \in Roles : Permission(r)
    \/ \E r \in Mutes : MuteFinds(r) \/ MuteDone(r)

Spec == Init /\ [][Next]_vars

-----------------------------------------------------------------------------

\* While there is a microphone the banner says whether it is muted, whoever
\* muted it, and however publications, mutes and breaks follow on each other.
BannerTrue == mounted /\ mic # None => banner = muted
=============================================================================

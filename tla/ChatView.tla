------------------------------ MODULE ChatView ------------------------------
(***************************************************************************)
(* What one user does with the chat: writes, sends and sends again, is     *)
(* banned and unbanned, scrolls, and is told of new messages.  What the    *)
(* list holds is the subject of ChatClients; here it is enough whether it  *)
(* grew, and whether React was given a new array.                          *)
(***************************************************************************)
EXTENDS Naturals, FiniteSets

CONSTANTS
    Drafts,   \* texts the user writes, each of them once
    None,     \* no text
    Members,  \* bound: does the instance look at users with a row in room_participants
    MaxOther, \* bound: messages of others
    MaxFaults \* bound: POSTs that fail, or whose answer is lost

ChatViewAssumption ==
    /\ None \notin Drafts
    /\ Members \subseteq BOOLEAN
    /\ {MaxOther, MaxFaults} \subseteq Nat

VARIABLES
    member,  \* has the user a row: a viewer of mode B never asks for a token and has none
    barred,  \* chat_banned_at of that row
    copies,  \* how often each text was stored
    late,    \* history: messages stored since the user is barred
    others,  \* messages of others
    hidden,  \* is any message hidden
    text, failed, error, banned, \* ChatView and its parent
    call,    \* the POST under way
    verdict, \* what the host was told when it tried to ban the user
    stale,   \* is there a message the list has not got
    bottom, jump, \* atBottomRef, showJump
    unseen,  \* did the list grow since the user was at its end
    faults

composer == <<text, failed, error, banned, call>>
scroll   == <<bottom, jump, unseen>>
server   == <<member, barred, copies, late, others, hidden>>
vars     == <<server, composer, verdict, stale, scroll, faults>>

Call(p, d) == [pc |-> p, draft |-> d]
Idle       == Call("idle", None)

TypeOK ==
    /\ {member, barred, hidden, banned, stale, bottom, jump, unseen} \subseteq BOOLEAN
    /\ copies \in [Drafts -> Nat] /\ late \in Nat /\ others \in 0 .. MaxOther
    /\ {text, failed} \subseteq Drafts \cup {None}
    /\ error \in {"none", "slow", "restricted", "not sent"}
    /\ call \in [pc : {"check", "store", "stored", "limited", "barred", "error"}, draft : Drafts]
                  \cup {Idle}
    /\ verdict \in {"none", "banned", "not_found"}
    /\ faults \in 0 .. MaxFaults

Init ==
    /\ member \in Members
    /\ barred = FALSE /\ copies = [d \in Drafts |-> 0] /\ late = 0
    /\ others = 0 /\ hidden = FALSE
    /\ text = None /\ failed = None /\ error = "none" /\ banned = FALSE
    /\ call = Idle /\ verdict = "none" /\ stale = FALSE
    /\ bottom = TRUE /\ jump = FALSE /\ unseen = FALSE
    /\ faults = 0

Fault == faults < MaxFaults /\ faults' = faults + 1

Written == {d \in Drafts : copies[d] > 0} \cup {text, failed, call.draft}
Posted  == others > 0 \/ \E d \in Drafts : copies[d] > 0

-----------------------------------------------------------------------------
(* The list and its end.                                                   *)

ToBottom == bottom' = TRUE /\ jump' = FALSE /\ unseen' = FALSE

\* The effect on the list: follow it, or say that something is new.
Grew       == IF bottom THEN ToBottom ELSE jump' = TRUE /\ unseen' = TRUE /\ bottom' = bottom
Rerendered == IF bottom THEN ToBottom ELSE jump' = TRUE /\ UNCHANGED <<bottom, unseen>>

\* A push or a GET; the GET without a cursor returns the last messages again, and a
\* non-empty list of hidden ids makes filter copy the array.
Refresh ==
    /\ \/ stale /\ Grew
       \/ ~stale /\ (hidden \/ (member /\ Posted)) /\ Rerendered
    /\ stale' = FALSE
    /\ UNCHANGED <<server, composer, verdict, faults>>

ScrollsUp ==
    /\ Posted /\ bottom' = FALSE
    /\ UNCHANGED <<server, composer, verdict, stale, jump, unseen, faults>>

\* By hand, by the badge or by a click into the input.
ScrollsDown ==
    /\ ~bottom /\ ToBottom
    /\ UNCHANGED <<server, composer, verdict, stale, faults>>

-----------------------------------------------------------------------------
(* Sending.                                                                *)

\* The input is not disabled while a POST is under way.
Types(d) ==
    /\ ~banned
    /\ d \notin Written
    /\ text' = d
    /\ UNCHANGED <<server, failed, error, banned, call, verdict, stale, scroll, faults>>

Sends(d) ==
    /\ d # None /\ ~banned /\ call = Idle
    /\ call' = Call("check", d)
    /\ error' = "none"
    /\ UNCHANGED <<server, text, failed, banned, verdict, stale, scroll, faults>>

Submit == Sends(text)
Retry  == Sends(failed)

\* POST /chat: isChatBanned, then postChat.
Judged == IF barred THEN "barred" ELSE "store"
Checks ==
    /\ call.pc = "check"
    /\ call' = Call(Judged, call.draft)
    /\ UNCHANGED <<server, text, failed, error, banned, verdict, stale, scroll, faults>>

Stores ==
    /\ call.pc = "store"
    /\ \/ /\ call' = Call("limited", call.draft)
          /\ UNCHANGED <<copies, faults>>
       \/ /\ copies' = [copies EXCEPT ![call.draft] = @ + 1]
          /\ \/ call' = Call("stored", call.draft) /\ faults' = faults
             \/ call' = Call("error", call.draft) /\ Fault
       \/ /\ call' = Call("error", call.draft) /\ Fault
          /\ copies' = copies
    /\ late' = IF barred /\ copies' # copies THEN late + 1 ELSE late
    /\ stale' = (stale \/ copies' # copies)
    /\ UNCHANGED <<member, barred, others, hidden, text, failed, error, banned, verdict, scroll>>

\* doSend's three branches, as onSend resolves or rejects.
KeepsRetry == text' = None /\ failed' = failed
Succeeded  == text' = None /\ failed' = None

Answered ==
    /\ call' = Idle
    /\ CASE call.pc = "stored" ->
              /\ Succeeded
              /\ ToBottom
              /\ UNCHANGED <<error, banned>>
         [] call.pc = "barred" ->
              /\ banned' = TRUE /\ error' = "restricted"
              /\ UNCHANGED <<text, failed, scroll>>
         [] call.pc \in {"limited", "error"} ->
              /\ failed' = call.draft
              /\ error' = IF call.pc = "limited" THEN "slow" ELSE "not sent"
              /\ UNCHANGED <<text, banned, scroll>>
         [] OTHER -> FALSE
    /\ UNCHANGED <<server, verdict, stale, faults>>

\* The page is loaded again, when no POST is being worked on.
Reloads ==
    /\ call.pc \notin {"check", "store"}
    /\ text' = None /\ failed' = None /\ error' = "none" /\ banned' = FALSE
    /\ call' = Idle /\ stale' = Posted
    /\ ToBottom
    /\ UNCHANGED <<server, verdict, faults>>

-----------------------------------------------------------------------------
(* The others.                                                             *)

OtherPosts ==
    /\ others < MaxOther /\ others' = others + 1
    /\ stale' = TRUE
    /\ UNCHANGED <<member, barred, copies, late, hidden, composer, verdict, scroll, faults>>

HostHides ==
    /\ Posted /\ ~hidden /\ hidden' = TRUE
    /\ UNCHANGED <<member, barred, copies, late, others, composer, verdict, stale, scroll, faults>>

\* The button is next to a message of the user; the route updates its row, if there is one.
Authored == \E d \in Drafts : copies[d] > 0
BanUser  == barred' = member /\ verdict' = IF member THEN "banned" ELSE "not_found"
HostBans ==
    /\ Authored /\ ~barred
    /\ BanUser /\ late' = 0
    /\ UNCHANGED <<member, copies, others, hidden, composer, stale, scroll, faults>>

HostUnbans ==
    /\ barred /\ barred' = FALSE
    /\ UNCHANGED <<member, copies, late, others, hidden, composer, verdict, stale, scroll, faults>>

Next ==
    \/ Refresh \/ ScrollsUp \/ ScrollsDown
    \/ \E d \in Drafts : Types(d)
    \/ Submit \/ Retry \/ Checks \/ Stores \/ Answered \/ Reloads
    \/ OtherPosts \/ HostHides \/ HostBans \/ HostUnbans

Spec == Init /\ [][Next]_vars

-----------------------------------------------------------------------------
\* A text appears twice only where the answer to a POST was lost: neither the retry
\* button nor the input sends again what was answered.
CopiesBound == \A d \in Drafts : copies[d] <= 1 + faults

\* A ban stops every message but the one that was already past the check.
BanBound == late <= 1

\* Whoever reads further up is told of what came meanwhile, by whichever way it came,
\* and however often a GET replaced the list by an equal one.
NewIsAnnounced == unseen => jump /\ ~bottom

\* What the chat promises its user, over lost answers, bans and late GETs.
ChatKept == CopiesBound /\ BanBound /\ NewIsAnnounced
=============================================================================

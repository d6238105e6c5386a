------------------------------- MODULE Invites -------------------------------
(***************************************************************************)
(* Invitations to one room.  The host's page fetches a code when it sets   *)
(* the room up and shows it as a link and a QR code; guests ask to join    *)
(* with the code of the link they have.  A code is a key of Redis with a   *)
(* TTL of an hour, and so is the set of those who have used it.  A step of *)
(* Tick is a part of an hour.                                              *)
(***************************************************************************)
EXTENDS Naturals

CONSTANTS
    Guests,
    Ttl,      \* TTL_SEC in ticks
    MaxTries, \* bound: requests a guest makes
    MaxFaults \* bound: crashes and lost calls

InvitesAssumption == Ttl \in Nat \ {0} /\ {MaxTries, MaxFaults} \subseteq Nat

Keyless == Ttl + 1 \* the age of a key without a TTL, which is never reached

VARIABLES
    page,  \* the broadcast page: "setup", "live"
    shown, \* is there a code in its link
    code,  \* what is left of the code's TTL, 0 without a key
    used, usedTtl, \* the set of users, and what is left of its TTL
    guest, \* POST /join-requests
    link,  \* who has been given the link
    tries, faults

vars == <<page, shown, code, used, usedTtl, guest, link, tries, faults>>

Init ==
    /\ page = "setup" /\ shown = FALSE
    /\ code = 0 /\ used = {} /\ usedTtl = 0
    /\ guest = [g \in Guests |-> "form"]
    /\ link = {}
    /\ tries = [g \in Guests |-> 0] /\ faults = 0

Fault == faults < MaxFaults /\ faults' = faults + 1

-----------------------------------------------------------------------------
(* The host's page.  It asks for a code once, between the token and going  *)
(* live; an error leaves it where it was.                                  *)

NewCode == shown' = TRUE /\ code' = Ttl
CreateInvite ==
    /\ page = "setup"
    /\ \/ page' = "live" /\ NewCode /\ UNCHANGED faults
       \/ Fault /\ UNCHANGED <<page, shown, code>>
    /\ UNCHANGED <<used, usedTtl, guest, link, tries>>

Share(g) ==
    /\ page = "live" /\ shown /\ g \notin link
    /\ link' = link \cup {g}
    /\ UNCHANGED <<page, shown, code, used, usedTtl, guest, tries, faults>>

-----------------------------------------------------------------------------
(* POST /join-requests.                                                    *)

Ask(g) ==
    /\ guest[g] \in {"form", "refused"}
    /\ g \in link /\ page = "live" /\ tries[g] < MaxTries
    /\ tries' = [tries EXCEPT ![g] = @ + 1]
    /\ guest' = [guest EXCEPT ![g] = "asking"]
    /\ UNCHANGED <<page, shown, code, used, usedTtl, link, faults>>

\* resolveInvite.
Resolve(g) ==
    /\ guest[g] = "asking"
    /\ guest' = [guest EXCEPT ![g] = IF code > 0 THEN "resolved" ELSE "refused"]
    /\ UNCHANGED <<page, shown, code, used, usedTtl, link, tries, faults>>

\* recordInviteUse: sadd makes the key, expire gives it its TTL.
Record(g) ==
    /\ guest[g] = "resolved"
    /\ used' = used \cup {g}
    /\ usedTtl' = IF usedTtl = 0 THEN Keyless ELSE usedTtl
    /\ guest' = [guest EXCEPT ![g] = "recorded"]
    /\ UNCHANGED <<page, shown, code, link, tries, faults>>

NewOnly(g) == IF used = {g} THEN usedTtl' = Ttl ELSE UNCHANGED usedTtl
Expire(g)  == usedTtl' = IF used = {} THEN 0 ELSE Ttl

Requested(g) ==
    /\ guest[g] = "recorded"
    /\ Expire(g)
    /\ guest' = [guest EXCEPT ![g] = "requested"]
    /\ UNCHANGED <<page, shown, code, used, link, tries, faults>>

\* The call breaks off, at the page or with the process.
BreaksOff(g) ==
    /\ guest[g] \in {"asking", "resolved", "recorded"} /\ Fault
    /\ guest' = [guest EXCEPT ![g] = "refused"]
    /\ UNCHANGED <<page, shown, code, used, usedTtl, link, tries>>

-----------------------------------------------------------------------------

Less(ttl) == IF ttl \in {0, Keyless} THEN ttl ELSE ttl - 1

Tick ==
    /\ code' = Less(code) /\ usedTtl' = Less(usedTtl)
    /\ used' = IF usedTtl' = 0 THEN {} ELSE used
    /\ UNCHANGED <<page, shown, guest, link, tries, faults>>

Next ==
    \/ CreateInvite \/ Tick
    \/ \E g \in Guests : Share(g) \/ Ask(g) \/ Resolve(g) \/ Record(g) \/ Requested(g) \/ BreaksOff(g)

Spec == Init /\ [][Next]_vars

\* Time passes, and everybody goes on: keys expire whether or not anybody uses them.
Fairness ==
    /\ WF_vars(Tick) /\ WF_vars(CreateInvite)
    /\ \A g \in Guests :
          /\ WF_vars(Share(g)) /\ WF_vars(Ask(g)) /\ WF_vars(Resolve(g))
          /\ WF_vars(Record(g)) /\ WF_vars(Requested(g))

FairSpec == Spec /\ Fairness
-----------------------------------------------------------------------------

\* Who used a code is forgotten in the end, however their requests interleave,
\* unless one broke off between sadd and expire, which leaves the key without a TTL.
UsesForgotten == <>[](used = {} \/ (usedTtl = Keyless /\ faults > 0))
=============================================================================

-------------------------- MODULE MCParticipation --------------------------
(* Small instances of Participation for TLC.                               *)
EXTENDS Participation

CONSTANT g1

\* Everything happens to the guest; the host, whom approve accepts as a subject,
\* is there to compete for a slot.
MCOps == [u \in Users |-> IF u = g1 THEN AllOps ELSE {"approve"}]

\* One guest who asks, waits with a viewer token and is or is not approved.
MCReentryOps == [u \in Users |-> {"token", "join", "approve"}]

\* The join-requests comment: only a participant who was approved before comes
\* back approved; the others are queued until the host decides.
ReentryRestores ==
    [][\A k \in Requests :
         call[k].op = "join" /\ call[k].pc = "write" /\ row' # row
         => call[k].role \in granted[call[k].user]]_vars
=============================================================================

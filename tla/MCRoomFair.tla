----------------------------- MODULE MCRoomFair -----------------------------
(***************************************************************************)
(* The room under fairness for TLC, in two instances: one has restarts and *)
(* a lifetime, in the other host-grace sweeps overlap.                     *)
(***************************************************************************)
EXTENDS RoomLifecycle

CONSTANT Overlapping \* the sweeps of the second instance, those of the first among them

VARIABLE part \* the instance that moves

O == INSTANCE RoomLifecycle WITH Sweeps <- Overlapping, Lifetime <- FALSE, MaxCrashes <- 0

Parts == {"restart", "overlap"}

PartsInit ==
    /\ part \in Parts
    /\ part = "restart" => Init
    /\ part = "overlap" => O!Init

PartsNext ==
    /\ UNCHANGED part
    /\ \/ part = "restart" /\ Next
       \/ part = "overlap" /\ O!Next

\* RoomLifecycle!Fairness, of the sweeps of either instance.
PartsFairness ==
    /\ WF_vars(CreateLiveKitRoom) /\ WF_vars(EndRecord) /\ WF_vars(EndDelete)
    /\ WF_vars(MarkLiveForHost) /\ WF_vars(IssueToken)
    /\ WF_vars(part = "restart" /\ \E i \in DOMAIN hooks : Webhook(i))
    /\ WF_vars(part = "overlap" /\ \E i \in DOMAIN hooks : O!Webhook(i))
    /\ \A k \in Overlapping : WF_vars(k \in DOMAIN sweep /\ Sweep(k))
    /\ WF_vars(DemoSweep)
    /\ WF_vars(GracePasses) /\ WF_vars(EmptyTimeout)
    /\ WF_vars(part = "restart" /\ LockExpires)
    /\ WF_vars(part = "overlap" /\ O!LockExpires)

PartsSpec == PartsInit /\ [][PartsNext]_<<part, vars>> /\ PartsFairness
=============================================================================

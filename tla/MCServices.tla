----------------------------- MODULE MCServices -----------------------------
(***************************************************************************)
(* The rows that pile up and go (RoomStock, which this module extends) and *)
(* the API's process (ApiProcess) for TLC.  They share no state here, so   *)
(* one run looks at them side by side: in each behaviour one of them       *)
(* moves.  The rows move in two instances, one with several pages and one  *)
(* sweep, the other with several sweeps and one page.                      *)
(***************************************************************************)
EXTENDS RoomStock

CONSTANTS
    OnePage, ManySweeps, Visits, \* of the second instance
    Requests, ApiSweeps

VARIABLES
    part, \* the component that moves
    listening, phase, exit, timers, open, request, apiSweep

process == <<listening, phase, exit, timers, open, request, apiSweep>>

O == INSTANCE RoomStock
        WITH Pages <- OnePage, Sweeps <- ManySweeps, MaxVisits <- Visits, MaxFaults <- 0
A == INSTANCE ApiProcess WITH Sweeps <- ApiSweeps, sweep <- apiSweep

ServicesInit ==
    /\ \/ part = "pages" /\ Init
       \/ part = "sweeps" /\ O!Init
       \/ part = "process" /\ Init
    /\ A!Init

ServicesNext ==
    \/ part = "pages" /\ Next /\ UNCHANGED <<part, process>>
    \/ part = "sweeps" /\ O!Next /\ UNCHANGED <<part, process>>
    \/ part = "process" /\ A!Next /\ UNCHANGED <<part, vars>>

\* RoomStock's Fairness, for the instance that moves.
ServicesSpec ==
    /\ ServicesInit /\ [][ServicesNext]_<<part, vars, process>>
    /\ \A p \in Pages : WF_vars(part = "pages" /\ Create(p))
    /\ \A k \in Sweeps : WF_vars(part = "pages" /\ SweepStep(k))
    /\ \A p \in OnePage : WF_vars(part = "sweeps" /\ O!Create(p))
    /\ \A k \in ManySweeps : WF_vars(part = "sweeps" /\ O!SweepStep(k))
    /\ \A u \in Users : WF_vars(UserAges(u))
    /\ \A r \in Rooms :
          /\ WF_vars(RoomFinished(r))
          /\ WF_vars(part = "pages" /\ RetentionPasses(r))
          /\ WF_vars(part = "sweeps" /\ O!RetentionPasses(r))

-----------------------------------------------------------------------------
\* A shutdown cuts off no request, unless it takes too long (ApiProcess).
CleanExit == A!CleanExit
=============================================================================

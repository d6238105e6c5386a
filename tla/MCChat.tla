------------------------------- MODULE MCChat -------------------------------
(***************************************************************************)
(* The chat for TLC: the routes with their cache (ChatSnapshot), the list  *)
(* that a browser keeps (ChatClients), and the composer and scrolling of   *)
(* one user (ChatView).  They share no state, so one run looks at them     *)
(* side by side: in each behaviour one of the three moves.                 *)
(***************************************************************************)
EXTENDS ChatSnapshot

CONSTANTS
    Ids, Gets, History, Limit, Keep, Kinds, ClientChanges, ClientFaults, \* of ChatClients
    Drafts, Members, MaxOther, ViewFaults \* of ChatView

VARIABLES
    part, \* the component that moves
    table, settled, kind, shown, cursor, get, due, clientFaults, \* of ChatClients
    member, barred, copies, late, others, hidden, \* of ChatView
    text, failed, error, banned, call, verdict, stale, bottom, jump, unseen, viewFaults

client == <<table, settled, kind, shown, cursor, get, due, clientFaults>>
view   == <<member, barred, copies, late, others, hidden, text, failed, error, banned, call,
            verdict, stale, bottom, jump, unseen, viewFaults>>

C == INSTANCE ChatClients
    WITH Page <- Limit, MaxChanges <- ClientChanges, MaxFaults <- ClientFaults,
         faults <- clientFaults
V == INSTANCE ChatView WITH MaxFaults <- ViewFaults, faults <- viewFaults

ASSUME ClientsAssumption == C!ChatClientsAssumption
ASSUME ViewAssumption == V!ChatViewAssumption

\* Those that do not move start as one of the instances they could be.
ChatInit ==
    /\ part \in {"server", "client", "view"}
    /\ Init /\ C!Init /\ V!Init
    /\ part # "client" => kind = "host"
    /\ part # "view" => member

ChatNext ==
    \/ part = "server" /\ Next /\ UNCHANGED <<part, client, view>>
    \/ part = "client" /\ C!Next /\ UNCHANGED <<part, vars, view>>
    \/ part = "view" /\ V!Next /\ UNCHANGED <<part, vars, client>>

\* The Fairness of ChatSnapshot and of ChatClients, for the one that moves.
ChatSpec ==
    /\ ChatInit /\ [][ChatNext]_<<part, vars, client, view>>
    /\ \A r \in Readers : WF_vars(part = "server" /\ Get(r))
    /\ \A w \in Writers : WF_vars(part = "server" /\ Post(w))
    /\ \A u \in Users : WF_vars(part = "server" /\ LimitExpires(u))
    /\ \A v \in Versions, q \in Queries : WF_vars(part = "server" /\ PageExpires(v, q))
    /\ WF_settled(part = "client" /\ C!Settle)
    /\ \A g \in Gets :
          WF_get(part = "client" /\ C!Ask(g)) /\ WF_get(part = "client" /\ C!Ends(g))

-----------------------------------------------------------------------------
\* The lists that the browsers keep (ChatClients).
ListsConverge == C!ListsConverge

\* A user's texts, a ban, and what is new to a reader (ChatView).
ChatKept == V!ChatKept
=============================================================================

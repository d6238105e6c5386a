------------------------ MODULE ParticipationProofs ------------------------
(***************************************************************************)
(* What holds of Participation for every set of users, every number of     *)
(* handler slots and every slot limit, and with it of the host's queue     *)
(* page put together with its handlers (HostQueue).                        *)
(***************************************************************************)
EXTENDS HostQueue, FiniteSetTheorems, TLAPS

LEMMA RolesDistinct == Roles \cap {"none", "off"} = {} /\ PubRoles \subseteq Roles
BY DEF Roles, PubRoles

\* What Apply and Fail leave of the type invariant's parts.
LEMMA ApplyType ==
    ASSUME TypeOK, NEW u \in Users, NEW e \in Roles \cup {"off"}, Apply(u, e)
    PROVE  /\ token' \in [Users -> Roles \cup {"none"}]
           /\ conn' \in [Users -> Roles \cup {"off"}]
           /\ hooks' \in [Users -> SUBSET {"joined", "left"}]
<1>1. conn' \in [Users -> Roles \cup {"off"}]
  BY DEF TypeOK, Apply
<1>2. token' \in [Users -> Roles \cup {"none"}]
  BY DEF TypeOK, Apply
<1>3. hooks' = hooks \/ hooks' = [hooks EXCEPT ![u] = @ \cup {"left"}]
  BY DEF Apply
<1>4. hooks' \in [Users -> SUBSET {"joined", "left"}]
  BY <1>3 DEF TypeOK
<1>. QED BY <1>1, <1>2, <1>4

LEMMA FailType ==
    ASSUME TypeOK, NEW u \in Users, NEW e \in Roles \cup {"off"}, Fail(u, e)
    PROVE  /\ token' \in [Users -> Roles \cup {"none"}]
           /\ conn' \in [Users -> Roles \cup {"off"}]
           /\ hooks' \in [Users -> SUBSET {"joined", "left"}]
           /\ late' \in SUBSET (Users \X (Roles \cup {"off"}))
BY DEF TypeOK, Fail

\* The handler steps keep the calls well formed.
LEMMA CallAt ==
    ASSUME TypeOK, NEW k \in Requests, call[k] # Idle
    PROVE  /\ call[k].user \in Users
           /\ call[k].op \in {"join", "approve", "role"} => call[k].role \in PubRoles
           /\ call[k].op \in {"reject", "kick"} => call[k].role = "viewer"
           /\ call[k].op = "token" => call[k].role \in Roles
           /\ call[k].pc = "ensure" => call[k].role \in {"host", "viewer"}
           /\ call[k].op = "token" => call[k].pc \in {"ensure", "issue"}
           /\ call[k].op \in {"join", "approve", "role"} =>
                 call[k].pc \notin {"ensure", "issue"}
           /\ call[k].op \in {"reject", "kick"} =>
                 call[k].pc \notin {"ensure", "issue"}
BY DEF TypeOK, Calls, Roles, PubRoles

-----------------------------------------------------------------------------
LEMMA InitType == Init => TypeOK
BY DEF Init, TypeOK, Calls, Row, NoRow, Roles, States, PubRoles

\* A started call is one of the well-formed calls; starting writes nothing else.
LEMMA StartType ==
    ASSUME TypeOK, NEW k \in Requests, NEW u, NEW o, NEW r, NEW p,
           [op |-> o, user |-> u, role |-> r, pc |-> p] \in Calls,
           Start(k, o, u, r, p)
    PROVE  call' \in [Requests -> Calls]
BY DEF TypeOK, Start

LEMMA CallOnlyType ==
    ASSUME TypeOK, call' \in [Requests -> Calls],
           UNCHANGED <<row, token, conn, hooks, loops, late, granted>>
    PROVE  TypeOK'
BY DEF TypeOK

LEMMA BeginType == ASSUME TypeOK, NEW k \in Requests, Begin(k) PROVE TypeOK'
<1>. PICK u \in Users :
        \/ \E want \in {"publish", "watch"} : BeginToken(k, u, want)
        \/ BeginJoin(k, u)
        \/ \E r \in PubRoles : BeginApprove(k, u, r) \/ BeginRoleChange(k, u, r)
        \/ BeginReject(k, u)
        \/ BeginKick(k, u)
  BY DEF Begin
<1>1. CASE \E want \in {"publish", "watch"} : BeginToken(k, u, want)
  <2>1. UNCHANGED <<row, token, conn, hooks, loops, late, granted>>
    BY <1>1 DEF BeginToken
  <2>2. \/ Start(k, "token", u, "host", "ensure")
        \/ row[u].role \in PubRoles /\ Start(k, "token", u, row[u].role, "issue")
        \/ Start(k, "token", u, "viewer", "ensure")
    BY <1>1 DEF BeginToken, IsPublisher, HasPublishRole
  <2>3. \A r \in {"host", "viewer"} :
            [op |-> "token", user |-> u, role |-> r, pc |-> "ensure"] \in Calls
    BY DEF Calls
  <2>4. \A r \in PubRoles :
            [op |-> "token", user |-> u, role |-> r, pc |-> "issue"] \in Calls
    BY DEF Calls
  <2>5. CASE Start(k, "token", u, "host", "ensure")
    BY <2>1, <2>3, <2>5, StartType, CallOnlyType
  <2>6. CASE row[u].role \in PubRoles /\ Start(k, "token", u, row[u].role, "issue")
    BY <2>1, <2>4, <2>6, StartType, CallOnlyType
  <2>7. CASE Start(k, "token", u, "viewer", "ensure")
    BY <2>1, <2>3, <2>7, StartType, CallOnlyType
  <2>. QED BY <2>2, <2>5, <2>6, <2>7
<1>2. CASE BeginJoin(k, u)
  <2>1. UNCHANGED <<row, token, conn, hooks, loops, late, granted>>
    BY <1>2 DEF BeginJoin
  <2>2. \E r \in PubRoles, p \in {"count", "queue"} : Start(k, "join", u, r, p)
    BY <1>2 DEF BeginJoin, Returning, HasPublishRole, PubRoles
  <2>3. PICK r \in PubRoles, p \in {"count", "queue"} : Start(k, "join", u, r, p)
    BY <2>2
  <2>4. [op |-> "join", user |-> u, role |-> r, pc |-> p] \in Calls
    BY DEF Calls
  <2>. QED BY <2>1, <2>3, <2>4, StartType, CallOnlyType
<1>3. CASE \E r \in PubRoles : BeginApprove(k, u, r) \/ BeginRoleChange(k, u, r)
  <2>1. UNCHANGED <<row, token, conn, hooks, loops, late, granted>>
    BY <1>3 DEF BeginApprove, BeginRoleChange
  <2>2. PICK r \in PubRoles, o \in {"approve", "role"} : Start(k, o, u, r, "count")
    BY <1>3 DEF BeginApprove, BeginRoleChange
  <2>3. [op |-> o, user |-> u, role |-> r, pc |-> "count"] \in Calls
    BY DEF Calls
  <2>. QED BY <2>1, <2>2, <2>3, StartType, CallOnlyType
<1>4. CASE BeginReject(k, u)
  <2>1. [op |-> "reject", user |-> u, role |-> "viewer", pc |-> "write"] \in Calls
    BY DEF Calls
  <2>. QED BY <1>4, <2>1, StartType, CallOnlyType DEF BeginReject
<1>5. CASE BeginKick(k, u)
  <2>1. [op |-> "kick", user |-> u, role |-> "viewer", pc |-> "write"] \in Calls
    BY DEF Calls
  <2>. QED BY <1>5, <2>1, StartType, CallOnlyType DEF BeginKick
<1>. QED BY <1>1, <1>2, <1>3, <1>4, <1>5

\* A handler that moves on or returns stays one of the well-formed calls.
LEMMA ReturnType ==
    ASSUME TypeOK, NEW k \in Requests, Return(k)
    PROVE  call' \in [Requests -> Calls]
BY DEF TypeOK, Return, Calls

LEMMA GotoType ==
    ASSUME TypeOK, NEW k \in Requests, NEW p, Goto(k, p),
           [call[k] EXCEPT !.pc = p] \in Calls
    PROVE  call' \in [Requests -> Calls]
BY DEF TypeOK, Goto

LEMMA UpsertType ==
    ASSUME TypeOK, NEW u \in Users, NEW r \in Roles, NEW s \in States, Upsert(u, r, s)
    PROVE  row' \in [Users -> [role : Roles \cup {"none"}, state : States \cup {"absent"}]]
BY DEF TypeOK, Upsert, Row

LEMMA RecordType ==
    ASSUME TypeOK, NEW u \in Users, NEW r \in PubRoles, Record(u, r)
    PROVE  granted' \in [Users -> SUBSET PubRoles]
BY DEF TypeOK, Record

\* One more or one loop less, of one user and role.
LEMMA LoopsType ==
    ASSUME TypeOK, NEW u \in Users, NEW r \in PubRoles, NEW n \in Nat
    PROVE  [loops EXCEPT ![u][r] = n] \in [Users -> [PubRoles -> Nat]]
<1>1. [loops[u] EXCEPT ![r] = n] \in [PubRoles -> Nat]
  BY DEF TypeOK
<1>. QED BY <1>1 DEF TypeOK

LEMMA LoopsNat ==
    ASSUME TypeOK, NEW u \in Users, NEW r \in PubRoles
    PROVE  loops[u][r] \in Nat
BY DEF TypeOK

LEMMA ContinueType == ASSUME TypeOK, NEW k \in Requests, Continue(k) PROVE TypeOK'
<1>. USE DEF At
<1>1. CASE EnsureTokenRow(k)
  <2>1. call[k] \in [op : {"token"}, user : Users, role : {"host", "viewer"},
                     pc : {"ensure", "issue"}]
    BY <1>1 DEF EnsureTokenRow, TypeOK, Calls, Idle
  <2>2. [call[k] EXCEPT !.pc = "issue"] \in Calls
    BY <2>1 DEF Calls
  <2>3. row' \in [Users -> [role : Roles \cup {"none"}, state : States \cup {"absent"}]]
    BY <1>1, <2>1 DEF EnsureTokenRow, EnsuredRow, Row, TypeOK, Roles, States
  <2>. QED BY <1>1, <2>2, <2>3, GotoType DEF EnsureTokenRow, TypeOK
<1>2. CASE IssueToken(k)
  <2>1. call[k].user \in Users /\ call[k].role \in Roles
    BY <1>2, CallAt DEF IssueToken, Idle
  <2>. QED BY <1>2, <2>1, ReturnType DEF IssueToken, TypeOK
<1>3. CASE CountForReentry(k)
  <2>1. call[k] \in [op : {"join"}, user : Users, role : PubRoles,
                     pc : {"count", "write", "queue"}]
    BY <1>3 DEF CountForReentry, TypeOK, Calls, Idle
  <2>2. /\ [call[k] EXCEPT !.pc = "write"] \in Calls
        /\ [call[k] EXCEPT !.pc = "queue"] \in Calls
    BY <2>1 DEF Calls
  <2>. QED BY <1>3, <2>2, GotoType DEF CountForReentry, TypeOK
<1>4. CASE Reenter(k)
  <2>1. call[k].user \in Users /\ call[k].role \in PubRoles
    BY <1>4, CallAt DEF Reenter, Idle
  <2>2. call[k].role \in Roles /\ "approved" \in States
    BY <2>1, RolesDistinct DEF States
  <2>. QED BY <1>4, <2>1, <2>2, ReturnType, UpsertType, RecordType DEF Reenter, TypeOK
<1>5. CASE Enqueue(k)
  <2>1. call[k].user \in Users
    BY <1>5, CallAt DEF Enqueue, Idle
  <2>2. "guest" \in Roles /\ "requested" \in States
    BY DEF Roles, PubRoles, States
  <2>. QED BY <1>5, <2>1, <2>2, ReturnType, UpsertType DEF Enqueue, TypeOK
<1>6. CASE CountSlots(k)
  <2>1. /\ call[k] \in Calls
        /\ call[k].op \in {"approve", "role"}
    BY <1>6 DEF CountSlots, TypeOK
  <2>2. [call[k] EXCEPT !.pc = "write"] \in Calls
    BY <2>1 DEF Calls, Idle
  <2>. QED BY <1>6, <2>2, GotoType, ReturnType DEF CountSlots, TypeOK
<1>7. CASE Approve(k)
  <2>1. call[k].user \in Users /\ call[k].role \in PubRoles
    BY <1>7, CallAt DEF Approve, Idle
  <2>2. call[k].role \in Roles /\ "approved" \in States
    BY <2>1, RolesDistinct DEF States
  <2>3. loops' \in [Users -> [PubRoles -> Nat]]
    BY <1>7, <2>1, LoopsType, LoopsNat DEF Approve
  <2>. QED BY <1>7, <2>1, <2>2, <2>3, ReturnType, UpsertType, RecordType DEF Approve, TypeOK
<1>8. CASE ChangeRole(k)
  <2>1. call[k] \in [op : {"role"}, user : Users, role : PubRoles,
                     pc : {"count", "write", "perm"}]
    BY <1>8 DEF ChangeRole, TypeOK, Calls, Idle
  <2>2. [call[k] EXCEPT !.pc = "perm"] \in Calls
    BY <2>1 DEF Calls
  <2>3. call[k].role \in Roles /\ "approved" \in States
    BY <2>1, RolesDistinct DEF States
  <2>. QED BY <1>8, <2>1, <2>2, <2>3, GotoType, UpsertType, RecordType DEF ChangeRole, TypeOK
<1>9. CASE ChangePermission(k)
  <2>1. call[k].user \in Users /\ call[k].role \in PubRoles
    BY <1>9, CallAt DEF ChangePermission, Idle
  <2>2. call[k].role \in Roles \cup {"off"}
    BY <2>1, RolesDistinct
  <2>3. loops' \in [Users -> [PubRoles -> Nat]]
    <3>1. loops[call[k].user][call[k].role] + 1 \in Nat BY <2>1, LoopsNat
    <3>2. [loops EXCEPT ![call[k].user][call[k].role] = @ + 1]
            \in [Users -> [PubRoles -> Nat]]
      BY <2>1, <3>1, LoopsType
    <3>. QED BY <1>9, <3>2 DEF ChangePermission, TypeOK
  <2>. QED
    BY <1>9, <2>1, <2>2, <2>3, ReturnType, ApplyType, FailType DEF ChangePermission, TypeOK
<1>10. CASE ShutOut(k)
  <2>1. /\ call[k] \in Calls
        /\ call[k].op \in {"reject", "kick"}
        /\ call[k].user \in Users
    BY <1>10, CallAt DEF ShutOut, TypeOK, Idle
  <2>4. "viewer" \in Roles /\ "kicked" \in States
    BY DEF Roles, States
  <2>2. CASE call[k].op = "reject"
    <3>1. [call[k] EXCEPT !.pc = "perm"] \in Calls BY <2>1, <2>2 DEF Calls, Idle
    <3>. QED BY <1>10, <2>1, <2>2, <2>4, <3>1, GotoType, UpsertType DEF ShutOut, TypeOK
  <2>3. CASE call[k].op = "kick"
    <3>1. [call[k] EXCEPT !.pc = "remove"] \in Calls BY <2>1, <2>3 DEF Calls, Idle
    <3>. QED BY <1>10, <2>1, <2>3, <2>4, <3>1, GotoType, UpsertType DEF ShutOut, TypeOK
  <2>. QED BY <2>1, <2>2, <2>3
<1>11. CASE Revoke(k)
  <2>1. call[k].user \in Users
    BY <1>11, CallAt DEF Revoke, Idle
  <2>2. {"viewer", "off"} \subseteq Roles \cup {"off"} BY DEF Roles
  <2>. QED BY <1>11, <2>1, <2>2, ReturnType, ApplyType, FailType DEF Revoke, TypeOK
<1>. QED
  BY <1>1, <1>2, <1>3, <1>4, <1>5, <1>6, <1>7, <1>8, <1>9, <1>10, <1>11 DEF Continue

LEMMA BackgroundType == ASSUME TypeOK, NEW u \in Users, Background(u) PROVE TypeOK'
<1>1. ASSUME NEW r \in PubRoles, RetryApplies(u, r) PROVE TypeOK'
  <2>1. r \in Roles \cup {"off"} BY RolesDistinct
  <2>2. loops' \in [Users -> [PubRoles -> Nat]]
    BY <1>1, LoopsType, LoopsNat DEF RetryApplies
  <2>. QED BY <1>1, <2>1, <2>2, ApplyType DEF RetryApplies, TypeOK
<1>2. ASSUME NEW r \in PubRoles, RetryFails(u, r) PROVE TypeOK'
  <2>1. r \in Roles \cup {"off"} BY RolesDistinct
  <2>2. loops' \in [Users -> [PubRoles -> Nat]]
    <3>1. loops[u][r] - 1 \in Nat BY <1>2, LoopsNat DEF RetryFails
    <3>2. [loops EXCEPT ![u][r] = @ - 1] \in [Users -> [PubRoles -> Nat]]
      BY <3>1, LoopsType
    <3>. QED BY <1>2, <3>2 DEF RetryFails, TypeOK
  <2>. QED BY <1>2, <2>1, <2>2, FailType DEF RetryFails, TypeOK
<1>3. ASSUME NEW e \in Roles \cup {"off"}, LateLands(u, e) PROVE TypeOK'
  <2>1. late' \in SUBSET (Users \X (Roles \cup {"off"}))
    BY <1>3 DEF LateLands, TypeOK
  <2>. QED BY <1>3, <2>1, ApplyType DEF LateLands, TypeOK
<1>. QED BY <1>1, <1>2, <1>3 DEF Background

LEMMA OutsideType == ASSUME TypeOK, NEW u \in Users, Outside(u) PROVE TypeOK'
<1>1. CASE Connect(u)
  BY <1>1 DEF Connect, TypeOK
<1>2. CASE Drop(u)
  BY <1>2 DEF Drop, TypeOK
<1>7. CASE Expire(u)
  BY <1>7 DEF Expire, TypeOK
<1>3. ASSUME NEW h \in {"joined", "left"}, Consume(u, h)
      PROVE  hooks' \in [Users -> SUBSET {"joined", "left"}]
  BY <1>3 DEF Consume, TypeOK
<1>4. CASE ParticipantJoined(u)
  <2>1. "viewer" \in Roles /\ "approved" \in States BY DEF Roles, States
  <2>. QED BY <1>3, <1>4, <2>1, UpsertType DEF ParticipantJoined, TypeOK
<1>5. CASE ParticipantLeft(u)
  <2>1. row' \in [Users -> [role : Roles \cup {"none"}, state : States \cup {"absent"}]]
    <3>1. row[u].role \in Roles \cup {"none"} BY DEF TypeOK
    <3>2. /\ "viewer" \in Roles
          /\ "left" \in States /\ "kicked" \in States
      BY DEF Roles, States
    <3>3. \E r \in Roles \cup {"none"}, s \in States : row' = [row EXCEPT ![u] = Row(r, s)]
      BY <1>5, <3>1, <3>2 DEF ParticipantLeft, StateAfterLeft, Upsert
    <3>. QED BY <3>3 DEF TypeOK, Row
  <2>. QED BY <1>3, <1>5, <2>1 DEF ParticipantLeft, TypeOK
<1>6. CASE \E h \in {"joined", "left"} : HookLost(u, h)
  BY <1>6 DEF HookLost, TypeOK
<1>. QED BY <1>1, <1>2, <1>4, <1>5, <1>6, <1>7 DEF Outside

LEMMA NextType == TypeOK /\ [Next]_vars => TypeOK'
<1>1. ASSUME TypeOK, NEW k \in Requests, Abort(k) PROVE TypeOK'
  BY <1>1, ReturnType DEF Abort, TypeOK
<1>2. ASSUME TypeOK, Restart PROVE TypeOK'
  BY <1>2 DEF Restart, TypeOK, Calls
<1>3. ASSUME TypeOK, UNCHANGED vars PROVE TypeOK'
  BY <1>3 DEF vars, TypeOK
<1>. QED
  BY <1>1, <1>2, <1>3, BeginType, ContinueType, BackgroundType, OutsideType DEF Next

\* Every reachable state is well typed; in particular a handler never gives a
\* role its route cannot give.
THEOREM TypeCorrect == Spec => []TypeOK
BY InitType, NextType, PTL DEF Spec

-----------------------------------------------------------------------------
(* No publish permission without an approval on record.                    *)

\* LiveKit is handed e for u: its participant and the client's token follow.
LEMMA ApplyGrants ==
    ASSUME TypeOK, NEW u \in Users, UserGrants(u), NEW e, Apply(u, e),
           e \in PubRoles => e \in granted[u], NEW v \in Users, UserGrants(v)
    PROVE  /\ conn'[v] \in PubRoles => conn'[v] \in granted[v]
           /\ token'[v] \in PubRoles => token'[v] \in granted[v]
BY DEF Apply, UserGrants, TypeOK, PubRoles

LEMMA FailGrants ==
    ASSUME TypeOK, NEW u \in Users, NEW e, Fail(u, e),
           e \in PubRoles => e \in granted[u], NEW v \in Users, UserGrants(v)
    PROVE  /\ conn'[v] \in PubRoles => conn'[v] \in granted[v]
           /\ token'[v] \in PubRoles => token'[v] \in granted[v]
           /\ \A r \in PubRoles : <<v, r>> \in late' => r \in granted[v]
BY DEF Fail, UserGrants

LEMMA InitGrants == Init => GrantsRecorded
BY DEF Init, GrantsRecorded, UserGrants, CallGrants, Approved,
       Row, NoRow, Idle, PubRoles

\* A step that moves only calls keeps the record if the call it moves does.
LEMMA OnlyCallsMove ==
    ASSUME GrantsRecorded, NEW k \in Requests, CallGrants(k)',
           \A j \in Requests \ {k} : call'[j] = call[j],
           UNCHANGED <<row, token, conn, loops, late, granted>>
    PROVE  GrantsRecorded'
BY DEF GrantsRecorded, UserGrants, CallGrants, Approved

LEMMA BeginGrants ==
    ASSUME TypeOK, GrantsRecorded, NEW k \in Requests, Begin(k)
    PROVE  GrantsRecorded'
<1>. PICK u \in Users :
        \/ \E want \in {"publish", "watch"} : BeginToken(k, u, want)
        \/ BeginJoin(k, u)
        \/ \E r \in PubRoles : BeginApprove(k, u, r) \/ BeginRoleChange(k, u, r)
        \/ BeginReject(k, u)
        \/ BeginKick(k, u)
  BY DEF Begin
<1>1. /\ \A j \in Requests \ {k} : call'[j] = call[j]
      /\ UNCHANGED <<row, token, conn, loops, late, granted>>
  BY DEF BeginToken, BeginJoin, BeginApprove, BeginRoleChange, BeginReject, BeginKick,
         Start, TypeOK
<1>2. CallGrants(k)'
  <2>1. CASE \E want \in {"publish", "watch"} : BeginToken(k, u, want)
    <3>1. IsPublisher(u) => row[u].role \in granted[u]
      <4>1. IsPublisher(u) => row[u].role \in PubRoles /\ u \in Approved(row[u].role)
        BY DEF IsPublisher, HasPublishRole, Approved, Row, TypeOK
      <4>. QED BY <4>1 DEF GrantsRecorded, UserGrants
    <3>2. call'[k].user = u /\ call'[k].role \in {"host", "viewer", row[u].role}
      BY <2>1 DEF BeginToken, Start, TypeOK
    <3>3. call'[k].role \in PubRoles => IsPublisher(u) /\ call'[k].role = row[u].role
      BY <2>1, <3>2 DEF BeginToken, Start, PubRoles, TypeOK
    <3>. QED BY <1>1, <3>1, <3>2, <3>3 DEF CallGrants
  <2>2. CASE ~\E want \in {"publish", "watch"} : BeginToken(k, u, want)
    BY <2>2 DEF BeginJoin, BeginApprove, BeginRoleChange, BeginReject, BeginKick, Start,
                CallGrants, TypeOK
  <2>. QED BY <2>1, <2>2
<1>. QED BY <1>1, <1>2, OnlyCallsMove

LEMMA ContinueGrants ==
    ASSUME TypeOK, GrantsRecorded, NEW k \in Requests, Continue(k)
    PROVE  GrantsRecorded'
<1>. DEFINE u == call[k].user
            r == call[k].role
<1>. USE DEF At
<1>1. ASSUME call[k].pc \notin {"issue", "perm"}, call[k] # Idle, Upsert(u, r, "approved"),
             Record(u, r), NEW v \in Users
      PROVE  (\A x \in PubRoles : v \in Approved(x) => x \in granted[v])'
  BY <1>1, CallAt
  DEF GrantsRecorded, UserGrants, Approved, Upsert, Record, Row, TypeOK
<1>2. CASE EnsureTokenRow(k)
  <2>1. u \in Users /\ r \in {"host", "viewer"}
    BY <1>2, CallAt DEF EnsureTokenRow, Idle
  <2>2. \A v \in Users : UserGrants(v)'
    <3>1. row'[u] = row[u] \/ row'[u].role \notin PubRoles
      BY <1>2, <2>1 DEF EnsureTokenRow, EnsuredRow, Row, PubRoles, TypeOK
    <3>2. \A v \in Users \ {u} : row'[v] = row[v]
      BY <1>2 DEF EnsureTokenRow, TypeOK
    <3>. QED
      BY <1>2, <2>1, <3>1, <3>2
      DEF EnsureTokenRow, GrantsRecorded, UserGrants, Approved, Row
  <2>3. \A j \in Requests : CallGrants(j)'
    BY <1>2, <2>1 DEF EnsureTokenRow, Goto, GrantsRecorded, CallGrants, PubRoles, TypeOK
  <2>. QED BY <2>2, <2>3 DEF GrantsRecorded
<1>3. CASE IssueToken(k)
  <2>1. u \in Users /\ (r \in PubRoles => r \in granted[u])
    BY <1>3, CallAt DEF IssueToken, Idle, GrantsRecorded, CallGrants
  <2>2. \A v \in Users : UserGrants(v)'
    BY <1>3, <2>1
    DEF IssueToken, GrantsRecorded, UserGrants, Approved, TypeOK
  <2>3. \A j \in Requests : CallGrants(j)'
    BY <1>3 DEF IssueToken, Return, Idle, GrantsRecorded, CallGrants, PubRoles, TypeOK
  <2>. QED BY <2>2, <2>3 DEF GrantsRecorded
<1>4. CASE CountForReentry(k) \/ CountSlots(k)
  <2>1. CallGrants(k)'
    <3>1. \/ \E p \in {"write", "queue"} : Goto(k, p)
          \/ Return(k)
      BY <1>4 DEF CountForReentry, CountSlots
    <3>2. call[k] # Idle /\ call[k] \in Calls
      BY <1>4 DEF CountForReentry, CountSlots, Idle, TypeOK
    <3>3. \A p : Goto(k, p) => call'[k].pc = p
      BY <3>2 DEF Goto, TypeOK, Calls
    <3>4. Return(k) => call'[k].pc = "idle"
      BY DEF Return, Idle, TypeOK
    <3>. QED BY <3>1, <3>3, <3>4 DEF CallGrants
  <2>2. \A j \in Requests \ {k} : call'[j] = call[j]
    BY <1>4 DEF CountForReentry, CountSlots, Goto, Return, TypeOK
  <2>. QED BY <1>4, <2>1, <2>2, OnlyCallsMove DEF CountForReentry, CountSlots
<1>5. CASE Reenter(k) \/ Approve(k) \/ ChangeRole(k)
  <2>1. u \in Users /\ r \in PubRoles
    BY <1>5, CallAt DEF Reenter, Approve, ChangeRole, Idle
  <2>2. /\ row' = [row EXCEPT ![u] = Row(r, "approved")]
        /\ granted' = [granted EXCEPT ![u] = @ \cup {r}]
        /\ UNCHANGED <<token, conn, late>>
        /\ loops' = loops \/ loops' = [loops EXCEPT ![u][r] = @ + 1]
    BY <1>5 DEF Reenter, Approve, ChangeRole, Upsert, Record
  <2>3. ASSUME NEW v \in Users PROVE UserGrants(v)'
    <3>1. UserGrants(v) /\ granted[v] \subseteq granted'[v]
      BY <2>2 DEF GrantsRecorded, TypeOK
    <3>2. r \in granted'[u]
      BY <2>1, <2>2 DEF TypeOK
    <3>3. (\A x \in PubRoles : v \in Approved(x) => x \in granted[v])'
      BY <2>1, <2>2, <3>1, <3>2 DEF UserGrants, Approved, Row, TypeOK
    <3>4. ASSUME NEW x \in PubRoles, loops'[v][x] > 0 PROVE x \in granted'[v]
      <4>1. loops'[v][x] = loops[v][x] \/ (v = u /\ x = r)
        BY <2>1, <2>2 DEF TypeOK
      <4>. QED BY <3>1, <3>2, <3>4, <4>1 DEF UserGrants
    <3>. QED BY <2>2, <3>1, <3>3, <3>4 DEF UserGrants
  <2>4. ASSUME NEW j \in Requests PROVE CallGrants(j)'
    <3>1. CASE j = k
      <4>1. call'[k] = Idle \/ call'[k] = [call[k] EXCEPT !.pc = "perm"]
        BY <1>5 DEF Reenter, Approve, ChangeRole, Goto, Return, TypeOK
      <4>2. call'[k] = Idle \/ (call'[k].user = u /\ call'[k].role = r)
        BY <4>1 DEF TypeOK, Calls, Idle
      <4>. QED BY <2>1, <2>2, <3>1, <4>2 DEF CallGrants, Idle, TypeOK
    <3>2. CASE j # k
      <4>1. call'[j] = call[j]
        BY <1>5, <3>2 DEF Reenter, Approve, ChangeRole, Goto, Return, TypeOK
      <4>2. call[j].pc \in {"issue", "perm"} => call[j].user \in Users
        BY CallAt DEF Idle
      <4>. QED BY <2>2, <4>1, <4>2 DEF GrantsRecorded, CallGrants, TypeOK
    <3>. QED BY <3>1, <3>2
  <2>. QED BY <2>3, <2>4 DEF GrantsRecorded
<1>6. CASE Enqueue(k) \/ ShutOut(k)
  <2>1. u \in Users
    BY <1>6, CallAt DEF Enqueue, ShutOut, Idle
  <2>2. \A v \in Users : UserGrants(v)'
    <3>1. row'[u].state \in {"requested", "kicked"}
      BY <1>6, <2>1 DEF Enqueue, ShutOut, Upsert, Row, TypeOK
    <3>2. \A v \in Users \ {u} : row'[v] = row[v]
      BY <1>6 DEF Enqueue, ShutOut, Upsert, TypeOK
    <3>. QED
      BY <1>6, <2>1, <3>1, <3>2
      DEF Enqueue, ShutOut, GrantsRecorded, UserGrants, Approved, Row
  <2>3. ShutOut(k) => r = "viewer"
    BY CallAt DEF ShutOut, Idle
  <2>4. \A j \in Requests : CallGrants(j)'
    <3>1. call'[k] = Idle \/ (ShutOut(k) /\ call'[k].role = "viewer")
      BY <1>6, <2>3 DEF Enqueue, ShutOut, Goto, Return, TypeOK, Calls, Idle
    <3>2. CallGrants(k)'
      BY <3>1 DEF CallGrants, Idle, PubRoles
    <3>3. \A j \in Requests \ {k} : call'[j] = call[j]
      BY <1>6 DEF Enqueue, ShutOut, Goto, Return, TypeOK
    <3>. QED BY <1>6, <3>2, <3>3 DEF Enqueue, ShutOut, GrantsRecorded, CallGrants
  <2>. QED BY <2>2, <2>4 DEF GrantsRecorded
<1>7. CASE ChangePermission(k)
  <2>1. u \in Users /\ r \in PubRoles
    BY <1>7, CallAt DEF ChangePermission, Idle
  <2>2. r \in granted[u]
    BY <1>7, <2>1 DEF ChangePermission, GrantsRecorded, CallGrants
  <2>3. ASSUME NEW v \in Users PROVE UserGrants(v)'
    <3>1. /\ conn'[v] \in PubRoles => conn'[v] \in granted[v]
          /\ token'[v] \in PubRoles => token'[v] \in granted[v]
          /\ \A x \in PubRoles : <<v, x>> \in late' => x \in granted[v]
      BY <1>7, <2>1, <2>2, ApplyGrants, FailGrants
      DEF ChangePermission, GrantsRecorded, UserGrants
    <3>2. ASSUME NEW x \in PubRoles, loops'[v][x] > 0 PROVE x \in granted[v]
      <4>1. loops'[v][x] = loops[v][x] \/ (v = u /\ x = r)
        BY <1>7, <2>1 DEF ChangePermission, TypeOK
      <4>. QED BY <2>2, <3>2, <4>1 DEF GrantsRecorded, UserGrants
    <3>. QED
      BY <1>7, <3>1, <3>2
      DEF ChangePermission, GrantsRecorded, UserGrants, Approved
  <2>4. \A j \in Requests : CallGrants(j)'
    BY <1>7 DEF ChangePermission, Return, Idle, GrantsRecorded, CallGrants, TypeOK
  <2>. QED BY <2>3, <2>4 DEF GrantsRecorded
<1>8. CASE Revoke(k)
  <2>1. u \in Users
    BY <1>8, CallAt DEF Revoke, Idle
  <2>2. ASSUME NEW v \in Users PROVE UserGrants(v)'
    <3>1. {"viewer", "off"} \cap PubRoles = {} BY DEF PubRoles
    <3>2. UserGrants(v) /\ UserGrants(u) BY <2>1 DEF GrantsRecorded
    <3>3. \E e \in {"viewer", "off"} : (Apply(u, e) /\ late' = late) \/ Fail(u, e)
      BY <1>8 DEF Revoke
    <3>4. /\ conn'[v] \in PubRoles => conn'[v] \in granted[v]
          /\ token'[v] \in PubRoles => token'[v] \in granted[v]
          /\ \A x \in PubRoles : <<v, x>> \in late' => x \in granted[v]
      BY <2>1, <3>1, <3>2, <3>3, ApplyGrants, FailGrants DEF UserGrants
    <3>. QED
      BY <1>8, <3>2, <3>4 DEF Revoke, UserGrants, Approved
  <2>3. \A j \in Requests : CallGrants(j)'
    BY <1>8 DEF Revoke, Return, Idle, GrantsRecorded, CallGrants, TypeOK
  <2>. QED BY <2>2, <2>3 DEF GrantsRecorded
<1>. QED BY <1>2, <1>3, <1>4, <1>5, <1>6, <1>7, <1>8 DEF Continue

LEMMA BackgroundGrants ==
    ASSUME TypeOK, GrantsRecorded, NEW u \in Users, Background(u)
    PROVE  GrantsRecorded'
<1>1. UserGrants(u) BY DEF GrantsRecorded
<1>2. ASSUME UNCHANGED <<row, call, granted>>,
             \A v \in Users : \A r \in PubRoles : loops'[v][r] > 0 => loops[v][r] > 0,
             \A v \in Users :
                /\ conn'[v] \in PubRoles => conn'[v] \in granted[v]
                /\ token'[v] \in PubRoles => token'[v] \in granted[v]
                /\ \A r \in PubRoles : <<v, r>> \in late' => r \in granted[v]
      PROVE  GrantsRecorded'
  BY <1>2 DEF GrantsRecorded, UserGrants, CallGrants, Approved
<1>3. ASSUME NEW r \in PubRoles, RetryApplies(u, r) PROVE GrantsRecorded'
  <2>1. r \in granted[u] BY <1>1, <1>3 DEF RetryApplies, UserGrants
  <2>2. \A v \in Users : UserGrants(v) BY DEF GrantsRecorded
  <2>3. \A v \in Users :
           /\ conn'[v] \in PubRoles => conn'[v] \in granted[v]
           /\ token'[v] \in PubRoles => token'[v] \in granted[v]
           /\ \A x \in PubRoles : <<v, x>> \in late' => x \in granted[v]
    BY <1>1, <1>3, <2>1, <2>2, ApplyGrants DEF RetryApplies, UserGrants
  <2>4. \A v \in Users : \A x \in PubRoles : loops'[v][x] > 0 => loops[v][x] > 0
    BY <1>3 DEF RetryApplies, TypeOK
  <2>. QED BY <1>2, <1>3, <2>3, <2>4 DEF RetryApplies
<1>4. ASSUME NEW r \in PubRoles, RetryFails(u, r) PROVE GrantsRecorded'
  <2>1. r \in granted[u] BY <1>1, <1>4 DEF RetryFails, UserGrants
  <2>2. \A v \in Users : UserGrants(v) BY DEF GrantsRecorded
  <2>3. \A v \in Users :
           /\ conn'[v] \in PubRoles => conn'[v] \in granted[v]
           /\ token'[v] \in PubRoles => token'[v] \in granted[v]
           /\ \A x \in PubRoles : <<v, x>> \in late' => x \in granted[v]
    BY <1>1, <1>4, <2>1, <2>2, FailGrants DEF RetryFails
  <2>4. \A v \in Users : \A x \in PubRoles : loops'[v][x] > 0 => loops[v][x] > 0
    <3>1. loops' = loops \/ loops' = [loops EXCEPT ![u][r] = @ - 1]
      BY <1>4 DEF RetryFails
    <3>2. loops[u][r] > 0 BY <1>4 DEF RetryFails
    <3>3. loops \in [Users -> [PubRoles -> Nat]] BY DEF TypeOK
    <3>4. CASE loops' = [loops EXCEPT ![u][r] = @ - 1]
      <4>1. \A v \in Users, x \in PubRoles : loops'[v][x] # loops[v][x] => v = u /\ x = r
        BY <3>3, <3>4
      <4>. QED BY <3>2, <4>1
    <3>. QED BY <3>1, <3>4
  <2>. QED BY <1>2, <1>4, <2>3, <2>4 DEF RetryFails
<1>5. ASSUME NEW e \in Roles \cup {"off"}, LateLands(u, e) PROVE GrantsRecorded'
  <2>1. e \in PubRoles => e \in granted[u] BY <1>1, <1>5 DEF LateLands, UserGrants
  <2>2. \A v \in Users : UserGrants(v) BY DEF GrantsRecorded
  <2>3. \A v \in Users :
           /\ conn'[v] \in PubRoles => conn'[v] \in granted[v]
           /\ token'[v] \in PubRoles => token'[v] \in granted[v]
           /\ \A x \in PubRoles : <<v, x>> \in late' => x \in granted[v]
    BY <1>1, <1>5, <2>1, <2>2, ApplyGrants DEF LateLands, UserGrants
  <2>. QED BY <1>2, <1>5, <2>3 DEF LateLands
<1>. QED BY <1>3, <1>4, <1>5 DEF Background

LEMMA OutsideGrants ==
    ASSUME TypeOK, GrantsRecorded, NEW u \in Users, Outside(u)
    PROVE  GrantsRecorded'
<1>1. \A k \in Requests : CallGrants(k)'
  BY DEF Outside, Connect, Drop, Expire, ParticipantJoined, ParticipantLeft, HookLost,
         GrantsRecorded, CallGrants
<1>2. ASSUME NEW v \in Users PROVE UserGrants(v)'
  <2>1. UserGrants(v) BY DEF GrantsRecorded
  <2>2. CASE Connect(u) \/ Drop(u) \/ Expire(u)
    <3>1. conn'[v] \in PubRoles => conn'[v] \in {conn[v], token[v]}
      BY <2>2 DEF Connect, Drop, Expire, TypeOK, PubRoles
    <3>2. token'[v] \in PubRoles => token'[v] = token[v]
      BY <2>2 DEF Connect, Drop, Expire, TypeOK, PubRoles
    <3>. QED
      BY <2>1, <2>2, <3>1, <3>2
      DEF Connect, Drop, Expire, UserGrants, Approved
  <2>3. CASE ParticipantJoined(u) \/ ParticipantLeft(u)
    <3>1. \/ row'[v] = row[v]
          \/ row'[v].role = "viewer"
          \/ row'[v].state \in {"left", "kicked"}
      BY <2>3
      DEF ParticipantJoined, ParticipantLeft, StateAfterLeft, Upsert, Row, TypeOK
    <3>. QED
      BY <2>1, <2>3, <3>1
      DEF ParticipantJoined, ParticipantLeft, UserGrants, Approved, Row, PubRoles
  <2>4. CASE \E h \in {"joined", "left"} : HookLost(u, h)
    BY <2>1, <2>4 DEF HookLost, UserGrants, Approved
  <2>. QED BY <2>2, <2>3, <2>4 DEF Outside
<1>. QED BY <1>1, <1>2 DEF GrantsRecorded

LEMMA NextGrants == TypeOK /\ GrantsRecorded /\ [Next]_vars => GrantsRecorded'
<1>1. ASSUME TypeOK, GrantsRecorded, NEW k \in Requests, Abort(k) PROVE GrantsRecorded'
  <2>1. CallGrants(k)' /\ \A j \in Requests \ {k} : call'[j] = call[j]
    BY <1>1 DEF Abort, Return, Idle, CallGrants, TypeOK
  <2>. QED BY <1>1, <2>1, OnlyCallsMove DEF Abort
<1>2. ASSUME TypeOK, GrantsRecorded, Restart PROVE GrantsRecorded'
  BY <1>2
  DEF Restart, Idle, GrantsRecorded, UserGrants, CallGrants, Approved,
      PubRoles
<1>3. ASSUME GrantsRecorded, UNCHANGED vars PROVE GrantsRecorded'
  BY <1>3 DEF vars, GrantsRecorded, UserGrants, CallGrants, Approved
<1>. QED
  BY <1>1, <1>2, <1>3, BeginGrants, ContinueGrants, BackgroundGrants, OutsideGrants DEF Next

\* Nobody ever publishes, or holds the means to, without an approval on record
\* for that role, whatever calls, hooks, failures and restarts interleave.
THEOREM GrantsAlwaysRecorded == Spec => []GrantsRecorded
BY InitType, NextType, InitGrants, NextGrants, PTL DEF Spec

-----------------------------------------------------------------------------
(* The slot limit.                                                         *)

\* The calls that passed the slot check for r and have not written yet.
Committing(r) == {k \in Requests : call[k].pc = "write" /\ call[k].role = r}

\* SlotBound is not inductive: it says nothing of the calls that are about to
\* write.  Counted with them, a role stays within its bound step by step.
SlotInv ==
    \A r \in PubRoles :
        Cardinality(Approved(r)) + Cardinality(Committing(r))
            <= Cap(r) + Cardinality(Requests) - 1

LEMMA Sizes ==
    ASSUME NEW r \in PubRoles
    PROVE  /\ IsFiniteSet(Approved(r)) /\ Cardinality(Approved(r)) \in Nat
           /\ IsFiniteSet(Committing(r)) /\ Cardinality(Committing(r)) \in Nat
           /\ Cardinality(Committing(r)) <= Cardinality(Requests)
           /\ Cardinality(Requests) \in Nat \ {0}
           /\ Cap(r) \in Nat
<1>1. Approved(r) \subseteq Users /\ Committing(r) \subseteq Requests
  BY DEF Approved, Committing
<1>2. IsFiniteSet(Users) /\ IsFiniteSet(Requests) /\ Requests # {} /\ Cap(r) \in Nat
  BY ParticipationAssumption DEF Cap
<1>3. /\ IsFiniteSet(Approved(r))
      /\ IsFiniteSet(Committing(r)) /\ Cardinality(Committing(r)) <= Cardinality(Requests)
  BY <1>1, <1>2, FS_Subset
<1>4. Cardinality(Requests) # 0
  BY <1>2, FS_EmptySet
<1>. QED BY <1>2, <1>3, <1>4, FS_CardinalityType

\* What a step can do to a role: nothing new; one more call past the check, at
\* a moment when there is a slot; one call done with its write.
Shrinks(r) == Approved(r)' \subseteq Approved(r) /\ Committing(r)' \subseteq Committing(r)
Checks(r)  == Approved(r)' = Approved(r) /\ HasSlot(r)
Commits(r) ==
    \E u \in Users, k \in Committing(r) :
        /\ Approved(r)' \subseteq Approved(r) \cup {u}
        /\ Committing(r)' \subseteq Committing(r) \ {k}

LEMMA OneMore ==
    ASSUME NEW S, NEW x, IsFiniteSet(S)
    PROVE  IsFiniteSet(S \cup {x}) /\ Cardinality(S \cup {x}) <= Cardinality(S) + 1
<1>1. Cardinality(S) \in Nat
  BY FS_CardinalityType
<1>2. /\ IsFiniteSet(S \cup {x})
      /\ \/ Cardinality(S \cup {x}) = Cardinality(S)
         \/ Cardinality(S \cup {x}) = Cardinality(S) + 1
  BY FS_AddElement
<1>. QED BY <1>1, <1>2

LEMMA SlotStep ==
    ASSUME SlotInv, NEW r \in PubRoles, Shrinks(r) \/ Checks(r) \/ Commits(r)
    PROVE  Cardinality(Approved(r)') + Cardinality(Committing(r)')
               <= Cap(r) + Cardinality(Requests) - 1
<1>. DEFINE A == Approved(r)
            C == Committing(r)
            A1 == Approved(r)'
            C1 == Committing(r)'
            N == Cardinality(Requests)
<1>1. Cardinality(A) + Cardinality(C) <= Cap(r) + N - 1
  BY DEF SlotInv
<1>2. A1 \subseteq Users /\ C1 \subseteq Requests
  BY DEF Approved, Committing
<1>3. /\ IsFiniteSet(A1) /\ Cardinality(A1) \in Nat
      /\ IsFiniteSet(C1) /\ Cardinality(C1) \in Nat /\ Cardinality(C1) <= N
  BY <1>2, FS_Subset, FS_CardinalityType, ParticipationAssumption
<1>. HIDE DEF A, C, A1, C1, N
<1>4. /\ IsFiniteSet(A) /\ Cardinality(A) \in Nat
      /\ IsFiniteSet(C) /\ Cardinality(C) \in Nat
      /\ N \in Nat \ {0} /\ Cap(r) \in Nat
  BY Sizes DEF A, C, N
<1>5. CASE Shrinks(r)
  <2>1. A1 \subseteq A /\ C1 \subseteq C
    BY <1>5 DEF Shrinks, A, A1, C, C1
  <2>2. Cardinality(A1) <= Cardinality(A) /\ Cardinality(C1) <= Cardinality(C)
    BY <1>4, <2>1, FS_Subset
  <2>. QED BY <1>1, <1>3, <1>4, <2>2 DEF A1, C1, N
<1>6. CASE Checks(r)
  <2>1. Cardinality(A1) < Cap(r)
    BY <1>6 DEF Checks, HasSlot, A1
  <2>. QED BY <1>3, <1>4, <2>1 DEF A1, C1, N
<1>7. CASE Commits(r)
  <2>1. PICK u \in Users, k \in C : A1 \subseteq A \cup {u} /\ C1 \subseteq C \ {k}
    BY <1>7 DEF Commits, A, A1, C, C1
  <2>2. IsFiniteSet(A \cup {u}) /\ Cardinality(A \cup {u}) <= Cardinality(A) + 1
    BY <1>4, OneMore
  <2>3. IsFiniteSet(C \ {k}) /\ Cardinality(C \ {k}) = Cardinality(C) - 1
    BY <1>4, FS_RemoveElement
  <2>4. /\ Cardinality(A1) <= Cardinality(A \cup {u})
        /\ Cardinality(C1) <= Cardinality(C \ {k})
    BY <2>1, <2>2, <2>3, FS_Subset
  <2>5. Cardinality(A \cup {u}) \in Nat
    BY <2>2, FS_CardinalityType
  <2>. QED BY <1>1, <1>3, <1>4, <2>2, <2>3, <2>4, <2>5 DEF A1, C1, N
<1>. QED BY <1>5, <1>6, <1>7

\* A step that touches no row and moves no call to its write only shrinks.
LEMMA QuietSteps ==
    ASSUME NEW r \in PubRoles, row' = row,
           \A k \in Requests : call'[k] = call[k] \/ call'[k].pc # "write"
                                                 \/ call'[k].role \notin PubRoles
    PROVE  Shrinks(r)
BY DEF Shrinks, Approved, Committing

LEMMA BeginSlots ==
    ASSUME TypeOK, NEW k \in Requests, Begin(k), NEW r \in PubRoles
    PROVE  Shrinks(r)
<1>1. row' = row
  BY DEF Begin, BeginToken, BeginJoin, BeginApprove, BeginRoleChange, BeginReject, BeginKick
<1>2. \E o, u, x, p : Start(k, o, u, x, p) /\ (p # "write" \/ x = "viewer")
  BY DEF Begin, BeginToken, BeginJoin, BeginApprove, BeginRoleChange, BeginReject, BeginKick
<1>3. \A j \in Requests : call'[j] = call[j] \/ call'[j].pc # "write"
                                            \/ call'[j].role \notin PubRoles
  BY <1>2 DEF Start, PubRoles, TypeOK
<1>. QED BY <1>1, <1>3, QuietSteps

LEMMA ContinueSlots ==
    ASSUME TypeOK, NEW k \in Requests, Continue(k), NEW r \in PubRoles
    PROVE  Shrinks(r) \/ Checks(r) \/ Commits(r)
<1>. USE DEF At
<1>1. CASE \/ EnsureTokenRow(k) \/ Enqueue(k) \/ ShutOut(k)
  <2>1. call[k].user \in Users
    BY <1>1, CallAt DEF EnsureTokenRow, Enqueue, ShutOut, Idle
  <2>2. \A u \in Users : row'[u] = Row(r, "approved") => row[u] = Row(r, "approved")
    <3>1. CASE EnsureTokenRow(k)
      <4>1. call[k].role \in {"host", "viewer"}
        BY <3>1, CallAt DEF EnsureTokenRow, Idle
      <4>. QED BY <2>1, <3>1, <4>1 DEF EnsureTokenRow, EnsuredRow, Row, PubRoles, TypeOK
    <3>2. CASE Enqueue(k)
      BY <2>1, <3>2 DEF Enqueue, Upsert, Row, TypeOK
    <3>3. CASE ShutOut(k)
      BY <2>1, <3>3 DEF ShutOut, Upsert, Row, TypeOK
    <3>. QED BY <1>1, <3>1, <3>2, <3>3
  <2>3. \E p : (Goto(k, p) \/ Return(k)) /\ p # "write"
    BY <1>1 DEF EnsureTokenRow, Enqueue, ShutOut
  <2>4. \A j \in Requests : call'[j] = call[j] \/ call'[j].pc # "write"
    <3>1. call[k] \in Calls BY DEF TypeOK
    <3>. QED BY <2>3, <3>1 DEF Goto, Return, Idle, TypeOK, Calls
  <2>. QED BY <2>2, <2>4 DEF Shrinks, Approved, Committing
<1>2. CASE IssueToken(k) \/ ChangePermission(k) \/ Revoke(k)
  <2>1. Return(k) /\ row' = row
    BY <1>2 DEF IssueToken, ChangePermission, Revoke
  <2>2. \A j \in Requests : call'[j] = call[j] \/ call'[j].pc # "write"
    BY <2>1 DEF Return, Idle, TypeOK
  <2>. QED BY <2>1, <2>2, QuietSteps
<1>3. CASE CountForReentry(k) \/ CountSlots(k)
  <2>1. row' = row
    BY <1>3 DEF CountForReentry, CountSlots
  <2>2. CASE Goto(k, "write") /\ HasSlot(call[k].role)
    <3>1. CASE call[k].role = r
      BY <2>1, <2>2, <3>1 DEF Checks, Approved
    <3>2. CASE call[k].role # r
      <4>1. call'[k].role = call[k].role
        BY <2>2 DEF Goto, TypeOK, Calls
      <4>. QED BY <2>1, <2>2, <3>2, <4>1 DEF Shrinks, Approved, Committing, Goto, TypeOK
    <3>. QED BY <3>1, <3>2
  <2>3. CASE Goto(k, "queue") \/ Return(k)
    <3>1. call[k] \in Calls BY DEF TypeOK
    <3>2. \A j \in Requests : call'[j] = call[j] \/ call'[j].pc # "write"
      BY <2>3, <3>1 DEF Goto, Return, Idle, TypeOK, Calls
    <3>. QED BY <2>1, <3>2, QuietSteps
  <2>. QED BY <1>3, <2>2, <2>3 DEF CountForReentry, CountSlots
<1>4. CASE Reenter(k) \/ Approve(k) \/ ChangeRole(k)
  <2>1. /\ call[k].user \in Users /\ call[k].role \in PubRoles
        /\ call[k].pc = "write"
    BY <1>4, CallAt DEF Reenter, Approve, ChangeRole, Idle
  <2>2. row' = [row EXCEPT ![call[k].user] = Row(call[k].role, "approved")]
    BY <1>4 DEF Reenter, Approve, ChangeRole, Upsert
  <2>3. call'[k].pc # "write" /\ \A j \in Requests \ {k} : call'[j] = call[j]
    <3>1. call[k] \in Calls BY DEF TypeOK
    <3>. QED BY <1>4, <3>1 DEF Reenter, Approve, ChangeRole, Goto, Return, Idle, TypeOK, Calls
  <2>4. CASE call[k].role = r
    <3>1. k \in Committing(r) BY <2>1, <2>4 DEF Committing
    <3>2. Approved(r)' \subseteq Approved(r) \cup {call[k].user}
      BY <2>1, <2>2 DEF Approved, TypeOK
    <3>3. Committing(r)' \subseteq Committing(r) \ {k}
      BY <2>3 DEF Committing
    <3>. QED BY <2>1, <3>1, <3>2, <3>3 DEF Commits
  <2>5. CASE call[k].role # r
    <3>1. Approved(r)' \subseteq Approved(r)
      BY <2>1, <2>2, <2>5 DEF Approved, Row, TypeOK
    <3>2. Committing(r)' \subseteq Committing(r)
      BY <2>3 DEF Committing
    <3>. QED BY <3>1, <3>2 DEF Shrinks
  <2>. QED BY <2>4, <2>5
<1>. QED BY <1>1, <1>2, <1>3, <1>4 DEF Continue

LEMMA OtherSlots ==
    ASSUME TypeOK, NEW r \in PubRoles,
           \/ \E k \in Requests : Abort(k)
           \/ \E u \in Users : Background(u) \/ Outside(u)
           \/ Restart
           \/ UNCHANGED vars
    PROVE  Shrinks(r)
<1>1. \A k \in Requests : call'[k] = call[k] \/ call'[k] = Idle
  BY DEF Abort, Return, Background, RetryApplies, RetryFails, LateLands, Outside, Connect,
         Drop, Expire, ParticipantJoined, ParticipantLeft, HookLost, Restart, vars, TypeOK
<1>2. \A k \in Requests : call'[k] = call[k] \/ call'[k].pc # "write"
  BY <1>1 DEF Idle
<1>3. CASE \E u \in Users : ParticipantJoined(u) \/ ParticipantLeft(u)
  <2>1. \A v \in Users : row'[v] = Row(r, "approved") => row[v] = Row(r, "approved")
    BY <1>3 DEF ParticipantJoined, ParticipantLeft, StateAfterLeft, Upsert, Row, PubRoles, TypeOK
  <2>. QED BY <1>2, <2>1 DEF Shrinks, Approved, Committing
<1>4. CASE ~\E u \in Users : ParticipantJoined(u) \/ ParticipantLeft(u)
  <2>1. row' = row
    BY <1>4 DEF Abort, Background, RetryApplies, RetryFails, LateLands, Outside, Connect,
         Drop, Expire, HookLost, Restart, vars
  <2>. QED BY <1>2, <2>1, QuietSteps
<1>. QED BY <1>3, <1>4

LEMMA NextSlots == TypeOK /\ SlotInv /\ [Next]_vars => SlotInv'
<1>. SUFFICES ASSUME TypeOK, SlotInv, [Next]_vars, NEW r \in PubRoles
              PROVE  Cardinality(Approved(r)') + Cardinality(Committing(r)')
                         <= Cap(r) + Cardinality(Requests) - 1
  BY DEF SlotInv, Cap
<1>1. Shrinks(r) \/ Checks(r) \/ Commits(r)
  BY BeginSlots, ContinueSlots, OtherSlots DEF Next
<1>. QED BY <1>1, SlotStep

LEMMA InitSlots == Init => SlotInv
<1>. SUFFICES ASSUME Init, NEW r \in PubRoles
              PROVE  Cardinality(Approved(r)) + Cardinality(Committing(r))
                         <= Cap(r) + Cardinality(Requests) - 1
  BY DEF SlotInv
<1>1. Approved(r) = {} /\ Committing(r) = {}
  BY DEF Init, Approved, Committing, Row, NoRow, Idle, PubRoles
<1>. QED BY <1>1, Sizes, FS_EmptySet

LEMMA SlotInvBound == SlotInv => SlotBound
BY Sizes DEF SlotInv, SlotBound

\* However approvals, role changes and re-entries interleave, a role is over
\* its limit by at most the number of other handlers; with one handler at a
\* time max_guests and max_speakers are exact.
THEOREM SlotsBounded == Spec => []SlotBound
BY InitType, NextType, InitSlots, NextSlots, SlotInvBound, PTL DEF Spec

-----------------------------------------------------------------------------
(* What a step may do to the row of somebody else than the host.           *)

\* Only the host's own token request overwrites a row with the role "host".
HostCalls ==
    \A k \in Requests :
        call[k].op = "token" /\ call[k].role = "host" => call[k].user = Host

LEMMA InitHostCalls == Init => HostCalls
BY DEF Init, HostCalls, Idle

LEMMA NextHostCalls ==
    ASSUME TypeOK, HostCalls, [Next]_vars
    PROVE  HostCalls'
<1>1. ASSUME NEW k \in Requests, Begin(k) PROVE HostCalls'
  <2>. PICK u \in Users :
          \/ \E want \in {"publish", "watch"} : BeginToken(k, u, want)
          \/ BeginJoin(k, u)
          \/ \E r \in PubRoles : BeginApprove(k, u, r) \/ BeginRoleChange(k, u, r)
          \/ BeginReject(k, u)
          \/ BeginKick(k, u)
    BY <1>1 DEF Begin
  <2>1. /\ \A j \in Requests \ {k} : call'[j] = call[j]
        /\ call'[k].op = "token" /\ call'[k].role = "host" => call'[k].user = Host
    <3>1. CASE \E want \in {"publish", "watch"} : BeginToken(k, u, want)
      BY <3>1 DEF BeginToken, Start, IsPublisher, HasPublishRole, PubRoles, TypeOK
    <3>2. CASE ~\E want \in {"publish", "watch"} : BeginToken(k, u, want)
      BY <3>2 DEF BeginJoin, BeginApprove, BeginRoleChange, BeginReject, BeginKick, Start,
                  TypeOK
    <3>. QED BY <3>1, <3>2
  <2>. QED BY <2>1 DEF HostCalls
<1>2. ASSUME NEW k \in Requests, Continue(k) PROVE HostCalls'
  <2>1. Return(k) \/ \E p \in {"issue", "write", "queue", "perm", "remove"} : Goto(k, p)
    BY <1>2 DEF Continue, EnsureTokenRow, IssueToken, CountForReentry, Reenter, Enqueue,
                CountSlots, Approve, ChangeRole, ChangePermission, ShutOut, Revoke
  <2>2. CASE Return(k)
    BY <2>2 DEF Return, HostCalls, Idle, TypeOK
  <2>3. ASSUME NEW p, Goto(k, p) PROVE HostCalls'
    <3>1. \A j \in Requests : /\ call'[j].op = call[j].op
                              /\ call'[j].role = call[j].role
                              /\ call'[j].user = call[j].user
      <4>1. call[k] \in Calls BY DEF TypeOK
      <4>2. DOMAIN call[k] = {"op", "user", "role", "pc"} BY <4>1 DEF Calls, Idle
      <4>. QED BY <2>3, <4>1 DEF Goto, TypeOK, Calls, Idle
    <3>. QED BY <3>1 DEF HostCalls
  <2>. QED BY <2>1, <2>2, <2>3
<1>3. ASSUME NEW k \in Requests, Abort(k) PROVE HostCalls'
  BY <1>3 DEF Abort, Return, HostCalls, Idle, TypeOK
<1>4. ASSUME NEW u \in Users, Background(u) \/ Outside(u) PROVE HostCalls'
  <2>1. call' = call
    BY <1>4 DEF Background, RetryApplies, RetryFails, LateLands, Outside, Connect, Drop,
                Expire, ParticipantJoined, ParticipantLeft, HookLost
  <2>. QED BY <2>1 DEF HostCalls
<1>5. CASE Restart
  BY <1>5 DEF Restart, HostCalls, Idle
<1>6. CASE UNCHANGED vars
  BY <1>6 DEF vars, HostCalls
<1>. QED BY <1>1, <1>2, <1>3, <1>4, <1>5, <1>6 DEF Next

\* The writes of the handlers, told apart by what they leave in a row.
Written(u) ==
    \/ Writing(u, {"join", "approve", "role"}) /\ row'[u].role \in PubRoles
    \/ Writing(u, {"reject", "kick"}) /\ row'[u].state = "kicked"
    \/ row[u] = NoRow

\* A handler changes its subject's row by such a write, and no other row.
LEMMA HandlerWrites ==
    ASSUME TypeOK, HostCalls, NEW k \in Requests, Continue(k),
           NEW u \in Users \ {Host}, row'[u] # row[u]
    PROVE  Written(u)
<1>. USE DEF At
<1>1. CASE EnsureTokenRow(k)
  <2>1. call[k].user = u
    BY <1>1 DEF EnsureTokenRow, TypeOK
  <2>2. call[k].role # "host"
    BY <1>1, <2>1 DEF EnsureTokenRow, HostCalls
  <2>. QED BY <1>1, <2>1, <2>2 DEF EnsureTokenRow, EnsuredRow, Written, TypeOK
<1>2. CASE Reenter(k)
  <2>1. call[k].user = u /\ call[k].role \in PubRoles
    BY <1>2, CallAt DEF Reenter, Upsert, TypeOK, Idle
  <2>2. row'[u].role \in PubRoles
    BY <1>2, <2>1 DEF Reenter, Upsert, Row, TypeOK
  <2>3. Writing(u, {"join", "approve", "role"})
    BY <1>2, <2>1 DEF Reenter, Return, Idle, Writing, TypeOK
  <2>. QED BY <2>2, <2>3 DEF Written
<1>3. CASE Enqueue(k)
  <2>1. call[k].user = u
    BY <1>3 DEF Enqueue, Upsert, TypeOK
  <2>2. row'[u].role \in PubRoles
    BY <1>3, <2>1 DEF Enqueue, Upsert, Row, PubRoles, TypeOK
  <2>3. Writing(u, {"join", "approve", "role"})
    BY <1>3, <2>1 DEF Enqueue, Return, Idle, Writing, TypeOK
  <2>. QED BY <2>2, <2>3 DEF Written
<1>4. CASE Approve(k)
  <2>1. call[k].user = u /\ call[k].role \in PubRoles
    BY <1>4, CallAt DEF Approve, Upsert, TypeOK, Idle
  <2>2. row'[u].role \in PubRoles
    BY <1>4, <2>1 DEF Approve, Upsert, Row, TypeOK
  <2>3. Writing(u, {"join", "approve", "role"})
    BY <1>4, <2>1 DEF Approve, Return, Idle, Writing, TypeOK
  <2>. QED BY <2>2, <2>3 DEF Written
<1>5. CASE ChangeRole(k)
  <2>1. call[k].user = u /\ call[k].role \in PubRoles
    BY <1>5, CallAt DEF ChangeRole, Upsert, TypeOK, Idle
  <2>2. row'[u].role \in PubRoles
    BY <1>5, <2>1 DEF ChangeRole, Upsert, Row, TypeOK
  <2>4. call'[k] # call[k]
    <3>1. call[k] \in Calls /\ call'[k] = [call[k] EXCEPT !.pc = "perm"]
      BY <1>5 DEF ChangeRole, Goto, TypeOK
    <3>. QED BY <1>5, <3>1 DEF ChangeRole, Calls, Idle
  <2>3. Writing(u, {"join", "approve", "role"})
    BY <1>5, <2>1, <2>4 DEF ChangeRole, Writing
  <2>. QED BY <2>2, <2>3 DEF Written
<1>6. CASE ShutOut(k)
  <2>1. call[k].user = u
    BY <1>6 DEF ShutOut, Upsert, TypeOK
  <2>2. row'[u].state = "kicked"
    BY <1>6, <2>1 DEF ShutOut, Upsert, Row, TypeOK
  <2>3. call'[k] # call[k]
    <3>1. call[k] \in Calls /\ call'[k].pc \in {"perm", "remove"}
      BY <1>6 DEF ShutOut, Goto, TypeOK, Calls, Idle
    <3>. QED BY <1>6, <3>1 DEF ShutOut
  <2>4. Writing(u, {"reject", "kick"})
    BY <1>6, <2>1, <2>3 DEF ShutOut, Writing
  <2>. QED BY <2>2, <2>4 DEF Written
<1>7. CASE IssueToken(k) \/ CountForReentry(k) \/ CountSlots(k) \/ ChangePermission(k)
           \/ Revoke(k)
  BY <1>7 DEF IssueToken, CountForReentry, CountSlots, ChangePermission, Revoke
<1>. QED BY <1>1, <1>2, <1>3, <1>4, <1>5, <1>6, <1>7 DEF Continue

\* The webhooks keep the role of a row and the state "kicked".
LEMMA OthersKeep ==
    ASSUME TypeOK, NEW v \in Users, Background(v) \/ Outside(v),
           NEW u \in Users, row'[u] # row[u]
    PROVE  \/ row[u] = NoRow
           \/ /\ row'[u].role = row[u].role
              /\ row[u].state = "kicked" => row'[u].state = "kicked"
<1>1. ParticipantJoined(v) \/ ParticipantLeft(v)
  BY DEF Background, RetryApplies, RetryFails, LateLands, Outside, Connect, Drop,
         Expire, HookLost
<1>. QED BY <1>1 DEF ParticipantJoined, ParticipantLeft, Upsert, Row, StateAfterLeft, TypeOK

\* Every step, for a row it changes.
LEMMA RowChanges ==
    ASSUME TypeOK, HostCalls, [Next]_vars, NEW u \in Users \ {Host}, row'[u] # row[u]
    PROVE  \/ Written(u)
           \/ /\ row'[u].role = row[u].role
              /\ row[u].state = "kicked" => row'[u].state = "kicked"
<1>1. ASSUME NEW k \in Requests, Begin(k) \/ Abort(k) PROVE FALSE
  BY <1>1 DEF Begin, BeginToken, BeginJoin, BeginApprove, BeginRoleChange, BeginReject,
              BeginKick, Abort
<1>2. ~Restart /\ ~UNCHANGED vars
  BY DEF Restart, vars
<1>. QED BY <1>1, <1>2, HandlerWrites, OthersKeep DEF Next, Written

\* A rejection or a kick stands until the user asks again or the host decides
\* again, for any number of calls under way and any delay, loss or repetition of
\* webhooks.
THEOREM KicksStand == Spec => KickStands
<1>1. TypeOK /\ HostCalls /\ [Next]_vars
      => [\A u \in Users \ {Host} :
            row[u].state = "kicked" /\ row'[u].state # "kicked"
            => Writing(u, {"join", "approve", "role"})]_vars
  <2>. SUFFICES ASSUME TypeOK, HostCalls, [Next]_vars, NEW u \in Users \ {Host},
                       row[u].state = "kicked", row'[u].state # "kicked"
                PROVE  Writing(u, {"join", "approve", "role"})
    OBVIOUS
  <2>1. Written(u)
    BY RowChanges
  <2>. QED BY <2>1 DEF Written, NoRow
<1>. QED BY <1>1, InitType, NextType, InitHostCalls, NextHostCalls, PTL DEF Spec, KickStands

\* A publishing role is lost only by a rejection or a kick: no re-entry, no viewer
\* token and no webhook takes it.
THEOREM DemotionsAreModeration == Spec => DemotionNeedsModeration
<1>1. TypeOK /\ HostCalls /\ [Next]_vars
      => [\A u \in Users \ {Host} :
            HasPublishRole(u) /\ row'[u].role \notin PubRoles
            => Writing(u, {"reject", "kick"})]_vars
  <2>. SUFFICES ASSUME TypeOK, HostCalls, [Next]_vars, NEW u \in Users \ {Host},
                       HasPublishRole(u), row'[u].role \notin PubRoles
                PROVE  Writing(u, {"reject", "kick"})
    OBVIOUS
  <2>1. Written(u)
    BY RowChanges DEF HasPublishRole
  <2>2. row[u] # NoRow
    BY DEF HasPublishRole, NoRow, PubRoles
  <2>. QED BY <2>1, <2>2 DEF Written
<1>. QED
  BY <1>1, InitType, NextType, InitHostCalls, NextHostCalls, PTL
  DEF Spec, DemotionNeedsModeration

-----------------------------------------------------------------------------
(* The host's queue page with the handlers behind it.                      *)

\* What the page adds leaves the rows alone, or is the beginning or the next step of a
\* handler.
LEMMA PageStep == [QNext]_qvars => [Next]_vars
<1>. SUFFICES ASSUME [QNext]_qvars PROVE [Next]_vars
  OBVIOUS
<1>1. ASSUME NEW q \in Refreshes, RefreshStep(q) PROVE UNCHANGED vars
  BY <1>1 DEF RefreshStep, Refresh, ReadRequests, ReadDetail, Show
<1>2. ASSUME NEW k \in Requests, Serve(k) PROVE Continue(k)
  BY <1>2 DEF Serve, Continue
<1>3. ASSUME NEW k \in Requests, Answered(k) PROVE UNCHANGED vars
  BY <1>3 DEF Answered
<1>4. ASSUME NEW k \in Requests, NEW u \in Users, GuestAsks(k, u) \/ PressReject(k, u)
      PROVE  Begin(k)
  BY <1>4 DEF GuestAsks, PressReject, Begin
<1>5. ASSUME NEW k \in Requests, NEW u \in Users, NEW r \in Buttons, PressApprove(k, u, r)
      PROVE  Begin(k) \/ UNCHANGED vars
  <2>1. r \in PubRoles
    BY HostQueueAssumption
  <2>. QED BY <1>5, <2>1 DEF PressApprove, Begin
<1>6. UNCHANGED qvars => UNCHANGED vars
  BY DEF qvars
<1>. QED BY <1>1, <1>2, <1>3, <1>4, <1>5, <1>6 DEF QNext, Next

\* The queue page implements Participation: however stale its list, whichever clicks
\* overlap and whatever answers are lost, it calls for nothing the handlers would not do.
THEOREM PageIsParticipation == QSpec => Spec
<1>1. QInit => Init
  BY DEF QInit
<1>. QED BY <1>1, PageStep, PTL DEF QSpec, Spec

\* So what is proved of the handlers holds of a host who decides by a stale list: no
\* permission without an approval, no slot too many, and a kick stands.
THEOREM StaleListsAreSafe ==
    QSpec => [](GrantsRecorded /\ SlotBound) /\ KickStands /\ DemotionNeedsModeration
BY PageIsParticipation, GrantsAlwaysRecorded, SlotsBounded, KicksStand, DemotionsAreModeration,
   PTL
=============================================================================

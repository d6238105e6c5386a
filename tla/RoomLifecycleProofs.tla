------------------------ MODULE RoomLifecycleProofs ------------------------
(* Theorems about RoomLifecycle, for every number of sweeps, whatever the  *)
(* order of the webhooks, with and without faults.                         *)
EXTENDS RoomLifecycle, SequenceTheorems, TLAPS

-----------------------------------------------------------------------------
(* Type correctness.                                                       *)

Types == [event : Events, pc : {"queued", "half", "mark"}]

LEMMA RemoveAtType ==
    ASSUME NEW S, NEW s \in Seq(S), NEW i \in DOMAIN s
    PROVE  RemoveAt(s, i) \in Seq(S)
<1>1. /\ i \in 1 .. Len(s) /\ Len(s) \in Nat
      /\ \A j \in 1 .. Len(s) : s[j] \in S
  OBVIOUS
<1>2. /\ SubSeq(s, 1, i - 1) \in Seq(S)
      /\ SubSeq(s, i + 1, Len(s)) \in Seq(S)
  BY <1>1, SubSeqProperties
<1>. QED BY <1>2 DEF RemoveAt

\* Queues of webhooks: what the actions append, advance, finish, send again.
LEMMA HooksType ==
    ASSUME hooks \in Seq(Types)
    PROVE  /\ \A e \in Events : Append(hooks, New(e)) \in Seq(Types)
           /\ \A e, f \in Events : /\ hooks \o <<New(e)>> \o <<New(f)>> \in Seq(Types)
                                   /\ hooks \o << >> \o <<New(f)>> \in Seq(Types)
           /\ \A i \in DOMAIN hooks : RemoveAt(hooks, i) \in Seq(Types)
           /\ \A i \in DOMAIN hooks, p \in {"half", "mark"} :
                 [hooks EXCEPT ![i].pc = p] \in Seq(Types)
           /\ [i \in DOMAIN hooks |-> New(hooks[i].event)] \in Seq(Types)
<1>1. \A e \in Events : New(e) \in Types /\ <<New(e)>> \in Seq(Types)
  BY DEF New, Hook, Types
<1>2. << >> \in Seq(Types)
  OBVIOUS
<1>3. \A i \in DOMAIN hooks : RemoveAt(hooks, i) \in Seq(Types)
  BY RemoveAtType
<1>4. \A i \in DOMAIN hooks : hooks[i] \in Types
  OBVIOUS
<1>5. ASSUME NEW i \in DOMAIN hooks, NEW p \in {"half", "mark"}
      PROVE  [hooks EXCEPT ![i].pc = p] \in Seq(Types)
  <2>1. [hooks[i] EXCEPT !.pc = p] \in Types
    BY <1>4 DEF Types
  <2>2. [hooks EXCEPT ![i] = [hooks[i] EXCEPT !.pc = p]] \in Seq(Types)
    BY <2>1, ExceptSeq
  <2>. QED BY <2>2
<1>6. [i \in DOMAIN hooks |-> New(hooks[i].event)] \in Seq(Types)
  <2>1. Len(hooks) \in Nat /\ DOMAIN hooks = 1 .. Len(hooks)
    OBVIOUS
  <2>2. \A i \in 1 .. Len(hooks) : New(hooks[i].event) \in Types
    BY <1>1, <1>4, <2>1 DEF Types
  <2>3. [i \in 1 .. Len(hooks) |-> New(hooks[i].event)] \in [1 .. Len(hooks) -> Types]
    BY <2>2
  <2>4. [i \in 1 .. Len(hooks) |-> New(hooks[i].event)] \in Seq(Types)
    BY <2>1, <2>3, SeqDef
  <2>. QED BY <2>1, <2>4
<1>7. \A e \in Events : Append(hooks, New(e)) \in Seq(Types)
  BY <1>1
<1>8. ASSUME NEW e \in Events, NEW f \in Events
      PROVE  /\ hooks \o <<New(e)>> \o <<New(f)>> \in Seq(Types)
             /\ hooks \o << >> \o <<New(f)>> \in Seq(Types)
  <2>1. /\ hooks \o <<New(e)>> \in Seq(Types)
        /\ hooks \o << >> \in Seq(Types)
        /\ <<New(f)>> \in Seq(Types)
    BY <1>1, <1>2
  <2>. QED BY <2>1
<1>. QED BY <1>3, <1>5, <1>6, <1>7, <1>8

LEMMA CallType ==
    ASSUME TypeOK
    PROVE  /\ \A p \in {"done", "failed"} : Call("create", p) =>
                 call' \in [create : {"livekit", "done", "failed"},
                           token : {"idle", "mark", "issue"},
                           end : {"idle", "record", "delete"}]
           /\ \A p \in {"idle", "mark", "issue"} : Call("token", p) =>
                 call' \in [create : {"livekit", "done", "failed"},
                           token : {"idle", "mark", "issue"},
                           end : {"idle", "record", "delete"}]
           /\ \A p \in {"idle", "record", "delete"} : Call("end", p) =>
                 call' \in [create : {"livekit", "done", "failed"},
                           token : {"idle", "mark", "issue"},
                           end : {"idle", "record", "delete"}]
BY DEF TypeOK, Call

LEMMA CloseType ==
    ASSUME TypeOK, CloseRoom \/ UNCHANGED <<livekit, hooks>>
    PROVE  /\ lk' \in {"absent", "silent", "open"}
           /\ {hostOn', guestsOn', token', remade'} \subseteq BOOLEAN
           /\ hooks' \in Seq(Types)
<1>1. hooks \in Seq(Types) BY DEF TypeOK, Types
<1>2. CASE CloseRoom
  <2>1. hooks' \in Seq(Types)
    BY <1>1, <1>2, HooksType DEF CloseRoom, Events
  <2>. QED BY <1>2, <2>1 DEF CloseRoom, TypeOK
<1>3. CASE UNCHANGED <<livekit, hooks>>
  BY <1>1, <1>3 DEF livekit, TypeOK
<1>. QED BY <1>2, <1>3

LEMMA OpenType ==
    ASSUME TypeOK, OpenRoom \/ UNCHANGED <<lk, hooks>>
    PROVE  lk' \in {"absent", "silent", "open"} /\ hooks' \in Seq(Types)
<1>1. hooks \in Seq(Types) BY DEF TypeOK, Types
<1>2. OpenRoom => hooks' \in Seq(Types)
  BY <1>1, HooksType DEF OpenRoom, Events
<1>. QED BY <1>1, <1>2 DEF OpenRoom, TypeOK

LEMMA HandlersType ==
    ASSUME TypeOK, Handlers \/ BeginToken \/ BeginEnd
    PROVE  TypeOK'
<1>. USE CallType
<1>1. CASE CreateLiveKitRoom
  <2>1. OpenRoom \/ UNCHANGED <<lk, hooks>>
    BY <1>1 DEF CreateLiveKitRoom
  <2>2. lk' \in {"absent", "silent", "open"} /\ hooks' \in Seq(Types)
    BY <2>1, OpenType
  <2>. QED BY <1>1, <2>2 DEF CreateLiveKitRoom, TypeOK, Types, room, redis, bounds, history
<1>2. CASE BeginToken \/ BeginEnd
  BY <1>2 DEF BeginToken, BeginEnd, TypeOK, room, livekit, redis, bounds, history
<1>3. CASE MarkLiveForHost
  BY <1>3 DEF MarkLiveForHost, MarkLive, Active, TypeOK, room, livekit, redis, bounds, history
<1>4. CASE IssueToken
  BY <1>4 DEF IssueToken, TypeOK, room, livekit, redis, bounds, history
<1>5. CASE EndRecord
  BY <1>5 DEF EndRecord, TypeOK, room, livekit, redis, bounds, history
<1>6. CASE EndDelete
  <2>1. CloseRoom \/ UNCHANGED <<livekit, hooks>>
    BY <1>6 DEF EndDelete, DeleteRoom
  <2>. QED BY <1>6, <2>1, CloseType DEF EndDelete, TypeOK, Types, room, redis, bounds, history
<1>. QED BY <1>1, <1>2, <1>3, <1>4, <1>5, <1>6 DEF Handlers

LEMMA OutsideType ==
    ASSUME TypeOK,
           HostConnects \/ HostLeaves \/ GuestsCome \/ GuestsGo \/ EmptyTimeout
    PROVE  TypeOK'
<1>1. hooks \in Seq(Types) BY DEF TypeOK, Types
<1>2. CASE HostConnects
  <2>1. hooks' \in Seq(Types)
    BY <1>1, <1>2, HooksType DEF HostConnects, Events
  <2>2. joins' \in 0 .. MaxJoins
    BY <1>2, RoomLifecycleAssumption DEF HostConnects, TypeOK
  <2>3. remade' \in BOOLEAN
    BY <1>2 DEF HostConnects
  <2>4. /\ lk' = "open" /\ hostOn' = TRUE
        /\ UNCHANGED <<room, guestsOn, token, redis, api, crashes, history>>
    BY <1>2 DEF HostConnects
  <2>. QED
    BY <2>1, <2>2, <2>3, <2>4 DEF TypeOK, Types, room, redis, api, history
<1>3. CASE HostLeaves
  <2>1. hooks' \in Seq(Types)
    BY <1>1, <1>3, HooksType DEF HostLeaves, Events
  <2>2. hostOn' \in BOOLEAN /\ token' \in BOOLEAN
    BY <1>3 DEF HostLeaves, TypeOK
  <2>3. UNCHANGED <<room, lk, guestsOn, remade, redis, api, bounds>>
    BY <1>3 DEF HostLeaves
  <2>. QED BY <2>1, <2>2, <2>3 DEF TypeOK, Types, room, redis, api, bounds, history
<1>4. CASE GuestsCome
  <2>1. hooks' \in Seq(Types)
    BY <1>1, <1>4, HooksType DEF GuestsCome, Events
  <2>. QED BY <1>4, <2>1 DEF GuestsCome, TypeOK, Types, room, redis, api, bounds, history
<1>5. CASE GuestsGo
  <2>1. hooks' \in Seq(Types)
    BY <1>1, <1>5 DEF GuestsGo
  <2>2. UNCHANGED <<room, lk, hostOn, token, remade, redis, api, bounds>> /\ guestsOn' \in BOOLEAN
    BY <1>5 DEF GuestsGo
  <2>. QED BY <2>1, <2>2 DEF TypeOK, Types, room, redis, api, bounds, history
<1>6. CASE EmptyTimeout
  BY <1>6, CloseType DEF EmptyTimeout, TypeOK, Types, room, redis, api, bounds, history
<1>. QED BY <1>2, <1>3, <1>4, <1>5, <1>6

LEMMA WebhookType ==
    ASSUME TypeOK, NEW i \in DOMAIN hooks, Webhook(i) \/ HookLost(i)
    PROVE  TypeOK'
<1>1. hooks' \in Seq(Types)
  <2>1. hooks \in Seq(Types) BY DEF TypeOK, Types
  <2>2. Done(i) \/ StepTo(i, "half") \/ StepTo(i, "mark")
    BY DEF Webhook, HookLost, RoomStarted, HostJoined, ClearHostGone, HostLeft, ReadStatus,
           MarkHostGone, RoomFinished, ClearPresence
  <2>. QED BY <2>1, <2>2, HooksType DEF Done, StepTo
<1>2. status' \in Active \cup {"ended"} /\ expired' \in BOOLEAN
  BY DEF Webhook, HookLost, RoomStarted, HostJoined, ClearHostGone, HostLeft, ReadStatus,
         MarkHostGone, RoomFinished, ClearPresence, MarkLive, StatusAtEnd, Active, TypeOK, room
<1>3. gone' \in {"none", "fresh", "due"} /\ {present', lock'} \subseteq BOOLEAN
  BY DEF Webhook, HookLost, RoomStarted, HostJoined, ClearHostGone, HostLeft, ReadStatus,
         MarkHostGone, RoomFinished, ClearPresence, TypeOK, redis
<1>4. /\ UNCHANGED <<livekit, api, joins, crashes>>
      /\ {lost', cut', erased'} \subseteq BOOLEAN /\ late' \subseteq Sweeps
  BY DEF Webhook, HookLost, RoomStarted, HostJoined, ClearHostGone, HostLeft, ReadStatus,
         MarkHostGone, RoomFinished, ClearPresence, TypeOK, bounds, history
<1>. QED BY <1>1, <1>2, <1>3, <1>4 DEF TypeOK, Types, livekit, api

LEMMA SweepType ==
    ASSUME TypeOK,
           (\E k \in Sweeps : Sweep(k)) \/ DemoSweep \/ Clock
    PROVE  TypeOK'
<1>. DEFINE SweepTypes == [Sweeps \cup {"demo"} ->
                    {"idle", "room", "presence", "lock", "signal", "forget"}]
<1>1. ASSUME NEW k \in Sweeps \cup {"demo"},
             \E p \in {"idle", "room", "presence", "lock", "signal", "forget"} : Goto(k, p)
      PROVE  sweep' \in SweepTypes
  BY <1>1 DEF Goto, TypeOK
<1>2. CASE \E k \in Sweeps : Sweep(k)
  <2>1. PICK k \in Sweeps : Sweep(k) BY <1>2
  <2>2. sweep' \in SweepTypes
    <3>1. \E p \in {"idle", "room", "presence", "lock", "signal", "forget"} : Goto(k, p)
      BY <2>1
      DEF Ends, Sweep, SweepReadsMark, SweepReadsRoom, SweepReadsPresence, SweepLocks,
          SweepDeletes, SweepForgets
    <3>. QED BY <1>1, <3>1
  <2>3. CloseRoom \/ UNCHANGED <<livekit, hooks>>
    BY <2>1
    DEF Sweep, SweepReadsMark, SweepReadsRoom, SweepReadsPresence, SweepLocks,
        SweepDeletes, SweepForgets, DeleteRoom
  <2>4. /\ gone' \in {"none", "fresh", "due"} /\ {present', lock'} \subseteq BOOLEAN
        /\ UNCHANGED <<room, call, joins, crashes>>
        /\ {lost', cut', erased'} \subseteq BOOLEAN /\ late' \subseteq Sweeps
    BY <2>1
    DEF Ends, Sweep, SweepReadsMark, SweepReadsRoom, SweepReadsPresence, SweepLocks,
        SweepDeletes, SweepForgets, TypeOK, redis, bounds, history
  <2>. QED BY <2>2, <2>3, <2>4, CloseType DEF TypeOK, Types, room, bounds, history
<1>3. CASE DemoSweep
  <2>1. sweep' \in SweepTypes
    BY <1>1, <1>3 DEF DemoSweep, DemoSelects, DemoDeletes
  <2>2. (CloseRoom \/ UNCHANGED <<livekit, hooks>>) /\ UNCHANGED <<room, redis, call, bounds>>
    BY <1>3 DEF DemoSweep, DemoSelects, DemoDeletes, DeleteRoom
  <2>. QED BY <2>1, <2>2, CloseType DEF TypeOK, Types, room, redis, bounds, history
<1>4. CASE Clock
  BY <1>4
  DEF Clock, GracePasses, LockExpires, LifetimePasses, TypeOK, room, livekit, redis, api, bounds, history
<1>. QED BY <1>2, <1>3, <1>4

LEMMA RestartType == TypeOK /\ Restart => TypeOK'
<1>. SUFFICES ASSUME TypeOK, Restart PROVE TypeOK'
  OBVIOUS
<1>1. hooks' \in Seq(Types)
  BY HooksType DEF Restart, TypeOK, Types
<1>2. crashes' \in 0 .. MaxCrashes
  BY RoomLifecycleAssumption DEF Restart, TypeOK
<1>3. sweep' \in [Sweeps \cup {"demo"} ->
                    {"idle", "room", "presence", "lock", "signal", "forget"}]
  BY DEF Restart, TypeOK
<1>. QED BY <1>1, <1>2, <1>3 DEF Restart, TypeOK, Types, room, livekit, redis

\* Every reachable state is well typed: in particular the status is one of the
\* three the schema knows.
THEOREM TypeCorrect == Spec => []TypeOK
<1>1. Init => TypeOK
  <2>1. << >> \in Seq([event : Events, pc : {"queued", "half", "mark"}])
    OBVIOUS
  <2>2. Init => /\ sweep \in [Sweeps \cup {"demo"} ->
                        {"idle", "room", "presence", "lock", "signal", "forget"}]
                /\ joins \in 0 .. MaxJoins /\ crashes \in 0 .. MaxCrashes
    BY RoomLifecycleAssumption DEF Init
  <2>3. Init => call \in [create : {"livekit", "done", "failed"},
                          token : {"idle", "mark", "issue"},
                          end : {"idle", "record", "delete"}]
    BY DEF Init
  <2>4. Init => /\ status \in Active \cup {"ended"} /\ expired \in BOOLEAN
                /\ lk \in {"absent", "silent", "open"}
                /\ {hostOn, guestsOn, token, remade, present, lock, lost, cut, erased} \subseteq BOOLEAN
                /\ late \subseteq Sweeps
                /\ gone \in {"none", "fresh", "due"}
                /\ hooks = << >>
    BY DEF Init, Active
  <2>. QED BY <2>1, <2>2, <2>3, <2>4 DEF TypeOK
<1>2. TypeOK /\ [Next]_vars => TypeOK'
  <2>1. TypeOK /\ UNCHANGED vars => TypeOK'
    BY DEF vars, TypeOK
  <2>. QED
    BY <2>1, HandlersType, OutsideType, WebhookType, SweepType, RestartType
    DEF Next, People
<1>. QED BY <1>1, <1>2, PTL DEF Spec

-----------------------------------------------------------------------------
(* The end is final.                                                       *)

\* A room that has ended is ended in every later state: markRoomLive and
\* markRoomEnded are guarded by the status they start from, so no webhook,
\* however late or repeated, and no token request revives it.
THEOREM EndIsFinal == Spec => EndedIsFinal
<1>1. ASSUME [Next]_vars, status = "ended" PROVE status' = "ended"
  <2>1. CASE People \/ Handlers \/ EmptyTimeout \/ Clock \/ DemoSweep \/ Restart
    BY <1>1, <2>1
    DEF People, BeginToken, BeginEnd, HostConnects, HostLeaves, GuestsCome, GuestsGo,
        Handlers, CreateLiveKitRoom, MarkLiveForHost, IssueToken, EndRecord, EndDelete,
        EmptyTimeout, Clock, GracePasses, LockExpires, LifetimePasses, DemoSweep,
        DemoSelects, DemoDeletes, Restart, MarkLive, room
  <2>2. CASE \E i \in DOMAIN hooks : Webhook(i) \/ HookLost(i)
    BY <1>1, <2>2
    DEF Webhook, HookLost, RoomStarted, HostJoined, ClearHostGone, HostLeft, ReadStatus,
        MarkHostGone, RoomFinished, ClearPresence, MarkLive, StatusAtEnd, room
  <2>3. CASE \E k \in Sweeps : Sweep(k)
    BY <1>1, <2>3
    DEF Sweep, SweepReadsMark, SweepReadsRoom, SweepReadsPresence, SweepLocks,
        SweepDeletes, SweepForgets, room
  <2>4. CASE UNCHANGED vars
    BY <1>1, <2>4 DEF vars
  <2>. QED BY <1>1, <2>1, <2>2, <2>3, <2>4 DEF Next
<1>2. [Next]_vars => (status = "ended" => status' = "ended")
  BY <1>1
<1>. QED BY <1>2, PTL DEF Spec, EndedIsFinal

-----------------------------------------------------------------------------
(* What Redis holds about the host, when webhooks are handled in order.    *)

\* Queues that say nothing of the host, whose last word about it is on, and of which
\* at most the first webhook has been taken up.
Silent(q)       == \A j \in 1 .. Len(q) : q[j].event = "started"
LastSays(q, on) == \A j \in 1 .. Len(q) :
                     /\ q[j].event # "started"
                     /\ \A k \in (j + 1) .. Len(q) : q[k].event = "started"
                     => (q[j].event = "joined" <=> on)
OneAtATime(q)   == \A j \in 1 .. Len(q) : q[j].pc # "queued" => j = 1

\* The handler of the first webhook has begun, and with it Redis already agrees.
HeadHeeded(q, p) ==
    q # << >> /\ q[1].pc # "queued" =>
        /\ q[1].event = "joined" => p
        /\ q[1].event = "left" => ~p

PresenceInv ==
    ~lost =>
        /\ OneAtATime(hooks) /\ LastSays(hooks, hostOn) /\ HeadHeeded(hooks, present)
        /\ Silent(hooks) => (present <=> hostOn) /\ (hostOn => gone = "none")

LEMMA Appended ==
    ASSUME NEW q \in Seq(Types), NEW e \in Events, NEW on, NEW p
    PROVE  LET r == q \o <<New(e)>>
           IN  /\ OneAtATime(q) => OneAtATime(r)
               /\ HeadHeeded(q, p) => HeadHeeded(r, p)
               /\ e = "started" =>
                     /\ LastSays(q, on) => LastSays(r, on)
                     /\ Silent(r) => Silent(q)
               /\ e # "started" => LastSays(r, e = "joined") /\ ~Silent(r)
<1>. DEFINE r == q \o <<New(e)>>
<1>1. /\ Len(q) \in Nat /\ Len(r) = Len(q) + 1 /\ r \in Seq(Types)
      /\ r[Len(q) + 1] = New(e)
      /\ \A j \in 1 .. Len(q) : r[j] = q[j]
  BY DEF New, Hook, Types
<1>2. New(e).event = e /\ New(e).pc = "queued"
  BY DEF New, Hook
<1>. HIDE DEF r
<1>3. OneAtATime(q) => OneAtATime(r)
  BY <1>1, <1>2 DEF OneAtATime
<1>4. HeadHeeded(q, p) => HeadHeeded(r, p)
  <2>1. CASE q = << >>
    BY <1>1, <1>2, <2>1 DEF HeadHeeded
  <2>2. CASE q # << >>
    <3>1. Len(q) >= 1
      BY <2>2
    <3>. QED BY <1>1, <2>2, <3>1 DEF HeadHeeded
  <2>. QED BY <2>1, <2>2
<1>5. ASSUME e = "started"
      PROVE  (LastSays(q, on) => LastSays(r, on)) /\ (Silent(r) => Silent(q))
  <2>1. Silent(r) => Silent(q)
    BY <1>1 DEF Silent
  <2>2. ASSUME LastSays(q, on), NEW j \in 1 .. Len(r), r[j].event # "started",
               \A k \in (j + 1) .. Len(r) : r[k].event = "started"
        PROVE  r[j].event = "joined" <=> on
    <3>1. j \in 1 .. Len(q)
      BY <1>1, <1>2, <1>5, <2>2
    <3>2. \A k \in (j + 1) .. Len(q) : q[k].event = "started"
      BY <1>1, <2>2, <3>1
    <3>. QED BY <1>1, <2>2, <3>1, <3>2 DEF LastSays
  <2>. QED BY <2>1, <2>2 DEF LastSays
<1>6. ASSUME e # "started" PROVE LastSays(r, e = "joined") /\ ~Silent(r)
  <2>1. Len(r) \in 1 .. Len(r) /\ r[Len(r)].event = e
    BY <1>1, <1>2
  <2>2. ~Silent(r)
    BY <1>6, <2>1 DEF Silent
  <2>3. ASSUME NEW j \in 1 .. Len(r), \A k \in (j + 1) .. Len(r) : r[k].event = "started"
        PROVE  r[j].event = e
    BY <1>1, <1>6, <2>1, <2>3
  <2>. QED BY <2>2, <2>3 DEF LastSays
<1>. QED BY <1>3, <1>4, <1>5, <1>6 DEF r

LEMMA FirstRemoved ==
    ASSUME NEW q \in Seq(Types), 1 \in DOMAIN q, NEW on, NEW p,
           OneAtATime(q), LastSays(q, on)
    PROVE  LET r == RemoveAt(q, 1)
           IN  /\ OneAtATime(r) /\ LastSays(r, on) /\ HeadHeeded(r, p)
               /\ Silent(r) => IF q[1].event = "started" THEN Silent(q)
                               ELSE q[1].event = "joined" <=> on
<1>. DEFINE r == RemoveAt(q, 1)
<1>1. /\ Len(q) \in Nat /\ Len(q) >= 1
      /\ r \in Seq(Types) /\ Len(r) = Len(q) - 1
      /\ \A j \in 1 .. Len(r) : r[j] = q[j + 1]
  <2>1. Len(q) \in Nat /\ Len(q) >= 1
    OBVIOUS
  <2>2. SubSeq(q, 1, 0) = << >>
    OBVIOUS
  <2>3. /\ SubSeq(q, 2, Len(q)) \in Seq(Types)
        /\ Len(SubSeq(q, 2, Len(q))) = Len(q) - 1
        /\ \A j \in 1 .. Len(q) - 1 : SubSeq(q, 2, Len(q))[j] = q[j + 1]
    <3>1. \A j \in 2 .. Len(q) : q[j] \in Types
      BY <2>1
    <3>2. /\ SubSeq(q, 2, Len(q)) \in Seq(Types)
          /\ Len(SubSeq(q, 2, Len(q))) = IF 2 <= Len(q) THEN Len(q) - 2 + 1 ELSE 0
          /\ \A j \in 1 .. Len(q) - 2 + 1 : SubSeq(q, 2, Len(q))[j] = q[2 + j - 1]
      BY <2>1, <3>1, SubSeqProperties
    <3>3. \A j \in 1 .. Len(q) - 1 : 2 + j - 1 = j + 1
      BY <2>1
    <3>. QED BY <2>1, <3>2, <3>3
  <2>4. r = SubSeq(q, 2, Len(q))
    BY <2>2, <2>3 DEF RemoveAt
  <2>. QED BY <2>1, <2>3, <2>4
<1>. HIDE DEF r
<1>2. ASSUME NEW j \in 1 .. Len(r) PROVE r[j].pc = "queued"
  <2>1. j + 1 \in 1 .. Len(q) /\ j + 1 # 1
    BY <1>1
  <2>. QED BY <1>1, <2>1 DEF OneAtATime
<1>3. OneAtATime(r) /\ HeadHeeded(r, p)
  <2>1. r # << >> => 1 \in 1 .. Len(r)
    BY <1>1
  <2>. QED BY <1>2, <2>1 DEF OneAtATime, HeadHeeded
<1>4. ASSUME NEW j \in 1 .. Len(r), r[j].event # "started",
             \A k \in (j + 1) .. Len(r) : r[k].event = "started"
      PROVE  r[j].event = "joined" <=> on
  <2>1. j + 1 \in 1 .. Len(q)
    BY <1>1
  <2>2. ASSUME NEW k \in (j + 2) .. Len(q) PROVE q[k].event = "started"
    <3>1. k - 1 \in (j + 1) .. Len(r) /\ k - 1 \in 1 .. Len(r) /\ (k - 1) + 1 = k
      BY <1>1
    <3>. QED BY <1>1, <1>4, <3>1
  <2>3. \A k \in ((j + 1) + 1) .. Len(q) : q[k].event = "started"
    BY <2>2
  <2>. QED BY <1>1, <1>4, <2>1, <2>3 DEF LastSays
<1>5. ASSUME Silent(r)
      PROVE  IF q[1].event = "started" THEN Silent(q) ELSE q[1].event = "joined" <=> on
  <2>1. ASSUME NEW k \in 2 .. Len(q) PROVE q[k].event = "started"
    <3>1. k - 1 \in 1 .. Len(r) /\ (k - 1) + 1 = k
      BY <1>1
    <3>. QED BY <1>1, <1>5, <3>1 DEF Silent
  <2>2. q[1].event = "started" => Silent(q)
    BY <1>1, <2>1 DEF Silent
  <2>3. q[1].event # "started" => (q[1].event = "joined" <=> on)
    <3>1. \A k \in (1 + 1) .. Len(q) : q[k].event = "started"
      BY <2>1
    <3>. QED BY <1>1, <3>1 DEF LastSays
  <2>. QED BY <2>2, <2>3
<1>. QED BY <1>3, <1>4, <1>5 DEF r, LastSays

\* Steps that leave the queue alone can let the mark grow old or forget it.
LEMMA PresenceKept ==
    ASSUME PresenceInv, UNCHANGED <<hooks, hostOn, present>>, lost' = lost,
           gone' \in {gone, "none"} \/ gone = "fresh"
    PROVE  PresenceInv'
<1>1. lost' = lost /\ hooks' = hooks /\ hostOn' = hostOn /\ present' = present
  OBVIOUS
<1>2. ~lost => OneAtATime(hooks)' /\ LastSays(hooks, hostOn)' /\ HeadHeeded(hooks, present)'
  BY <1>1 DEF PresenceInv, OneAtATime, LastSays, HeadHeeded
<1>3. Silent(hooks)' = Silent(hooks)
  BY <1>1 DEF Silent
<1>. QED BY <1>1, <1>2, <1>3 DEF PresenceInv

\* Events are appended as they happen.
LEMMA PresenceSent ==
    ASSUME TypeOK, PresenceInv, UNCHANGED <<present, gone, lost>>,
           \/ hooks' = hooks \o <<New("started")>> /\ hostOn' = hostOn
           \/ hooks' = hooks \o <<New("joined")>> /\ hostOn' = TRUE
           \/ hooks' = hooks \o <<New("started")>> \o <<New("joined")>> /\ hostOn' = TRUE
           \/ \E e \in {"left", "finished"} : hooks' = hooks \o <<New(e)>> /\ hostOn' = FALSE
           \/ /\ hooks' = hooks \o <<New("left")>> \o <<New("finished")>>
              /\ hostOn' = FALSE
    PROVE  PresenceInv'
<1>. SUFFICES ASSUME ~lost PROVE PresenceInv'
  BY DEF PresenceInv
<1>1. hooks \in Seq(Types) /\ {"started", "joined", "left", "finished"} = Events
  BY DEF TypeOK, Types, Events
<1>2. \A e \in Events : hooks \o <<New(e)>> \in Seq(Types)
  BY <1>1 DEF New, Hook, Types
<1>3. ASSUME NEW q \in Seq(Types), OneAtATime(q), HeadHeeded(q, present),
             NEW e \in Events \ {"started"}, hooks' = q \o <<New(e)>>,
             hostOn' = (e = "joined")
      PROVE  PresenceInv'
  <2>1. /\ OneAtATime(hooks') /\ HeadHeeded(hooks', present)
        /\ LastSays(hooks', hostOn') /\ ~Silent(hooks')
    BY <1>3, Appended
  <2>2. present' = present
    OBVIOUS
  <2>3. OneAtATime(hooks)' /\ HeadHeeded(hooks, present)' /\ LastSays(hooks, hostOn)'
    BY <2>1, <2>2 DEF OneAtATime, HeadHeeded, LastSays
  <2>4. ~Silent(hooks)'
    BY <2>1 DEF Silent
  <2>. QED BY <2>3, <2>4 DEF PresenceInv
<1>4. CASE hooks' = hooks \o <<New("started")>> /\ hostOn' = hostOn
  <2>1. /\ OneAtATime(hooks') /\ HeadHeeded(hooks', present)
        /\ LastSays(hooks', hostOn) /\ (Silent(hooks') => Silent(hooks))
    BY <1>1, <1>4, Appended DEF PresenceInv
  <2>2. present' = present /\ hostOn' = hostOn /\ gone' = gone
    BY <1>4
  <2>3. OneAtATime(hooks)' /\ HeadHeeded(hooks, present)' /\ LastSays(hooks, hostOn)'
    BY <2>1, <2>2 DEF OneAtATime, HeadHeeded, LastSays
  <2>4. Silent(hooks)' => Silent(hooks)
    BY <2>1 DEF Silent
  <2>. QED BY <2>2, <2>3, <2>4 DEF PresenceInv
<1>5. OneAtATime(hooks) /\ HeadHeeded(hooks, present)
  BY DEF PresenceInv
<1>6. \A e \in Events : OneAtATime(hooks \o <<New(e)>>) /\ HeadHeeded(hooks \o <<New(e)>>, present)
  BY <1>1, <1>5, Appended
<1>7. CASE hooks' = hooks \o <<New("joined")>> /\ hostOn' = TRUE
  BY <1>1, <1>3, <1>5, <1>7
<1>8. CASE hooks' = hooks \o <<New("started")>> \o <<New("joined")>> /\ hostOn' = TRUE
  BY <1>1, <1>2, <1>3, <1>6, <1>8
<1>9. CASE \E e \in {"left", "finished"} : hooks' = hooks \o <<New(e)>> /\ hostOn' = FALSE
  BY <1>1, <1>3, <1>5, <1>9
<1>10. CASE /\ hooks' = hooks \o <<New("left")>> \o <<New("finished")>>
            /\ hostOn' = FALSE
  <2>. DEFINE q == hooks \o <<New("left")>>
  <2>1. q \in Seq(Types) /\ OneAtATime(q) /\ HeadHeeded(q, present)
    BY <1>1, <1>2, <1>6
  <2>2. hooks' = q \o <<New("finished")>> /\ hostOn' = ("finished" = "joined")
    BY <1>10
  <2>3. "finished" \in Events \ {"started"}
    BY <1>1
  <2>. QED BY <1>3, <2>1, <2>2, <2>3
<1>. QED BY <1>4, <1>7, <1>8, <1>9, <1>10

LEMMA ClosePresence ==
    ASSUME TypeOK, PresenceInv, UNCHANGED present, lost' = lost,
           \/ CloseRoom /\ gone' = gone
           \/ UNCHANGED <<livekit, hooks>> /\ gone' \in {gone, "none"}
    PROVE  PresenceInv'
<1>1. CASE CloseRoom /\ gone' = gone
  <2>1. hooks \o << >> = hooks /\ hostOn \in BOOLEAN
    BY DEF TypeOK
  <2>. QED BY <1>1, <2>1, PresenceSent DEF CloseRoom
<1>2. CASE UNCHANGED <<livekit, hooks>> /\ gone' \in {gone, "none"}
  BY <1>2, PresenceKept DEF livekit
<1>. QED BY <1>1, <1>2

LEMMA HandlersPresence ==
    ASSUME TypeOK, PresenceInv, Handlers \/ EmptyTimeout \/ DemoSweep
    PROVE  PresenceInv'
<1>1. CASE CreateLiveKitRoom
  <2>1. CASE OpenRoom
    <3>1. hooks \in Seq(Types) /\ New("started") \in Types
      BY DEF TypeOK, Types, Events, New, Hook
    <3>2. hooks' = hooks \/ hooks' = hooks \o <<New("started")>>
      BY <2>1, <3>1 DEF OpenRoom
    <3>3. UNCHANGED <<hostOn, present, gone>> /\ lost' = lost
      BY <1>1 DEF CreateLiveKitRoom, redis, bounds, history
    <3>. QED BY <3>2, <3>3, PresenceKept, PresenceSent
  <2>2. CASE UNCHANGED <<lk, hooks>>
    BY <1>1, <2>2, PresenceKept DEF CreateLiveKitRoom, redis, bounds, history
  <2>. QED BY <1>1, <2>1, <2>2 DEF CreateLiveKitRoom
<1>2. CASE MarkLiveForHost \/ IssueToken \/ EndRecord \/ DemoSelects
  BY <1>2, PresenceKept
  DEF MarkLiveForHost, IssueToken, EndRecord, DemoSelects, livekit, redis, bounds, history
<1>3. CASE EndDelete \/ DemoDeletes
  BY <1>3, ClosePresence DEF EndDelete, DemoDeletes, DeleteRoom, redis, bounds, history
<1>4. CASE EmptyTimeout
  BY <1>4, ClosePresence DEF EmptyTimeout, redis, bounds, history
<1>. QED BY <1>1, <1>2, <1>3, <1>4 DEF Handlers, DemoSweep

LEMMA PeoplePresence ==
    ASSUME TypeOK, PresenceInv, People
    PROVE  PresenceInv'
<1>1. hooks \in Seq(Types) /\ \A e \in Events : New(e) \in Types
  BY DEF TypeOK, Types, New, Hook
<1>2. hooks \o << >> = hooks
  BY <1>1
<1>3. \A e \in Events : Append(hooks, New(e)) = hooks \o <<New(e)>>
  BY <1>1
<1>4. CASE HostConnects
  BY <1>2, <1>4, PresenceSent DEF HostConnects, redis, history
<1>5. CASE HostLeaves
  BY <1>3, <1>5, PresenceSent DEF HostLeaves, redis, bounds, history, Events
<1>6. CASE GuestsCome
  <2>1. hooks' = hooks \/ hooks' = hooks \o <<New("started")>>
    BY <1>3, <1>6 DEF GuestsCome, Events
  <2>2. UNCHANGED <<hostOn, present, gone>> /\ lost' = lost
    BY <1>6 DEF GuestsCome, redis, bounds, history
  <2>. QED BY <2>1, <2>2, PresenceKept, PresenceSent
<1>7. CASE BeginToken \/ BeginEnd \/ GuestsGo
  BY <1>7, PresenceKept DEF BeginToken, BeginEnd, GuestsGo, livekit, redis, bounds, history
<1>. QED BY <1>4, <1>5, <1>6, <1>7 DEF People

LEMMA SweepsPresence ==
    ASSUME TypeOK, PresenceInv, Clock \/ \E k \in Sweeps : Sweep(k)
    PROVE  PresenceInv'
<1>1. CASE Clock
  BY <1>1, PresenceKept
  DEF Clock, GracePasses, LockExpires, LifetimePasses, livekit, redis, bounds, history
<1>2. ASSUME NEW k \in Sweeps, Sweep(k) PROVE PresenceInv'
  <2>1. CASE SweepDeletes(k)
    BY <2>1, ClosePresence DEF SweepDeletes, DeleteRoom, redis, bounds, history
  <2>2. CASE ~SweepDeletes(k)
    BY <1>2, <2>2, PresenceKept
    DEF Sweep, SweepReadsMark, SweepReadsRoom, SweepReadsPresence, SweepLocks, SweepForgets,
        livekit, redis, bounds, history
  <2>. QED BY <2>1, <2>2
<1>. QED BY <1>1, <1>2

\* The first webhook is taken up, and its handler ends.
LEMMA WebhooksPresence ==
    ASSUME InOrder, TypeOK, PresenceInv, NEW i \in DOMAIN hooks, Webhook(i) \/ HookLost(i)
    PROVE  PresenceInv'
<1>1. hooks \in Seq(Types) /\ DOMAIN hooks = 1 .. Len(hooks) /\ Len(hooks) \in Nat
  BY DEF TypeOK, Types
<1>2. CASE HookLost(i) \/ lost
  BY <1>2
  DEF HookLost, PresenceInv, Webhook, RoomStarted, HostJoined, ClearHostGone, HostLeft,
      ReadStatus, MarkHostGone, RoomFinished, ClearPresence, bounds, history
<1>3. CASE Webhook(i) /\ ~lost
  <2>1. i = 1 /\ 1 \in DOMAIN hooks /\ hooks # << >> /\ hooks[1] \in Types
    BY <1>1, <1>3
    DEF Webhook, RoomStarted, HostJoined, ClearHostGone, HostLeft, ReadStatus, MarkHostGone,
        RoomFinished, ClearPresence, Turn
  <2>2. hostOn' = hostOn /\ lost' = lost
    BY <1>3
    DEF Webhook, RoomStarted, HostJoined, ClearHostGone, HostLeft, ReadStatus, MarkHostGone,
        RoomFinished, ClearPresence, livekit, bounds, history
  <2>3. /\ OneAtATime(hooks) /\ LastSays(hooks, hostOn) /\ HeadHeeded(hooks, present)
        /\ Silent(hooks) => (present <=> hostOn) /\ (hostOn => gone = "none")
    BY <1>3 DEF PresenceInv
  <2>4. ASSUME NEW p \in {"half", "mark"}, StepTo(1, p), hooks[1].event # "started",
               hooks[1].event = "joined" => present', hooks[1].event = "left" => ~present'
        PROVE  PresenceInv'
    <3>1. /\ hooks' \in Seq(Types) /\ Len(hooks') = Len(hooks)
          /\ hooks'[1].event = hooks[1].event
          /\ \A j \in 2 .. Len(hooks) : hooks'[j] = hooks[j]
      BY <1>1, <2>1, <2>4, HooksType DEF StepTo, Types
    <3>2. \A j \in 1 .. Len(hooks) : hooks'[j].event = hooks[j].event
      BY <1>1, <3>1
    <3>3. OneAtATime(hooks)'
      BY <1>1, <2>3, <3>1 DEF OneAtATime
    <3>4. LastSays(hooks, hostOn)'
      <4>1. ASSUME NEW j \in 1 .. Len(hooks'), hooks'[j].event # "started",
                   \A k \in (j + 1) .. Len(hooks') : hooks'[k].event = "started"
            PROVE  hooks'[j].event = "joined" <=> hostOn
        <5>1. j \in 1 .. Len(hooks) /\ hooks[j].event # "started"
          BY <3>1, <3>2, <4>1
        <5>2. \A k \in (j + 1) .. Len(hooks) : hooks[k].event = "started"
          BY <1>1, <3>1, <3>2, <4>1
        <5>. QED BY <2>3, <3>2, <5>1, <5>2 DEF LastSays
      <4>. QED BY <2>2, <4>1 DEF LastSays
    <3>5. HeadHeeded(hooks, present)'
      BY <2>4, <3>1 DEF HeadHeeded
    <3>6. ~Silent(hooks)'
      BY <1>1, <2>1, <2>4, <3>1 DEF Silent
    <3>. QED BY <3>3, <3>4, <3>5, <3>6 DEF PresenceInv
  <2>5. ASSUME Done(1),
               IF hooks[1].event = "started" THEN UNCHANGED <<present, gone>>
               ELSE /\ present' <=> hooks[1].event = "joined"
                    /\ hooks[1].event = "joined" => gone' = "none"
        PROVE  PresenceInv'
    <3>1. hooks' = RemoveAt(hooks, 1)
      BY <2>5 DEF Done
    <3>2. /\ OneAtATime(hooks') /\ LastSays(hooks', hostOn) /\ HeadHeeded(hooks', present')
          /\ Silent(hooks') => IF hooks[1].event = "started" THEN Silent(hooks)
                               ELSE hooks[1].event = "joined" <=> hostOn
      BY <1>1, <2>1, <2>3, <3>1, FirstRemoved
    <3>3. OneAtATime(hooks)' /\ LastSays(hooks, hostOn)' /\ HeadHeeded(hooks, present)'
      BY <2>2, <3>2 DEF OneAtATime, LastSays, HeadHeeded
    <3>4. Silent(hooks)' => (present' <=> hostOn') /\ (hostOn' => gone' = "none")
      <4>1. Silent(hooks)' => Silent(hooks')
        BY DEF Silent
      <4>. QED BY <2>2, <2>3, <2>5, <3>2, <4>1
    <3>. QED BY <3>3, <3>4 DEF PresenceInv
  <2>. USE DEF Turn, Hook
  <2>6. CASE RoomStarted(i)
    BY <2>1, <2>5, <2>6 DEF RoomStarted, redis
  <2>7. CASE HostJoined(i)
    BY <2>1, <2>4, <2>7 DEF HostJoined
  <2>8. CASE ClearHostGone(i)
    BY <2>1, <2>3, <2>5, <2>8 DEF ClearHostGone, HeadHeeded
  <2>9. CASE HostLeft(i)
    BY <2>1, <2>4, <2>9 DEF HostLeft
  <2>10. CASE ReadStatus(i)
    BY <2>1, <2>3, <2>4, <2>5, <2>10 DEF ReadStatus, redis, HeadHeeded
  <2>11. CASE MarkHostGone(i)
    BY <2>1, <2>3, <2>5, <2>11 DEF MarkHostGone, HeadHeeded
  <2>12. CASE RoomFinished(i)
    BY <2>1, <2>4, <2>12 DEF RoomFinished
  <2>13. CASE ClearPresence(i)
    BY <2>1, <2>5, <2>13 DEF ClearPresence
  <2>. QED
    BY <1>3, <2>6, <2>7, <2>8, <2>9, <2>10, <2>11, <2>12, <2>13 DEF Webhook
<1>. QED BY <1>2, <1>3

LEMMA RestartPresence ==
    ASSUME TypeOK, PresenceInv, Restart
    PROVE  PresenceInv'
<1>1. hooks \in Seq(Types) /\ Len(hooks) \in Nat /\ DOMAIN hooks = 1 .. Len(hooks)
  BY DEF TypeOK, Types
<1>2. UNCHANGED <<hostOn, present, gone>> /\ lost' = lost
  BY DEF Restart, livekit, redis
<1>3. hooks' = [i \in 1 .. Len(hooks) |-> New(hooks[i].event)]
  BY <1>1 DEF Restart
<1>4. hooks' \in Seq(Types)
  BY <1>1, HooksType DEF Restart
<1>5. Len(hooks') = Len(hooks)
  BY <1>1, <1>3, <1>4
<1>6. \A j \in 1 .. Len(hooks) : hooks'[j].event = hooks[j].event /\ hooks'[j].pc = "queued"
  BY <1>3 DEF New, Hook
<1>7. OneAtATime(hooks)' /\ (Silent(hooks)' => Silent(hooks))
  BY <1>1, <1>5, <1>6 DEF OneAtATime, Silent
<1>8. HeadHeeded(hooks, present)'
  BY <1>1, <1>4, <1>5, <1>6 DEF HeadHeeded
<1>9. LastSays(hooks, hostOn) => LastSays(hooks, hostOn)'
  BY <1>1, <1>2, <1>5, <1>6 DEF LastSays
<1>. QED BY <1>2, <1>7, <1>8, <1>9 DEF PresenceInv

\* With webhooks handled one at a time and in order, and none lost, Redis says of the
\* host, once the queue is empty, exactly whether it is connected, and holds no
\* departure against a host who is back: for any number of connections, restarts in
\* the middle of a handler, overlapping sweeps and ends.
THEOREM HostIsKnown == ASSUME InOrder PROVE Spec => []HostPresence
<1>1. Init => PresenceInv
  <2>. SUFFICES ASSUME Init PROVE PresenceInv
    OBVIOUS
  <2>1. hooks = << >> /\ Len(hooks) = 0 /\ present = FALSE /\ hostOn = FALSE
    BY DEF Init
  <2>. QED BY <2>1 DEF PresenceInv, OneAtATime, LastSays, HeadHeeded
<1>2. TypeOK /\ PresenceInv /\ [Next]_vars => PresenceInv'
  <2>1. PresenceInv /\ UNCHANGED vars => PresenceInv'
    BY PresenceKept DEF vars
  <2>. QED
    BY <2>1, HandlersPresence, PeoplePresence, SweepsPresence, WebhooksPresence, RestartPresence
    DEF Next
<1>3. PresenceInv => HostPresence
  <2>1. hooks = << >> => Silent(hooks)
    BY DEF Silent
  <2>. QED BY <2>1 DEF PresenceInv, HostPresence, PresenceTracks, MarkMeansAway, Settled
<1>. QED BY <1>1, <1>2, <1>3, TypeCorrect, PTL DEF Spec
=============================================================================

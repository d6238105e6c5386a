---------------------------- MODULE EgressProofs ----------------------------
(* Theorems about Egress, for every number of starts and egresses, whatever *)
(* the order of the webhooks, with timeouts, faults and restarts.           *)
EXTENDS Egress, SequenceTheorems, TLAPS

Hooks      == [event : RoomHooks, egress : {NoRun}] \cup [event : RunHooks, egress : Runs]
RunStates  == Alive \cup {"unused", "complete", "failed"}
StartCalls == [pc : {"idle", "write", "livekit", "fallback"}, egress : {NoRun}]
                \cup [pc : {"record"}, egress : Runs]
StopCalls  == [pc : {"idle", "read", "forget", "record", "delete"}, egress : {NoRun}]
                \cup [pc : {"stop"}, egress : Runs]

-----------------------------------------------------------------------------
(* The queue of webhooks.                                                  *)

\* RemoveAt drops one element and keeps the order of the others.
LEMMA RemoveAtElements ==
    ASSUME NEW S, NEW s \in Seq(S), NEW i \in DOMAIN s
    PROVE  /\ RemoveAt(s, i) \in Seq(S)
           /\ DOMAIN RemoveAt(s, i) = 1 .. Len(s) - 1
           /\ \A j \in 1 .. Len(s) - 1 :
                RemoveAt(s, i)[j] = s[IF j < i THEN j ELSE j + 1]
<1>1. /\ i \in 1 .. Len(s) /\ Len(s) \in Nat
      /\ \A j \in 1 .. Len(s) : s[j] \in S
  OBVIOUS
<1>. DEFINE a == SubSeq(s, 1, i - 1)
            b == SubSeq(s, i + 1, Len(s))
<1>2. /\ a \in Seq(S) /\ Len(a) = i - 1
      /\ \A j \in 1 .. i - 1 : a[j] = s[j]
  BY <1>1, SubSeqProperties
<1>3. /\ b \in Seq(S) /\ Len(b) = Len(s) - i
      /\ \A j \in 1 .. Len(s) - i : b[j] = s[i + j]
  BY <1>1, SubSeqProperties
<1>. HIDE DEF a, b
<1>4. /\ a \o b \in Seq(S) /\ Len(a \o b) = Len(s) - 1
      /\ \A j \in 1 .. Len(s) - 1 :
            (a \o b)[j] = IF j <= i - 1 THEN a[j] ELSE b[j - (i - 1)]
  <2>1. /\ a \o b \in Seq(S) /\ Len(a \o b) = Len(a) + Len(b)
        /\ \A j \in 1 .. Len(a) + Len(b) :
              (a \o b)[j] = IF j <= Len(a) THEN a[j] ELSE b[j - Len(a)]
    BY <1>2, <1>3, ConcatProperties
  <2>2. Len(a) + Len(b) = Len(s) - 1
    BY <1>1, <1>2, <1>3
  <2>. QED BY <1>2, <2>1, <2>2
<1>5. ASSUME NEW j \in 1 .. Len(s) - 1
      PROVE  (a \o b)[j] = s[IF j < i THEN j ELSE j + 1]
  <2>1. CASE j < i
    BY <1>1, <1>2, <1>4, <2>1
  <2>2. CASE ~(j < i)
    <3>1. (a \o b)[j] = b[j - (i - 1)] /\ j - (i - 1) \in 1 .. Len(s) - i
      BY <1>1, <1>4, <2>2
    <3>2. i + (j - (i - 1)) = j + 1
      BY <1>1
    <3>3. b[j - (i - 1)] = s[i + (j - (i - 1))]
      BY <1>3, <3>1
    <3>. QED BY <2>2, <3>1, <3>2, <3>3
  <2>. QED BY <2>1, <2>2
<1>6. RemoveAt(s, i) = a \o b
  BY DEF RemoveAt, a, b
<1>. QED BY <1>1, <1>4, <1>5, <1>6

\* What the actions make of the queue has the queue's type.
LEMMA HooksType ==
    ASSUME hooks \in Seq(Hooks)
    PROVE  /\ \A e \in RoomHooks : /\ Append(hooks, Hook(e, NoRun)) \in Seq(Hooks)
                                   /\ <<Hook(e, NoRun)>> \o hooks \in Seq(Hooks)
           /\ \A e \in RunHooks, r \in Runs : Append(hooks, Hook(e, r)) \in Seq(Hooks)
           /\ \A i \in DOMAIN hooks : RemoveAt(hooks, i) \in Seq(Hooks)
<1>1. \A e \in RoomHooks : Hook(e, NoRun) \in Hooks /\ <<Hook(e, NoRun)>> \in Seq(Hooks)
  BY DEF Hook, Hooks
<1>2. \A e \in RunHooks, r \in Runs : Hook(e, r) \in Hooks
  BY DEF Hook, Hooks
<1>3. \A i \in DOMAIN hooks : RemoveAt(hooks, i) \in Seq(Hooks)
  BY RemoveAtElements
<1>4. \A e \in RoomHooks : /\ Append(hooks, Hook(e, NoRun)) \in Seq(Hooks)
                           /\ <<Hook(e, NoRun)>> \o hooks \in Seq(Hooks)
  BY <1>1
<1>5. \A e \in RunHooks, r \in Runs : Append(hooks, Hook(e, r)) \in Seq(Hooks)
  BY <1>2
<1>. QED BY <1>3, <1>4, <1>5

-----------------------------------------------------------------------------
(* Type correctness.                                                       *)

LEMMA StartType ==
    ASSUME start \in [Starts -> StartCalls], NEW k \in Starts
    PROVE  /\ \A p \in {"idle", "write", "livekit", "fallback"} :
                StartTo(k, p, NoRun) => start' \in [Starts -> StartCalls]
           /\ \A r \in Runs : StartTo(k, "record", r) => start' \in [Starts -> StartCalls]
<1>1. \A p \in {"idle", "write", "livekit", "fallback"} : At(p, NoRun) \in StartCalls
  BY DEF At, StartCalls
<1>2. \A r \in Runs : At("record", r) \in StartCalls
  BY DEF At, StartCalls
<1>. QED BY <1>1, <1>2 DEF StartTo

LEMMA StopType ==
    ASSUME stop \in [Stoppers -> StopCalls], NEW o \in Stoppers
    PROVE  /\ \A p \in {"idle", "read", "forget", "record", "delete"} :
                StopTo(o, p, NoRun) => stop' \in [Stoppers -> StopCalls]
           /\ \A r \in Runs : StopTo(o, "stop", r) => stop' \in [Stoppers -> StopCalls]
<1>1. \A p \in {"idle", "read", "forget", "record", "delete"} : At(p, NoRun) \in StopCalls
  BY DEF At, StopCalls
<1>2. \A r \in Runs : At("stop", r) \in StopCalls
  BY DEF At, StopCalls
<1>. QED BY <1>1, <1>2 DEF StopTo

\* TypeOK in the terms of this module.
Typed ==
    /\ mode \in {"hls", "webrtc"}
    /\ est \in {"none", "starting", "active", "ending", "failed"}
    /\ eid \in Runs \cup {NoRun}
    /\ status \in {"live", "ended"}
    /\ lk \in BOOLEAN /\ hostOn \in BOOLEAN
    /\ run \in [Runs -> RunStates]
    /\ hooks \in Seq(Hooks)
    /\ start \in [Starts -> StartCalls]
    /\ stop \in [Stoppers -> StopCalls]
    /\ viewer \in {"away", "waiting", "playing", "webrtc"}
    /\ joins \in 0 .. MaxJoins /\ faults \in 0 .. MaxFaults

LEMMA TypedIsTypeOK == Typed <=> TypeOK
BY DEF Typed, TypeOK, Hooks, RunStates, StartCalls, StopCalls

LEMMA FaultsType ==
    ASSUME faults \in 0 .. MaxFaults, NoFault \/ Fault
    PROVE  faults' \in 0 .. MaxFaults
BY EgressAssumption DEF NoFault, Fault

LEMMA StartsPreserveType ==
    ASSUME Typed, NEW k \in Starts, Start(k)
    PROVE  Typed'
<1>. USE DEF Typed
<1>1. CASE WriteStarting(k)
  BY <1>1, StartType DEF WriteStarting, SetEgressState, livekit, bounds
<1>2. CASE CallLiveKit(k)
  <2>1. run' \in [Runs -> RunStates]
    BY <1>2 DEF CallLiveKit, RunStates, Alive
  <2>2. start' \in [Starts -> StartCalls]
    BY <1>2, StartType DEF CallLiveKit
  <2>3. faults' \in 0 .. MaxFaults
    BY <1>2, FaultsType DEF CallLiveKit
  <2>. QED BY <1>2, <2>1, <2>2, <2>3 DEF CallLiveKit, row, livekit
<1>3. CASE RecordId(k)
  <2>1. start[k].egress \in Runs
    BY <1>3 DEF RecordId, StartAt, StartCalls
  <2>2. start' \in [Starts -> StartCalls]
    BY <1>3, StartType DEF RecordId
  <2>. QED BY <1>3, <2>1, <2>2 DEF RecordId, SetEgressIdState, livekit, bounds
<1>4. CASE StartFallsBack(k)
  BY <1>4, StartType DEF StartFallsBack, FallbackToWebrtc, livekit, bounds
<1>. QED BY <1>1, <1>2, <1>3, <1>4 DEF Start

LEMMA StopsPreserveType ==
    ASSUME Typed, NEW o \in Stoppers, Stop(o)
    PROVE  Typed'
<1>. USE DEF Typed
<1>1. CASE ReadId(o)
  BY <1>1, StopType DEF ReadId, row, livekit, bounds
<1>2. CASE StopEgress(o)
  <2>1. stop[o].egress \in Runs
    BY <1>2 DEF StopEgress, StopAt, StopCalls
  <2>2. run' \in [Runs -> RunStates]
    BY <1>2, <2>1 DEF StopEgress, Stopped, RunStates, Alive
  <2>3. stop' \in [Stoppers -> StopCalls]
    BY <1>2, StopType DEF StopEgress
  <2>4. faults' \in 0 .. MaxFaults
    BY <1>2, FaultsType DEF StopEgress
  <2>. QED BY <1>2, <2>2, <2>3, <2>4 DEF StopEgress, row, livekit
<1>3. CASE ForgetId(o)
  BY <1>3, StopType DEF ForgetId, SetEgressIdState, livekit, bounds
<1>4. CASE RecordEnd(o)
  <2>1. stop' \in [Stoppers -> StopCalls]
    BY <1>4, StopType DEF RecordEnd
  <2>. QED BY <1>4, <2>1 DEF RecordEnd, row, livekit, bounds
<1>. QED BY <1>1, <1>2, <1>3, <1>4 DEF Stop

LEMMA WebhooksPreserveType ==
    ASSUME Typed, NEW i \in DOMAIN hooks, Webhook(i) \/ HookLost(i)
    PROVE  Typed'
<1>. USE DEF Typed
<1>1. Done(i) => hooks' \in Seq(Hooks)
  BY HooksType DEF Done
<1>2. hooks[i].event \in RunHooks => hooks[i].egress \in Runs
  BY DEF Hooks, RoomHooks, RunHooks
<1>3. CASE HostJoined(i)
  BY <1>1, <1>3, StartType DEF HostJoined, row, livekit, bounds
<1>4. CASE RoomFinished(i)
  BY <1>1, <1>4, StopType DEF RoomFinished, Stoppers, row, livekit, bounds
<1>5. CASE EgressActive(i)
  BY <1>1, <1>2, <1>5 DEF EgressActive, Turn, RunHooks, SetEgressIdState, livekit, bounds
<1>6. CASE EgressComplete(i)
  BY <1>1, <1>6 DEF EgressComplete, SetEgressIdState, livekit, bounds
<1>7. CASE EgressFailed(i)
  BY <1>1, <1>7 DEF EgressFailed, FallbackToWebrtc, livekit, bounds
<1>8. CASE HookLost(i)
  BY <1>1, <1>8, FaultsType DEF HookLost, row, livekit
<1>. QED BY <1>3, <1>4, <1>5, <1>6, <1>7, <1>8 DEF Webhook

LEMMA RunsPreserveType ==
    ASSUME Typed, NEW r \in Runs, RunActivates(r) \/ RunFails(r) \/ RunCompletes(r)
    PROVE  Typed'
<1>. USE DEF Typed
<1>1. PICK s \in {"active", "failed", "complete"}, e \in RunHooks : RunTo(r, s, e)
  BY DEF RunActivates, RunFails, RunCompletes, RunHooks
<1>2. run' \in [Runs -> RunStates]
  BY <1>1 DEF RunTo, RunStates, Alive
<1>3. hooks' \in Seq(Hooks)
  BY <1>1, HooksType DEF RunTo
<1>. QED BY <1>1, <1>2, <1>3 DEF RunTo, row, livekit, bounds

LEMMA OthersPreserveType ==
    ASSUME Typed, People \/ DeleteRoom \/ RoomCloses \/ Restart
    PROVE  Typed'
<1>. USE EgressAssumption DEF Typed
<1>1. CASE HostConnects
  <2>1. hooks' \in Seq(Hooks)
    BY <1>1, HooksType DEF HostConnects, RoomHooks
  <2>. QED BY <1>1, <2>1 DEF HostConnects, row
<1>2. CASE HostLeaves
  BY <1>2 DEF HostLeaves, row, bounds
<1>3. CASE BeginEnd
  BY <1>3, StopType DEF BeginEnd, Stoppers, row, livekit, bounds
<1>4. CASE Enter
  BY <1>4 DEF Enter, row, livekit, bounds
<1>5. CASE Poll
  BY <1>5 DEF Poll, row, livekit, bounds
<1>6. CASE DeleteRoom
  <2>1. hooks' \in Seq(Hooks)
    BY <1>6, HooksType DEF DeleteRoom, CloseRoom, RoomHooks
  <2>2. stop' \in [Stoppers -> StopCalls]
    BY <1>6, StopType DEF DeleteRoom, Stoppers
  <2>3. lk' \in BOOLEAN /\ hostOn' \in BOOLEAN
    BY <1>6 DEF DeleteRoom, CloseRoom, livekit
  <2>4. faults' \in 0 .. MaxFaults
    BY <1>6, FaultsType DEF DeleteRoom
  <2>. QED BY <1>6, <2>1, <2>2, <2>3, <2>4 DEF DeleteRoom, row
<1>7. CASE RoomCloses
  <2>1. hooks' \in Seq(Hooks)
    BY <1>7, HooksType DEF RoomCloses, CloseRoom, RoomHooks
  <2>. QED BY <1>7, <2>1 DEF RoomCloses, CloseRoom, row, bounds
<1>8. CASE Restart
  <2>1. hooks' \in Seq(Hooks)
    BY <1>8, HooksType DEF Restart, RoomHooks
  <2>2. /\ start' \in [Starts -> StartCalls]
        /\ stop' \in [Stoppers -> StopCalls]
    BY <1>8 DEF Restart, Idle, At, StartCalls, StopCalls
  <2>. QED BY <1>8, <2>1, <2>2, FaultsType DEF Restart, row, livekit
<1>. QED BY <1>1, <1>2, <1>3, <1>4, <1>5, <1>6, <1>7, <1>8 DEF People

LEMMA InitIsTyped == Init => Typed
<1>. SUFFICES ASSUME Init PROVE Typed
  OBVIOUS
<1>1. Idle \in StartCalls /\ Idle \in StopCalls
  BY DEF Idle, At, StartCalls, StopCalls
<1>2. hooks \in Seq(Hooks)
  BY DEF Init
<1>3. /\ run \in [Runs -> RunStates]
      /\ start \in [Starts -> StartCalls]
      /\ stop \in [Stoppers -> StopCalls]
  BY <1>1 DEF Init, RunStates
<1>4. joins \in 0 .. MaxJoins /\ faults \in 0 .. MaxFaults
  BY EgressAssumption DEF Init
<1>. QED BY <1>2, <1>3, <1>4 DEF Init, Typed

LEMMA NextIsTyped == Typed /\ [Next]_vars => Typed'
<1>. SUFFICES ASSUME Typed, [Next]_vars PROVE Typed'
  OBVIOUS
<1>1. CASE Next
  BY <1>1, StartsPreserveType, StopsPreserveType, WebhooksPreserveType,
     RunsPreserveType, OthersPreserveType DEF Next
<1>2. CASE UNCHANGED vars
  BY <1>2 DEF vars, Typed
<1>. QED BY <1>1, <1>2

\* Every reachable state is well typed: in particular an egress is stopped only by
\* an id that was read from the row, and NULL never reaches stopEgress.
THEOREM TypeCorrect == Spec => []TypeOK
BY InitIsTyped, NextIsTyped, TypedIsTypeOK, PTL DEF Spec

-----------------------------------------------------------------------------
(* At most one egress.                                                     *)
(*                                                                         *)
(* The right to an egress is in one place at a time: in the row, which     *)
(* asks for one (Open), in a start that has read that row (Starting), in   *)
(* an egress that is alive, or in the report that it came to its end,      *)
(* which puts the right back into the row.  Lost reports, failures and     *)
(* stops only destroy the right; nothing doubles it.                       *)

Open        == Wanted /\ \A k \in Starts : ~StartAt(k, "write")
Starting(k) == start[k].pc \in {"write", "livekit"}
Live(r)     == run[r] \in Alive
Report(i)   == hooks[i].event = "complete"

NoStart  == \A k \in Starts : ~Starting(k)
NoneLive == \A r \in Runs : ~Live(r)
NoReport == \A i \in DOMAIN hooks : ~Report(i)

RightIsSingle ==
    /\ Open => NoStart /\ NoneLive /\ NoReport
    /\ \A k \in Starts : Starting(k) =>
          NoneLive /\ NoReport /\ \A l \in Starts : Starting(l) => l = k
    /\ \A r \in Runs : Live(r) => NoReport /\ \A s \in Runs : Live(s) => s = r
    /\ \A i, j \in DOMAIN hooks : Report(i) /\ Report(j) => i = j

\* A webhook that is done leaves the queue, and the others move up.
LEMMA HooksAfterDone ==
    ASSUME Typed, NEW i \in DOMAIN hooks, Done(i)
    PROVE  /\ DOMAIN hooks = 1 .. Len(hooks) /\ Len(hooks) \in Nat
           /\ DOMAIN hooks' = 1 .. Len(hooks) - 1
           /\ \A j \in 1 .. Len(hooks) - 1 : hooks'[j] = hooks[IF j < i THEN j ELSE j + 1]
<1>1. hooks \in Seq(Hooks)
  BY DEF Typed
<1>2. /\ DOMAIN RemoveAt(hooks, i) = 1 .. Len(hooks) - 1
      /\ \A j \in 1 .. Len(hooks) - 1 :
            RemoveAt(hooks, i)[j] = hooks[IF j < i THEN j ELSE j + 1]
  BY <1>1, RemoveAtElements
<1>3. hooks' = RemoveAt(hooks, i)
  BY DEF Done
<1>. QED BY <1>1, <1>2, <1>3

\* The reports in the queue after a webhook is done, or another is sent.
LEMMA ReportsAfterDone ==
    ASSUME Typed, NEW i \in DOMAIN hooks, Done(i),
           \A m, n \in DOMAIN hooks : Report(m) /\ Report(n) => m = n
    PROVE  /\ NoReport \/ Report(i) => NoReport'
           /\ (\A m, n \in DOMAIN hooks : Report(m) /\ Report(n) => m = n)'
<1>. DEFINE old(j) == IF j < i THEN j ELSE j + 1
<1>1. /\ DOMAIN hooks = 1 .. Len(hooks) /\ Len(hooks) \in Nat
      /\ DOMAIN hooks' = 1 .. Len(hooks) - 1
      /\ \A j \in 1 .. Len(hooks) - 1 : hooks'[j] = hooks[old(j)]
  BY HooksAfterDone
<1>2. \A j \in DOMAIN hooks' : old(j) \in DOMAIN hooks /\ old(j) # i
  BY <1>1
<1>3. \A j, l \in DOMAIN hooks' : old(j) = old(l) => j = l
  BY <1>1
<1>. HIDE DEF old
<1>4. \A j \in DOMAIN hooks' : Report(j)' => Report(old(j))
  BY <1>1 DEF Report
<1>5. NoReport \/ Report(i) => NoReport'
  BY <1>2, <1>4 DEF NoReport
<1>. QED BY <1>2, <1>3, <1>4, <1>5

LEMMA ReportsAfterSend ==
    ASSUME Typed, NEW h \in Hooks, hooks' = Append(hooks, h),
           \A m, n \in DOMAIN hooks : Report(m) /\ Report(n) => m = n,
           h.event = "complete" => NoReport
    PROVE  /\ h.event # "complete" /\ NoReport => NoReport'
           /\ (\A m, n \in DOMAIN hooks : Report(m) /\ Report(n) => m = n)'
<1>1. /\ DOMAIN hooks = 1 .. Len(hooks) /\ Len(hooks) \in Nat
      /\ DOMAIN hooks' = 1 .. Len(hooks) + 1
      /\ \A j \in 1 .. Len(hooks) : hooks'[j] = hooks[j]
      /\ hooks'[Len(hooks) + 1] = h
  BY DEF Typed
<1>2. \A j \in DOMAIN hooks' : j \in DOMAIN hooks \/ j = Len(hooks) + 1
  BY <1>1
<1>3. ASSUME NEW j \in DOMAIN hooks', Report(j)'
      PROVE  (j \in DOMAIN hooks /\ Report(j)) \/ (j = Len(hooks) + 1 /\ h.event = "complete")
  BY <1>1, <1>2, <1>3 DEF Report
<1>4. h.event # "complete" /\ NoReport => NoReport'
  BY <1>3 DEF NoReport
<1>5. ASSUME NEW m \in DOMAIN hooks', NEW n \in DOMAIN hooks', Report(m)', Report(n)'
      PROVE  m = n
  BY <1>3, <1>5 DEF NoReport
<1>. QED BY <1>4, <1>5

LEMMA ReportsAfterResend ==
    ASSUME Typed, NEW h \in Hooks, hooks' = <<h>> \o hooks, h.event # "complete",
           \A m, n \in DOMAIN hooks : Report(m) /\ Report(n) => m = n
    PROVE  /\ NoReport => NoReport'
           /\ (\A m, n \in DOMAIN hooks : Report(m) /\ Report(n) => m = n)'
<1>1. /\ DOMAIN hooks = 1 .. Len(hooks) /\ Len(hooks) \in Nat
      /\ DOMAIN hooks' = 1 .. Len(hooks) + 1
      /\ hooks'[1] = h
      /\ \A j \in 2 .. Len(hooks) + 1 : hooks'[j] = hooks[j - 1]
  BY DEF Typed
<1>2. ASSUME NEW j \in DOMAIN hooks', Report(j)'
      PROVE  j - 1 \in DOMAIN hooks /\ Report(j - 1)
  BY <1>1, <1>2 DEF Report
<1>3. NoReport => NoReport'
  BY <1>2 DEF NoReport
<1>4. ASSUME NEW m \in DOMAIN hooks', NEW n \in DOMAIN hooks', Report(m)', Report(n)'
      PROVE  m = n
  <2>1. m - 1 = n - 1
    BY <1>2, <1>4
  <2>. QED BY <1>1, <2>1
<1>. QED BY <1>3, <1>4

\* Where nothing takes an egress up or brings one about, the right stays single.
LEMMA RightStays ==
    ASSUME RightIsSingle,
           Open' => Open,
           \A k \in Starts : Starting(k)' => Starting(k),
           \A r \in Runs : Live(r)' => Live(r),
           NoReport => NoReport',
           (\A m, n \in DOMAIN hooks : Report(m) /\ Report(n) => m = n)'
    PROVE  RightIsSingle'
BY DEF RightIsSingle, NoStart, NoneLive

LEMMA StartsKeepRight ==
    ASSUME Typed, RightIsSingle, NEW k \in Starts, Start(k)
    PROVE  RightIsSingle'
<1>1. CASE WriteStarting(k)
  <2>1. ~Open'
    BY <1>1 DEF WriteStarting, SetEgressState, Open, Wanted
  <2>2. \A l \in Starts : Starting(l)' => Starting(l)
    BY <1>1 DEF WriteStarting, Typed, StartAt, StartTo, At, Starting
  <2>. QED BY <1>1, <2>1, <2>2, RightStays
       DEF WriteStarting, Live, NoReport, Report, RightIsSingle
<1>2. CASE CallLiveKit(k)
  <2>1. Starting(k) /\ ~StartAt(k, "write")
    BY <1>2 DEF CallLiveKit, StartAt, Starting
  <2>2. NoneLive /\ NoReport /\ \A l \in Starts : Starting(l) => l = k
    BY <2>1 DEF RightIsSingle
  <2>3. ~Wanted
    BY <2>1, <2>2 DEF RightIsSingle, Open, NoStart, StartAt, Starting
  <2>4. ~Open'
    BY <1>2, <2>3 DEF CallLiveKit, row, Open, Wanted
  <2>5. NoStart'
    BY <1>2, <2>2 DEF CallLiveKit, Typed, StartTo, At, NoStart, Starting
  <2>6. \A r, s \in Runs : Live(r)' /\ Live(s)' => r = s
    BY <1>2, <2>2 DEF CallLiveKit, Typed, NoneLive, Live
  <2>7. NoReport'
    BY <1>2, <2>2 DEF CallLiveKit, NoReport, Report
  <2>. QED BY <2>4, <2>5, <2>6, <2>7 DEF RightIsSingle, NoStart, NoReport
<1>3. CASE RecordId(k)
  <2>1. ~Open'
    BY <1>3 DEF RecordId, SetEgressIdState, Open, Wanted
  <2>2. \A l \in Starts : Starting(l)' => Starting(l)
    BY <1>3 DEF RecordId, Typed, StartTo, At, Starting
  <2>. QED BY <1>3, <2>1, <2>2, RightStays
       DEF RecordId, Live, NoReport, Report, RightIsSingle
<1>4. CASE StartFallsBack(k)
  <2>1. ~Open'
    BY <1>4 DEF StartFallsBack, FallbackToWebrtc, Open, Wanted
  <2>2. \A l \in Starts : Starting(l)' => Starting(l)
    BY <1>4 DEF StartFallsBack, Typed, StartTo, At, Starting
  <2>. QED BY <1>4, <2>1, <2>2, RightStays
       DEF StartFallsBack, Live, NoReport, Report, RightIsSingle
<1>. QED BY <1>1, <1>2, <1>3, <1>4 DEF Start

LEMMA StopsKeepRight ==
    ASSUME Typed, RightIsSingle, NEW o \in Stoppers, Stop(o)
    PROVE  RightIsSingle'
<1>1. Open' => Open
  BY DEF Stop, ReadId, StopEgress, ForgetId, RecordEnd, SetEgressIdState, row,
         Open, Wanted, StartAt
<1>2. \A k \in Starts : Starting(k)' => Starting(k)
  BY DEF Stop, ReadId, StopEgress, ForgetId, RecordEnd, Starting
<1>3. \A r \in Runs : Live(r)' => Live(r)
  BY DEF Stop, ReadId, StopEgress, ForgetId, RecordEnd, Stopped, Typed, Live
<1>4. hooks' = hooks
  BY DEF Stop, ReadId, StopEgress, ForgetId, RecordEnd
<1>. QED BY <1>1, <1>2, <1>3, <1>4, RightStays DEF NoReport, Report, RightIsSingle

\* The two webhooks that move the right: the host's join takes it from the row
\* (Serial: no start that read the row before is yet to write), and the report of
\* an end puts it back.
LEMMA WebhooksKeepRight ==
    ASSUME Serial, Typed, RightIsSingle, NEW i \in DOMAIN hooks, Webhook(i) \/ HookLost(i)
    PROVE  RightIsSingle'
<1>1. Done(i)
  BY DEF Webhook, HostJoined, RoomFinished, EgressActive, EgressComplete, EgressFailed,
         HookLost
<1>2. /\ NoReport \/ Report(i) => NoReport'
      /\ (\A m, n \in DOMAIN hooks : Report(m) /\ Report(n) => m = n)'
  BY <1>1, ReportsAfterDone DEF RightIsSingle
<1>3. \A r \in Runs : Live(r)' <=> Live(r)
  BY DEF Webhook, HostJoined, RoomFinished, EgressActive, EgressComplete, EgressFailed,
         HookLost, Live
<1>4. CASE HostJoined(i) /\ Wanted
  <2>1. PICK k \in Starts : StartTo(k, "write", NoRun)
    BY <1>4 DEF HostJoined
  <2>2. Open
    BY <1>4 DEF HostJoined, Turn, Open
  <2>3. NoStart /\ NoneLive /\ NoReport
    BY <2>2 DEF RightIsSingle
  <2>4. \A l \in Starts : Starting(l)' => l = k
    BY <2>1, <2>3 DEF Typed, StartTo, NoStart, Starting
  <2>5. ~Open'
    BY <2>1 DEF Typed, StartTo, StartAt, At, Open
  <2>6. NoneLive' /\ NoReport'
    BY <1>2, <1>3, <2>3 DEF NoneLive
  <2>. QED BY <1>2, <2>4, <2>5, <2>6 DEF RightIsSingle, NoneLive
<1>5. CASE EgressComplete(i)
  <2>1. Report(i)
    BY <1>5 DEF EgressComplete, Turn, Report
  <2>2. NoStart /\ NoneLive
    BY <2>1 DEF RightIsSingle, NoStart, NoneLive, NoReport
  <2>3. NoStart' /\ NoneLive' /\ NoReport'
    BY <1>2, <1>3, <1>5, <2>1, <2>2 DEF EgressComplete, NoStart, Starting, NoneLive
  <2>. QED BY <1>2, <2>3 DEF RightIsSingle, NoStart, NoneLive
<1>6. ASSUME ~(HostJoined(i) /\ Wanted), ~EgressComplete(i)
      PROVE  RightIsSingle'
  <2>1. start' = start
    BY <1>6 DEF Webhook, HostJoined, RoomFinished, EgressActive, EgressFailed, HookLost
  <2>2. Open' => Open
    BY <1>6, <2>1 DEF Webhook, HostJoined, RoomFinished, EgressActive, EgressFailed, HookLost,
       SetEgressIdState, FallbackToWebrtc, row, Open, Wanted, StartAt
  <2>. QED BY <1>2, <1>3, <2>1, <2>2, RightStays DEF Starting
<1>. QED BY <1>4, <1>5, <1>6

LEMMA RunsKeepRight ==
    ASSUME Typed, RightIsSingle, NEW r \in Runs,
           RunActivates(r) \/ RunFails(r) \/ RunCompletes(r)
    PROVE  RightIsSingle'
<1>1. Live(r)
  BY DEF RunActivates, RunFails, RunCompletes, Live, Alive
<1>2. ~Open /\ NoStart /\ NoReport /\ \A s \in Runs : Live(s) => s = r
  BY <1>1 DEF RightIsSingle, NoStart, NoneLive
<1>3. PICK s \in {"active", "failed", "complete"}, e \in RunHooks :
        RunTo(r, s, e) /\ (s = "complete" <=> e = "complete")
  BY DEF RunActivates, RunFails, RunCompletes, RunHooks
<1>4. ~Open' /\ NoStart'
  BY <1>2, <1>3 DEF RunTo, row, Open, Wanted, StartAt, NoStart, Starting
<1>5. Hook(e, r) \in Hooks /\ Hook(e, r).event = e
  BY DEF Hook, Hooks
<1>6. /\ e # "complete" => NoReport'
      /\ (\A m, n \in DOMAIN hooks : Report(m) /\ Report(n) => m = n)'
  BY <1>2, <1>3, <1>5, ReportsAfterSend DEF RunTo, RightIsSingle
<1>7. \A t \in Runs : Live(t)' => t = r /\ s # "complete"
  BY <1>2, <1>3 DEF RunTo, Typed, Live, Alive
<1>. QED BY <1>3, <1>4, <1>6, <1>7 DEF RightIsSingle, NoStart, NoneLive

LEMMA OthersKeepRight ==
    ASSUME Typed, RightIsSingle, People \/ DeleteRoom \/ RoomCloses
    PROVE  RightIsSingle'
<1>1. UNCHANGED <<mode, est, run, start>>
  BY DEF People, HostConnects, HostLeaves, BeginEnd, Enter, Poll, DeleteRoom, RoomCloses, row
<1>2. hooks' = hooks \/ \E e \in RoomHooks : hooks' = Append(hooks, Hook(e, NoRun))
  BY DEF People, HostConnects, HostLeaves, BeginEnd, Enter, Poll, DeleteRoom, RoomCloses,
         CloseRoom, RoomHooks
<1>3. \A e \in RoomHooks : /\ Hook(e, NoRun) \in Hooks
                          /\ Hook(e, NoRun).event # "complete"
  BY DEF Hook, Hooks, RoomHooks
<1>4. /\ NoReport => NoReport'
      /\ (\A m, n \in DOMAIN hooks : Report(m) /\ Report(n) => m = n)'
  <2>1. CASE hooks' = hooks
    BY <2>1 DEF NoReport, Report, RightIsSingle
  <2>2. CASE \E e \in RoomHooks : hooks' = Append(hooks, Hook(e, NoRun))
    BY <2>2, <1>3, ReportsAfterSend DEF RightIsSingle
  <2>. QED BY <1>2, <2>1, <2>2
<1>. QED BY <1>1, <1>4, RightStays DEF Open, Wanted, StartAt, Starting, Live

\* A restart can give a right back to the row: a start that had read the row and
\* not yet written is gone.
LEMMA RestartKeepsRight ==
    ASSUME Typed, RightIsSingle, Restart
    PROVE  RightIsSingle'
<1>1. NoStart'
  BY DEF Restart, NoStart, Starting, Idle, At
<1>2. UNCHANGED <<mode, est, run>>
  BY DEF Restart, row
<1>3. /\ NoReport => NoReport'
      /\ (\A m, n \in DOMAIN hooks : Report(m) /\ Report(n) => m = n)'
  <2>1. CASE hooks' = hooks
    BY <2>1 DEF NoReport, Report, RightIsSingle
  <2>2. CASE hooks' = <<Hook("finished", NoRun)>> \o hooks
    <3>1. Hook("finished", NoRun) \in Hooks /\ Hook("finished", NoRun).event # "complete"
      BY DEF Hook, Hooks, RoomHooks
    <3>. QED BY <2>2, <3>1, ReportsAfterResend DEF RightIsSingle
  <2>. QED BY <2>1, <2>2 DEF Restart
<1>4. Wanted => NoneLive /\ NoReport
  <2>1. CASE Open
    BY <2>1 DEF RightIsSingle
  <2>2. CASE \E k \in Starts : StartAt(k, "write")
    BY <2>2 DEF RightIsSingle, StartAt, Starting
  <2>. QED BY <2>1, <2>2 DEF Open
<1>5. Open' => NoneLive' /\ NoReport'
  BY <1>2, <1>3, <1>4 DEF Open, Wanted, NoneLive, Live
<1>. QED BY <1>1, <1>2, <1>3, <1>5 DEF RightIsSingle, NoStart, Live

\* ensureEgressStarted starts an egress only if there is none: whatever the order
\* and loss of webhooks, the timeouts, stops and restarts, no two egresses of the
\* room are alive together, if a start's first write is done before the next
\* webhook is taken up.
THEOREM AtMostOneEgress ==
    ASSUME Serial
    PROVE  Spec => []OneEgress
<1>1. Init => Typed
  BY InitIsTyped
<1>2. Init => RightIsSingle
  BY DEF Init, RightIsSingle, NoStart, NoneLive, NoReport, Starting, Live, Report, Alive,
         Idle, At
<1>3. Typed /\ [Next]_vars => Typed'
  BY NextIsTyped
<1>4. Typed /\ RightIsSingle /\ [Next]_vars => RightIsSingle'
  <2>. SUFFICES ASSUME Typed, RightIsSingle, [Next]_vars PROVE RightIsSingle'
    OBVIOUS
  <2>1. CASE Next
    BY <2>1, Serial, StartsKeepRight, StopsKeepRight, WebhooksKeepRight, RunsKeepRight,
       OthersKeepRight, RestartKeepsRight DEF Next
  <2>2. CASE UNCHANGED vars
    BY <2>2, RightStays DEF vars, Open, Wanted, StartAt, Starting, Live, NoReport, Report,
       RightIsSingle
  <2>. QED BY <2>1, <2>2
<1>5. RightIsSingle => OneEgress
  BY DEF RightIsSingle, OneEgress, Live
<1>. QED BY <1>1, <1>2, <1>3, <1>4, <1>5, PTL DEF Spec

-----------------------------------------------------------------------------
(* What the row knows of the egress.                                       *)
(*                                                                         *)
(* While nothing was ended, closed or lost (Calm) the room starts one      *)
(* egress at most, ever: after the first write the row never asks again,   *)
(* for only the report of an end would make it.                            *)

InQueue(h) == \E i \in DOMAIN hooks : hooks[i] = h
Unused     == \A r \in Runs : run[r] = "unused"
Busy(k)    == ~StartAt(k, "idle")
NoStop     == \A o \in Stoppers : StopAt(o, "idle")
Unended    == faults = 0 /\ status = "live" /\ NoStop
Calm       == Unended /\ lk

\* Starts: one of them at most has begun, and how far the row and LiveKit have come by it.
OneStart ==
    /\ \A k, l \in Starts : Busy(k) /\ Busy(l) => k = l
    /\ est = "none" => Unused /\ \A k \in Starts : StartAt(k, "idle") \/ StartAt(k, "write")
    /\ \A k \in Starts :
          /\ StartAt(k, "write") => est = "none"
          /\ StartAt(k, "livekit") => est = "starting" /\ Unused
          /\ StartAt(k, "fallback") => Unused
          /\ StartAt(k, "record") => est = "starting" /\ run[start[k].egress] # "unused"

\* LiveKit's egresses: one at most was ever started, and what became of it is in the row
\* or on its way there.
OneRun ==
    /\ \A r, s \in Runs : run[r] # "unused" /\ run[s] # "unused" => r = s
    /\ \A r \in Runs :
          /\ run[r] \notin {"stopping", "complete"}
          /\ ~InQueue(Hook("complete", r))
          /\ InQueue(Hook("active", r)) => run[r] \in {"active", "failed"}
          /\ InQueue(Hook("failed", r)) => run[r] = "failed"
          /\ run[r] = "active" => InQueue(Hook("active", r)) \/ (est = "active" /\ eid = r)
          /\ run[r] = "failed" => InQueue(Hook("failed", r)) \/ mode = "webrtc"
    /\ est = "active" => eid \in Runs /\ run[eid] \in {"active", "failed"}

KnownInv ==
    /\ StopAt("end", "delete") => status = "ended"
    /\ Unended /\ ~lk => InQueue(Hook("finished", NoRun))
    /\ Calm => OneStart /\ OneRun

LEMMA QueueDone ==
    ASSUME Typed, NEW i \in DOMAIN hooks, Done(i), NEW h
    PROVE  /\ InQueue(h) /\ hooks[i] # h => InQueue(h)'
           /\ InQueue(h)' => InQueue(h)
<1>. DEFINE old(j) == IF j < i THEN j ELSE j + 1
<1>1. /\ DOMAIN hooks = 1 .. Len(hooks) /\ Len(hooks) \in Nat
      /\ DOMAIN hooks' = 1 .. Len(hooks) - 1
      /\ \A j \in 1 .. Len(hooks) - 1 : hooks'[j] = hooks[old(j)]
  BY HooksAfterDone
<1>2. \A j \in DOMAIN hooks' : old(j) \in DOMAIN hooks
  BY <1>1
<1>3. ASSUME NEW j \in DOMAIN hooks, j # i PROVE \E n \in DOMAIN hooks' : old(n) = j
  <2>1. CASE j < i
    BY <1>1, <2>1
  <2>2. CASE ~(j < i)
    <3>1. j - 1 \in DOMAIN hooks' /\ ~(j - 1 < i) /\ (j - 1) + 1 = j
      BY <1>1, <1>3, <2>2
    <3>. QED BY <3>1
  <2>. QED BY <2>1, <2>2
<1>. HIDE DEF old
<1>. QED BY <1>1, <1>2, <1>3 DEF InQueue

LEMMA QueueSent ==
    ASSUME Typed, NEW g \in Hooks, hooks' = Append(hooks, g), NEW h
    PROVE  InQueue(h)' <=> InQueue(h) \/ h = g
<1>1. /\ DOMAIN hooks = 1 .. Len(hooks) /\ Len(hooks) \in Nat
      /\ DOMAIN hooks' = 1 .. Len(hooks) + 1
      /\ \A j \in 1 .. Len(hooks) : hooks'[j] = hooks[j]
      /\ hooks'[Len(hooks) + 1] = g
  BY DEF Typed
<1>2. ASSUME InQueue(h)' PROVE InQueue(h) \/ h = g
  BY <1>1, <1>2 DEF InQueue
<1>3. ASSUME InQueue(h) PROVE InQueue(h)'
  BY <1>1, <1>3 DEF InQueue
<1>4. InQueue(g)'
  BY <1>1 DEF InQueue
<1>. QED BY <1>2, <1>3, <1>4

\* Faults stay, and a step that costs one leaves nothing to show.
LEMMA KnownUnderFaults ==
    ASSUME Typed, Fault, stop'["end"].pc = "delete" => status' = "ended"
    PROVE  KnownInv'
<1>1. faults' # 0
  BY EgressAssumption DEF Typed, Fault
<1>. QED BY <1>1 DEF KnownInv, Calm, Unended, StopAt

\* Steps that neither bring the room nearer to its end nor touch rows, starts and runs.
LEMMA KnownStays ==
    ASSUME KnownInv, UNCHANGED <<row, lk, run, hooks, start>>,
           Unended' => Unended, StopAt("end", "delete")' => status' = "ended"
    PROVE  KnownInv'
<1>1. Unended' /\ ~lk' => InQueue(Hook("finished", NoRun))'
  BY DEF KnownInv, InQueue
<1>2. \A h : InQueue(h)' <=> InQueue(h)
  BY DEF InQueue
<1>3. UNCHANGED <<mode, est, eid, run, start>>
  BY DEF row
<1>4. OneStart => OneStart'
  BY <1>3 DEF OneStart, Busy, StartAt, Unused
<1>5. OneRun => OneRun'
  BY <1>2, <1>3 DEF OneRun
<1>6. Calm' => Calm
  BY DEF Calm
<1>. QED BY <1>1, <1>4, <1>5, <1>6 DEF KnownInv

LEMMA UnendedStays ==
    ASSUME UNCHANGED <<status, stop>>, faults' = 0 => faults = 0
    PROVE  /\ Unended' => Unended
           /\ KnownInv => (StopAt("end", "delete")' => status' = "ended")
BY DEF Unended, NoStop, StopAt, KnownInv

-----------------------------------------------------------------------------
LEMMA StartsAreKnown ==
    ASSUME Typed, KnownInv, NEW k \in Starts, Start(k)
    PROVE  KnownInv'
<1>1. UNCHANGED <<status, stop, lk, hooks>>
  BY DEF Start, WriteStarting, CallLiveKit, RecordId, StartFallsBack, livekit
<1>2. (StopAt("end", "delete")' => status' = "ended") /\ \A h : InQueue(h)' <=> InQueue(h)
  BY <1>1 DEF KnownInv, StopAt, InQueue
<1>3. CASE Fault
  BY <1>2, <1>3, KnownUnderFaults DEF StopAt
<1>4. CASE ~Fault
  <2>1. faults' = faults
    BY <1>4 DEF Start, WriteStarting, CallLiveKit, RecordId, StartFallsBack, bounds, NoFault
  <2>2. (Unended' <=> Unended) /\ (Calm' <=> Calm)
    BY <1>1, <2>1 DEF Calm, Unended, NoStop, StopAt
  <2>3. Unended' /\ ~lk' => InQueue(Hook("finished", NoRun))'
    BY <1>1, <1>2, <2>2 DEF KnownInv
  <2>. SUFFICES ASSUME OneStart, OneRun PROVE OneStart' /\ OneRun'
    BY <1>2, <2>2, <2>3 DEF KnownInv
  <2>5. \A l \in Starts : l # k => ~Busy(l)
    BY DEF OneStart, Busy, Start, WriteStarting, CallLiveKit, RecordId, StartFallsBack, StartAt
  <2>6. \A l \in Starts : l # k => start'[l] = start[l] /\ StartAt(l, "idle")
    BY <2>5 DEF Busy, Start, WriteStarting, CallLiveKit, RecordId, StartFallsBack, StartTo, Typed
  <2>7. CASE WriteStarting(k)
    <3>1. est = "none" /\ Unused
      BY <2>7 DEF OneStart, WriteStarting
    <3>2. est' = "starting" /\ run' = run /\ start'[k] = At("livekit", NoRun)
      BY <2>7 DEF WriteStarting, SetEgressState, StartTo, Typed
    <3>3. OneStart'
      BY <2>6, <3>1, <3>2 DEF OneStart, Busy, StartAt, At, Unused
    <3>4. OneRun'
      BY <1>2, <3>1, <3>2 DEF OneRun, Unused
    <3>. QED BY <3>3, <3>4
  <2>8. CASE CallLiveKit(k)
    <3>1. est = "starting" /\ Unused /\ UNCHANGED <<mode, est, eid>>
      BY <2>8 DEF OneStart, CallLiveKit, row
    <3>2. CASE run' = run /\ StartTo(k, "fallback", NoRun)
      <4>1. start'[k] = At("fallback", NoRun)
        BY <3>2 DEF StartTo, Typed
      <4>2. OneStart'
        BY <2>6, <3>1, <3>2, <4>1 DEF OneStart, Busy, StartAt, At, Unused
      <4>3. OneRun'
        BY <1>2, <3>1, <3>2 DEF OneRun
      <4>. QED BY <4>2, <4>3
    <3>3. CASE ~(run' = run /\ StartTo(k, "fallback", NoRun))
      <4>1. PICK r \in Runs : /\ run' = [run EXCEPT ![r] = "starting"]
                              /\ StartTo(k, "record", r)
        BY <1>4, <2>8, <3>3 DEF CallLiveKit
      <4>2. /\ start'[k] = At("record", r) /\ run'[r] = "starting"
            /\ \A s \in Runs : s # r => run'[s] = "unused"
        BY <3>1, <4>1 DEF StartTo, Typed, Unused
      <4>3. OneStart'
        <5>1. \A l, m \in Starts : Busy(l)' /\ Busy(m)' => l = m
          BY <2>6 DEF Busy, StartAt
        <5>2. \A l \in Starts : ~StartAt(l, "write")' /\ ~StartAt(l, "livekit")'
                                /\ ~StartAt(l, "fallback")'
          BY <2>6, <4>2 DEF StartAt, At
        <5>3. \A l \in Starts : StartAt(l, "record")' => start'[l].egress = r
          BY <2>6, <4>2 DEF StartAt, At
        <5>. QED BY <3>1, <4>2, <5>1, <5>2, <5>3 DEF OneStart
      <4>4. \A s \in Runs : ~InQueue(Hook("active", s)) /\ ~InQueue(Hook("failed", s))
        BY <3>1 DEF OneRun, Unused
      <4>5. OneRun'
        BY <1>2, <3>1, <4>2, <4>4 DEF OneRun
      <4>. QED BY <4>3, <4>5
    <3>. QED BY <3>2, <3>3
  <2>9. CASE RecordId(k)
    <3>1. est = "starting" /\ est' = "starting" /\ UNCHANGED <<mode, run>>
      BY <2>9 DEF OneStart, RecordId, SetEgressIdState
    <3>2. StartAt(k, "idle")'
      BY <2>9 DEF RecordId, StartTo, At, StartAt, Typed
    <3>3. \A l \in Starts : StartAt(l, "idle")'
      BY <2>6, <3>2 DEF StartAt
    <3>4. OneStart'
      BY <3>1, <3>3 DEF OneStart, Busy, StartAt
    <3>5. OneRun'
      BY <1>2, <3>1 DEF OneRun
    <3>. QED BY <3>4, <3>5
  <2>10. CASE StartFallsBack(k)
    <3>1. Unused /\ est' = "failed" /\ run' = run
      BY <2>10 DEF OneStart, StartFallsBack, FallbackToWebrtc
    <3>2. StartAt(k, "idle")'
      BY <2>10 DEF StartFallsBack, StartTo, At, StartAt, Typed
    <3>3. \A l \in Starts : StartAt(l, "idle")'
      BY <2>6, <3>2 DEF StartAt
    <3>4. OneStart'
      BY <3>1, <3>3 DEF OneStart, Busy, StartAt
    <3>5. OneRun'
      BY <1>2, <3>1 DEF OneRun, Unused
    <3>. QED BY <3>4, <3>5
  <2>. QED BY <2>7, <2>8, <2>9, <2>10 DEF Start
<1>. QED BY <1>3, <1>4

\* A stop that has begun ends in an ended room.
LEMMA StopsAreKnown ==
    ASSUME Typed, KnownInv, NEW o \in Stoppers, Stop(o)
    PROVE  KnownInv'
<1>1. stop \in [Stoppers -> StopCalls] /\ "end" \in Stoppers /\ "finished" \in Stoppers
  BY DEF Typed, Stoppers
<1>2. StopAt("end", "delete")' => status' = "ended"
  <2>1. CASE RecordEnd(o)
    BY <2>1 DEF RecordEnd
  <2>2. CASE ReadId(o) \/ StopEgress(o) \/ ForgetId(o)
    BY <1>1, <2>2
    DEF ReadId, StopEgress, ForgetId, StopAt, StopTo, At, KnownInv
  <2>. QED BY <2>1, <2>2 DEF Stop
<1>3. ~Unended'
  <2>1. CASE RecordEnd(o)
    BY <2>1 DEF RecordEnd, Unended
  <2>2. CASE ReadId(o) \/ StopEgress(o) \/ ForgetId(o)
    <3>1. ~StopAt(o, "idle")'
      BY <1>1, <2>2 DEF ReadId, StopEgress, ForgetId, StopAt, StopTo, At
    <3>. QED BY <3>1 DEF Unended, NoStop
  <2>. QED BY <2>1, <2>2 DEF Stop
<1>. QED BY <1>2, <1>3 DEF KnownInv, Calm

LEMMA OthersAreKnown ==
    ASSUME Typed, KnownInv, People \/ DeleteRoom \/ RoomCloses \/ Restart
    PROVE  KnownInv'
<1>0. stop \in [Stoppers -> StopCalls] /\ "end" \in Stoppers
  BY DEF Typed, Stoppers
<1>1. CASE HostLeaves \/ Enter \/ Poll
  BY <1>1, KnownStays, UnendedStays DEF HostLeaves, Enter, Poll, livekit, bounds
<1>2. CASE BeginEnd
  <2>1. StopAt("end", "read")'
    BY <1>0, <1>2 DEF BeginEnd, StopTo, StopAt, At
  <2>2. ~Unended' /\ ~StopAt("end", "delete")'
    BY <1>0, <2>1 DEF Unended, NoStop, StopAt
  <2>. QED BY <2>2 DEF KnownInv, Calm
<1>3. CASE DeleteRoom
  <2>1. status' = "ended"
    BY <1>3 DEF DeleteRoom, KnownInv
  <2>. QED BY <2>1 DEF KnownInv, Calm, Unended
<1>4. CASE HostConnects
  <2>1. Hook("joined", NoRun) \in Hooks
    BY DEF Hook, Hooks, RoomHooks
  <2>2. \A h : InQueue(h)' <=> InQueue(h) \/ h = Hook("joined", NoRun)
    BY <1>4, <2>1, QueueSent DEF HostConnects
  <2>3. UNCHANGED <<mode, est, eid, status, lk, run, start, stop, faults>>
    BY <1>4 DEF HostConnects, row
  <2>4. (StopAt("end", "delete")' => status' = "ended") /\ (Unended' <=> Unended)
        /\ (Calm' <=> Calm)
    BY <2>3 DEF KnownInv, Calm, Unended, NoStop, StopAt
  <2>5. OneStart => OneStart'
    BY <2>3 DEF OneStart, Busy, StartAt, Unused
  <2>6. \A r \in Runs, e \in RunHooks : InQueue(Hook(e, r))' <=> InQueue(Hook(e, r))
    BY <2>2 DEF Hook, RunHooks
  <2>7. OneRun => OneRun'
    BY <2>3, <2>6 DEF OneRun, RunHooks
  <2>. QED BY <2>2, <2>3, <2>4, <2>5, <2>7 DEF KnownInv
<1>5. CASE RoomCloses
  <2>1. Hook("finished", NoRun) \in Hooks
    BY DEF Hook, Hooks, RoomHooks
  <2>2. InQueue(Hook("finished", NoRun))'
    BY <1>5, <2>1, QueueSent DEF RoomCloses, CloseRoom
  <2>3. ~lk' /\ UNCHANGED <<status, stop>>
    BY <1>5 DEF RoomCloses, CloseRoom
  <2>. QED BY <2>2, <2>3 DEF KnownInv, Calm, StopAt
<1>6. CASE Restart
  BY <1>0, <1>6, KnownUnderFaults DEF Restart, Idle, At, Stoppers
<1>. QED BY <1>1, <1>2, <1>3, <1>4, <1>5, <1>6 DEF People

LEMMA RunsAreKnown ==
    ASSUME Typed, KnownInv, NEW r \in Runs, RunActivates(r) \/ RunFails(r) \/ RunCompletes(r)
    PROVE  KnownInv'
<1>1. PICK s \in {"active", "failed", "complete"} :
        /\ RunTo(r, s, s)
        /\ s = "active" => run[r] = "starting"
        /\ s = "failed" => run[r] \in {"starting", "active"}
        /\ s = "complete" => run[r] = "stopping" \/ ~lk
  BY DEF RunActivates, RunFails, RunCompletes
<1>2. Hook(s, r) \in Hooks
  BY DEF Hook, Hooks, RunHooks
<1>3. \A h : InQueue(h)' <=> InQueue(h) \/ h = Hook(s, r)
  BY <1>1, <1>2, QueueSent DEF RunTo
<1>4. UNCHANGED <<mode, est, eid, status, lk, start, stop, faults>>
  BY <1>1 DEF RunTo, row, livekit, bounds
<1>5. (StopAt("end", "delete")' => status' = "ended") /\ (Unended' <=> Unended)
      /\ (Calm' <=> Calm)
  BY <1>4 DEF KnownInv, Calm, Unended, NoStop, StopAt
<1>6. Unended' /\ ~lk' => InQueue(Hook("finished", NoRun))'
  BY <1>3, <1>4, <1>5 DEF KnownInv
<1>. SUFFICES ASSUME Calm, OneStart, OneRun PROVE OneStart' /\ OneRun'
  BY <1>5, <1>6 DEF KnownInv
<1>8. s # "complete"
  BY <1>1 DEF Calm, OneRun
<1>9. run[r] \in {"starting", "active"} /\ \A q \in Runs : q # r => run[q] = "unused"
  BY <1>1, <1>8 DEF OneRun
<1>10. run'[r] = s /\ \A q \in Runs : q # r => run'[q] = "unused"
  BY <1>1, <1>9 DEF RunTo, Typed
<1>11. ~Unused
  BY <1>9 DEF Unused
<1>12. OneStart'
  <2>1. \A k \in Starts : start[k].pc = "record" => start[k].egress = r
    <3>1. ASSUME NEW k \in Starts, start[k].pc = "record" PROVE start[k].egress = r
      <4>1. start[k].egress \in Runs
        BY <3>1 DEF Typed, StartCalls
      <4>. QED BY <1>9, <3>1, <4>1 DEF OneStart, StartAt
    <3>. QED BY <3>1
  <2>. QED BY <1>4, <1>8, <1>10, <1>11, <2>1 DEF OneStart, Busy, StartAt
<1>13. \A q \in Runs, e \in {"active", "failed", "complete"} :
          InQueue(Hook(e, q))' <=> InQueue(Hook(e, q)) \/ (e = s /\ q = r)
  BY <1>3 DEF Hook
<1>14. OneRun'
  <2>1. est' = "active" => eid' \in Runs /\ run'[eid'] \in {"active", "failed"}
    BY <1>4, <1>8, <1>9, <1>10 DEF OneRun
  <2>2. ASSUME NEW q \in Runs
        PROVE  /\ run'[q] \notin {"stopping", "complete"}
               /\ ~InQueue(Hook("complete", q))'
               /\ InQueue(Hook("active", q))' => run'[q] \in {"active", "failed"}
               /\ InQueue(Hook("failed", q))' => run'[q] = "failed"
               /\ run'[q] = "active" => InQueue(Hook("active", q))' \/ (est' = "active" /\ eid' = q)
               /\ run'[q] = "failed" => InQueue(Hook("failed", q))' \/ mode' = "webrtc"
    <3>1. CASE q = r
      BY <1>8, <1>9, <1>10, <1>13, <3>1 DEF OneRun
    <3>2. CASE q # r
      BY <1>9, <1>10, <1>13, <3>2 DEF OneRun
    <3>. QED BY <3>1, <3>2
  <2>. QED BY <1>10, <2>1, <2>2 DEF OneRun
<1>. QED BY <1>12, <1>14

LEMMA WebhooksAreKnown ==
    ASSUME Serial, Prompt, Typed, KnownInv, NEW i \in DOMAIN hooks, Webhook(i) \/ HookLost(i)
    PROVE  KnownInv'
<1>0. /\ start \in [Starts -> StartCalls] /\ stop \in [Stoppers -> StopCalls]
      /\ "end" \in Stoppers /\ "finished" \in Stoppers
      /\ hooks[i] \in Hooks
  BY DEF Typed, Stoppers
<1>1. CASE HookLost(i)
  BY <1>1, KnownUnderFaults DEF HookLost, KnownInv, StopAt
<1>2. CASE RoomFinished(i)
  <2>1. StopAt("finished", "read")' /\ (StopAt("end", "delete")' => StopAt("end", "delete"))
        /\ status' = status
    BY <1>0, <1>2 DEF RoomFinished, StopTo, StopAt, At
  <2>2. ~Unended'
    BY <1>0, <2>1 DEF Unended, NoStop, StopAt
  <2>. QED BY <2>1, <2>2 DEF KnownInv, Calm
<1>3. CASE HostJoined(i) \/ EgressActive(i) \/ EgressComplete(i) \/ EgressFailed(i)
  <2>1. Done(i) /\ UNCHANGED <<status, lk, run, stop, faults>>
    BY <1>3 DEF HostJoined, EgressActive, EgressComplete, EgressFailed, livekit, bounds
  <2>2. \A h : (InQueue(h) /\ hooks[i] # h => InQueue(h)') /\ (InQueue(h)' => InQueue(h))
    BY <2>1, QueueDone
  <2>3. (StopAt("end", "delete")' => status' = "ended") /\ (Unended' <=> Unended)
        /\ (Calm' <=> Calm)
    BY <2>1 DEF KnownInv, Calm, Unended, NoStop, StopAt
  <2>4. hooks[i] # Hook("finished", NoRun)
    BY <1>3 DEF HostJoined, EgressActive, EgressComplete, EgressFailed, Turn, Hook
  <2>5. Unended' /\ ~lk' => InQueue(Hook("finished", NoRun))'
    BY <2>1, <2>2, <2>3, <2>4 DEF KnownInv
  <2>. SUFFICES ASSUME Calm, OneStart, OneRun PROVE OneStart' /\ OneRun'
    BY <2>3, <2>5 DEF KnownInv
  <2>7. CASE HostJoined(i)
    <3>1. \A r \in Runs, e \in RunHooks : InQueue(Hook(e, r))' <=> InQueue(Hook(e, r))
      BY <2>2, <2>7 DEF HostJoined, Turn, Hook, RunHooks
    <3>2. UNCHANGED <<mode, est, eid>>
      BY <2>7 DEF HostJoined, row
    <3>3. OneRun'
      BY <2>1, <3>1, <3>2 DEF OneRun, RunHooks
    <3>4. CASE ~Wanted
      <4>1. start' = start
        BY <2>7, <3>4 DEF HostJoined
      <4>. QED BY <2>1, <3>2, <3>3, <4>1 DEF OneStart, Busy, StartAt, Unused
    <3>5. CASE Wanted
      <4>1. PICK k \in Starts : StartTo(k, "write", NoRun)
        BY <2>7, <3>5 DEF HostJoined
      <4>2. est = "none" /\ \A l \in Starts : StartAt(l, "idle")
        BY <2>7, <3>5 DEF HostJoined, Turn, OneStart, Wanted
      <4>3. start'[k].pc = "write" /\ \A l \in Starts : l # k => StartAt(l, "idle")'
        BY <1>0, <4>1, <4>2 DEF StartTo, StartAt, At
      <4>4. OneStart'
        BY <2>1, <3>2, <4>2, <4>3 DEF OneStart, Busy, StartAt, Unused
      <4>. QED BY <3>3, <4>4
    <3>. QED BY <3>4, <3>5
  <2>8. CASE ~HostJoined(i)
    <3>. DEFINE r == hooks[i].egress
    <3>1. PICK e \in RunHooks : hooks[i] = Hook(e, r) /\ r \in Runs /\ Turn(i, e)
      BY <1>0, <1>3, <2>8
      DEF EgressActive, EgressComplete, EgressFailed, Turn, Hook, Hooks, RoomHooks, RunHooks
    <3>2. InQueue(Hook(e, r))
      BY <3>1 DEF InQueue
    <3>3. e # "complete" /\ run[r] \in {"active", "failed"} /\ (e = "failed" => run[r] = "failed")
      BY <3>1, <3>2 DEF OneRun, RunHooks
    <3>4. ~Unused /\ \A q \in Runs : q # r => run[q] = "unused"
      BY <3>1, <3>3 DEF OneRun, Unused
    <3>5. \A k \in Starts : StartAt(k, "idle")
      <4>1. ASSUME NEW k \in Starts PROVE StartAt(k, "idle")
        <5>1. start[k].pc \in {"idle", "write", "livekit", "fallback", "record"}
          BY <1>0 DEF StartCalls
        <5>2. start[k].pc \notin {"write", "livekit", "fallback"}
          BY <3>4 DEF OneStart, StartAt
        <5>3. start[k].pc # "record"
          <6>. SUFFICES ASSUME start[k].pc = "record" PROVE FALSE
            OBVIOUS
          <6>2. start[k].egress \in Runs /\ run[start[k].egress] # "unused"
            BY <1>0 DEF StartCalls, OneStart, StartAt
          <6>3. start[k].egress # r
            BY <3>1 DEF Turn, StartAt
          <6>. QED BY <3>4, <6>2, <6>3
        <5>. QED BY <5>1, <5>2, <5>3 DEF StartAt
      <4>. QED BY <4>1
    <3>6. start' = start /\ est' # "none"
      BY <1>3, <2>8, <3>1, <3>3
      DEF EgressActive, EgressComplete, EgressFailed, Turn, SetEgressIdState, FallbackToWebrtc,
          RunHooks
    <3>7. OneStart'
      BY <3>5, <3>6 DEF OneStart, Busy, StartAt
    <3>8. CASE EgressActive(i)
      <4>1. e = "active" /\ mode' = mode /\ est' = "active" /\ eid' = r
        BY <3>1, <3>8 DEF EgressActive, Turn, SetEgressIdState
      <4>2. \A q \in Runs : InQueue(Hook("failed", q)) => InQueue(Hook("failed", q))'
        BY <2>2, <3>1, <4>1 DEF Hook
      <4>3. OneRun'
        BY <2>1, <2>2, <3>1, <3>3, <3>4, <4>1, <4>2 DEF OneRun
      <4>. QED BY <3>7, <4>3
    <3>9. CASE EgressFailed(i)
      <4>1. e = "failed" /\ mode' = "webrtc" /\ est' = "failed"
        BY <3>1, <3>9 DEF EgressFailed, Turn, FallbackToWebrtc
      <4>2. OneRun'
        BY <2>1, <2>2, <3>1, <3>3, <3>4, <4>1 DEF OneRun
      <4>. QED BY <3>7, <4>2
    <3>10. CASE EgressComplete(i)
      BY <3>1, <3>3, <3>10 DEF EgressComplete, Turn
    <3>. QED BY <1>3, <2>8, <3>8, <3>9, <3>10
  <2>. QED BY <2>7, <2>8
<1>. QED BY <1>1, <1>2, <1>3 DEF Webhook

\* The row and LiveKit agree once nothing is under way in a live room: an egress that
\* runs is known by its id, and the playlist the row offers is one of an egress that
\* runs; for any number of starts, egresses and rejoins, if a start's first write is
\* done before the next webhook, and LiveKit's answer to it before its egress' own.
THEOREM RowKnowsEgress ==
    ASSUME Serial, Prompt
    PROVE  Spec => []EgressKnown
<1>1. Init => Typed
  BY InitIsTyped
<1>2. Init => KnownInv
  <2>. SUFFICES ASSUME Init PROVE KnownInv
    OBVIOUS
  <2>1. hooks = << >> /\ \A h : ~InQueue(h)
    BY DEF Init, InQueue
  <2>2. Unused /\ est = "none" /\ lk /\ \A k \in Starts : StartAt(k, "idle")
    BY DEF Init, Unused, StartAt, Idle, At
  <2>3. ~StopAt("end", "delete")
    BY DEF Init, StopAt, Idle, At, Stoppers
  <2>4. OneStart
    BY <2>2 DEF OneStart, Busy, StartAt
  <2>5. OneRun
    BY <2>1, <2>2 DEF OneRun, Unused
  <2>. QED BY <2>2, <2>3, <2>4, <2>5 DEF KnownInv
<1>3. Typed /\ [Next]_vars => Typed'
  BY NextIsTyped
<1>4. Typed /\ KnownInv /\ [Next]_vars => KnownInv'
  <2>. SUFFICES ASSUME Typed, KnownInv, [Next]_vars PROVE KnownInv'
    OBVIOUS
  <2>1. CASE Next
    BY <2>1, Serial, Prompt, StartsAreKnown, StopsAreKnown, WebhooksAreKnown, RunsAreKnown,
       OthersAreKnown DEF Next
  <2>2. CASE UNCHANGED vars
    BY <2>2, KnownStays, UnendedStays DEF vars, row
  <2>. QED BY <2>1, <2>2
<1>5. KnownInv => EgressKnown
  <2>. SUFFICES ASSUME KnownInv, Settled, status = "live", faults = 0
                PROVE  /\ \A r \in Runs : run[r] = "active" => eid = r /\ est = "active"
                       /\ Playlist => eid \in Runs /\ run[eid] = "active"
    BY DEF EgressKnown
  <2>1. \A h : ~InQueue(h)
    BY DEF Settled, InQueue
  <2>2. Unended
    BY DEF Settled, Unended, NoStop, StopAt, Idle, At
  <2>3. OneRun
    BY <2>1, <2>2 DEF KnownInv, Calm
  <2>. QED BY <2>1, <2>3 DEF OneRun, Playlist
<1>. QED BY <1>1, <1>2, <1>3, <1>4, <1>5, PTL DEF Spec
=============================================================================

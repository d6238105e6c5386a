----------------------------- MODULE AudioProofs -----------------------------
(***************************************************************************)
(* What is proved of the microphone, of the host's tiles and of the record *)
(* of published tracks, for any number of people, tracks, publications,    *)
(* changes and requests.                                                   *)
(***************************************************************************)
EXTENDS MCAudio, TLAPS

-----------------------------------------------------------------------------
(* The banner about a muted microphone (Microphone).                       *)

BannerInv ==
    /\ mounted \in BOOLEAN /\ muted \in BOOLEAN /\ banner \in BOOLEAN
    /\ pubs \in Nat
    /\ BannerTrue

LEMMA BannerInductive == M!Spec => []BannerInv
<1>1. M!Init => BannerInv
  <2> SUFFICES ASSUME M!Init PROVE BannerInv
    OBVIOUS
  <2>1. mounted = FALSE /\ muted = FALSE /\ banner = FALSE /\ pubs = 0
    BY DEF M!Init
  <2>2. BannerTrue
    BY <2>1 DEF BannerTrue, M!BannerTrue
  <2> QED
    BY <2>1, <2>2 DEF BannerInv
<1>2. BannerInv /\ [M!Next]_(M!vars) => BannerInv'
  <2> SUFFICES ASSUME BannerInv, [M!Next]_(M!vars) PROVE BannerInv'
    OBVIOUS
  <2> USE DEF BannerInv, BannerTrue, M!BannerTrue, M!None
  <2>1. ASSUME UNCHANGED <<mounted, banner>>, UNCHANGED M!track PROVE BannerInv'
    BY <2>1 DEF M!track
  <2>2. ASSUME M!Enable, UNCHANGED mounted PROVE BannerInv'
    <3>1. muted' = FALSE /\ pubs' \in Nat
      BY <2>2 DEF M!Enable
    <3>2. CASE track # 0 /\ ~muted
      BY <2>2, <3>1, <3>2 DEF M!Enable
    <3>3. CASE track = 0 \/ muted
      <4>1. banner' = IF mounted THEN M!IsMuted' ELSE banner
        BY <2>2, <3>3 DEF M!Enable, M!Noticed, M!Followed, M!Events
      <4>2. M!IsMuted' = FALSE
        BY <3>1 DEF M!IsMuted
      <4> QED
        BY <2>2, <3>1, <4>1, <4>2
    <3> QED
      BY <3>2, <3>3
  <2>3. ASSUME M!Unpublish, UNCHANGED mounted PROVE BannerInv'
    BY <2>3 DEF M!Unpublish, M!Noticed, M!Followed, M!Events, M!IsMuted
  <2>4. CASE M!Enters
    BY <2>4 DEF M!Enters, M!track, M!IsMuted
  <2>5. ASSUME NEW r \in Mutes, M!MuteDone(r) PROVE BannerInv'
    BY <2>5 DEF M!MuteDone, M!Noticed, M!Followed, M!Events, M!IsMuted, M!track
  <2> HIDE DEF BannerInv
  <2>6. CASE M!Breaks \/ M!TurnOn \/ \E r \in M!Roles : M!Permission(r)
    BY <2>1, <2>2, <2>3, <2>6 DEF M!Breaks, M!TurnOn, M!Permission, M!track
  <2>7. CASE \E s \in Syncs : M!SyncStarts(s) \/ M!SyncMic(s) \/ M!SyncCam(s)
    BY <2>1, <2>2, <2>7 DEF M!SyncStarts, M!SyncMic, M!SyncCam, M!track
  <2>8. CASE UNCHANGED M!vars \/ \E r \in Mutes : M!MuteFinds(r)
    BY <2>1, <2>8 DEF M!vars, M!MuteFinds, M!track
  <2> QED
    BY <2>4, <2>5, <2>6, <2>7, <2>8 DEF M!Next
<1> QED
  BY <1>1, <1>2, PTL DEF M!Spec

\* For any number of overlapping syncs and mute requests and any publications: while
\* there is a microphone the banner says whether it is muted.
THEOREM BannerTells == M!Spec => []BannerTrue
<1>1. BannerInv => BannerTrue
  BY DEF BannerInv
<1> QED
  BY <1>1, BannerInductive, PTL

-----------------------------------------------------------------------------
(* The badge of the big tile (HostStage).                                  *)

\* The badge is that of whom it listens to, also while the tile shows another.
StageTyped ==
    /\ cameras \in Seq(People)
    /\ ask # S!NoAsk => ask.names \in People
    /\ \A c \in calls : c.who \in People

Heeds == listens # NoOne => listens \in People /\ badge = S!Audible(listens)

BadgeInv == StageTyped /\ Heeds

LEMMA OneCameraLess ==
  ASSUME StageTyped, NEW p \in People
  PROVE  S!Without(p) \in Seq(People)
<1>0. cameras \in Seq(People)
  BY DEF StageTyped
<1>1. CASE p \in S!ToSet(cameras)
  <2> DEFINE i == CHOOSE i \in DOMAIN cameras : cameras[i] = p
  <2>1. i \in 1 .. Len(cameras)
    BY <1>0, <1>1 DEF S!ToSet
  <2>2. S!Without(p) = SubSeq(cameras, 1, i - 1) \o SubSeq(cameras, i + 1, Len(cameras))
    BY <1>1 DEF S!Without, S!RemoveAt
  <2> HIDE DEF i
  <2> QED
    BY <1>0, <2>1, <2>2
<1>2. CASE p \notin S!ToSet(cameras)
  BY <1>0, <1>2 DEF S!Without
<1> QED
  BY <1>1, <1>2

LEMMA StageStaysTyped ==
  ASSUME StageTyped, [S!Next]_(S!vars)
  PROVE  StageTyped'
<1> USE DEF StageTyped
<1>0. Host \in People /\ S!Guests \subseteq People
  BY HearingAssumption DEF S!HostStageAssumption, S!Guests
<1>1. ASSUME NEW p \in People, NEW as, S!Goes(p, as) PROVE cameras' \in Seq(People)
  BY <1>1, OneCameraLess DEF S!Goes
<1>2. ASSUME NEW p \in People, S!CameraChanges(p) PROVE StageTyped'
  <2>1. cameras' = S!Without(p) \/ cameras' = Append(cameras, p)
    BY <1>2 DEF S!CameraChanges
  <2>2. UNCHANGED <<ask, calls>>
    BY <1>2 DEF S!CameraChanges
  <2>3. cameras' \in Seq(People)
    <3>1. S!Without(p) \in Seq(People)
      BY OneCameraLess
    <3>2. Append(cameras, p) \in Seq(People)
      OBVIOUS
    <3> QED
      BY <2>1, <3>1, <3>2
  <2> QED
    BY <2>2, <2>3
<1>9. ASSUME NEW p \in People, S!Leaves(p) PROVE StageTyped'
  BY <1>1, <1>9 DEF S!Leaves
<1>3. ASSUME NEW p \in People, \/ S!MicrophoneChanges(p) \/ S!SubscriptionChanges(p) \/ S!GetsLoud(p)
                               \/ \E as \in {"guest", "speaker"} : S!Comes(p, as)
      PROVE  StageTyped'
  BY <1>3 DEF S!MicrophoneChanges, S!Microphone, S!SubscriptionChanges, S!GetsLoud, S!Comes
<1>4. CASE S!BadgeEffect \/ S!Toggle \/ S!Turn("next") \/ S!Turn("previous") \/ UNCHANGED S!vars
  BY <1>4 DEF S!BadgeEffect, S!Toggle, S!Turn, S!vars, S!room
<1>5. ASSUME NEW p \in People, NEW op, S!Call(op, p) PROVE StageTyped'
  BY <1>5 DEF S!Call, S!room
<1>6. ASSUME NEW p \in People, NEW tile, S!AskKick(p, tile) PROVE StageTyped'
  BY <1>6 DEF S!AskKick, S!room
<1>7. ASSUME NEW yes, S!Confirm(yes) PROVE StageTyped'
  BY <1>7 DEF S!Confirm, S!Meant, S!room
<1>8. ASSUME NEW c \in calls, S!Answered(c) PROVE StageTyped'
  <2>1. c.who \in People /\ calls' \subseteq calls /\ UNCHANGED ask
    BY <1>8 DEF S!Answered
  <2>2. cameras' \in Seq(People)
    BY <1>1, <1>8, <2>1 DEF S!Answered, S!Microphone, S!room
  <2> QED
    BY <2>1, <2>2
<1> QED
  BY <1>0, <1>2, <1>3, <1>4, <1>5, <1>6, <1>7, <1>8, <1>9 DEF S!Next

LEMMA MainIsShown ==
  ASSUME StageTyped, S!HasBig
  PROVE  S!Main \in People
<1>1. cameras \in Seq(People) /\ cameras # <<>>
  BY DEF StageTyped, S!HasBig
<1>2. Head(cameras) \in People /\ S!ToSet(cameras) \subseteq People
  BY <1>1 DEF S!ToSet
<1> QED
  BY <1>2 DEF S!Main

LEMMA HeedsStays ==
  ASSUME BadgeInv, [S!Next]_(S!vars)
  PROVE  Heeds'
<1>0. StageTyped /\ Heeds /\ Host \in People /\ S!Guests \subseteq People
  BY HearingAssumption DEF BadgeInv, S!HostStageAssumption, S!Guests
<1>1. ASSUME UNCHANGED <<mic, hears>>, UNCHANGED S!big PROVE Heeds'
  BY <1>0, <1>1 DEF S!big, S!Audible, Heeds
<1>2. ASSUME listens' = NoOne PROVE Heeds'
  BY <1>2 DEF Heeds
<1>3. ASSUME UNCHANGED <<mic, hears>>, S!Unmounts PROVE Heeds'
  BY <1>1, <1>2, <1>3 DEF S!Unmounts
\* Every change of somebody's microphone is one the badge listens to.
<1>4. ASSUME NEW p \in People, NEW event \in S!Events, S!Heard(p, event),
             \A o \in People \ {p} : mic'[o] = mic[o] /\ (o \in hears' <=> o \in hears)
      PROVE  Heeds'
  <2>1. CASE listens = p
    BY <1>4, <2>1 DEF S!Heard, S!Listened, Heeds
  <2>2. CASE listens # p
    <3>1. listens' = listens /\ badge' = badge
      BY <1>4, <2>2 DEF S!Heard
    <3>2. listens # NoOne => S!Audible(listens)' = S!Audible(listens)
      BY <1>0, <1>4, <2>2, <3>1 DEF S!Audible, Heeds
    <3> QED
      BY <1>0, <3>1, <3>2 DEF Heeds
  <2> QED
    BY <2>1, <2>2
<1>5. ASSUME NEW p \in People, NEW before, NEW after, NEW event \in S!Events,
             S!Microphone(p, before, after, event)
      PROVE  Heeds'
  BY <1>4, <1>5 DEF S!Microphone
<1>6. ASSUME NEW p \in People, S!MicrophoneChanges(p) PROVE Heeds'
  BY <1>5, <1>6 DEF S!MicrophoneChanges, S!Events
<1>7. ASSUME NEW p \in People, S!SubscriptionChanges(p) PROVE Heeds'
  BY <1>4, <1>7 DEF S!SubscriptionChanges, S!Events
<1>8. ASSUME NEW p \in People, NEW as, S!Goes(p, as) PROVE Heeds'
  <2>1. CASE listens' = NoOne
    BY <1>2, <2>1
  <2>2. CASE listens' # NoOne
    <3>1. listens' = listens /\ badge' = IF listens = p THEN S!Audible(p)' ELSE badge
      BY <1>8, <2>2 DEF S!Goes
    <3>2. ASSUME NEW o \in People \ {p} PROVE mic'[o] = mic[o] /\ (o \in hears' <=> o \in hears)
      <4>1. CASE as = "away"
        <5>1. mic' = [mic EXCEPT ![p] = "none"] /\ hears' = hears \ {p}
          BY <1>8, <4>1 DEF S!Goes
        <5> QED
          BY <5>1
      <4>2. CASE as # "away"
        BY <1>8, <4>2 DEF S!Goes
      <4> QED
        BY <4>1, <4>2
    <3> QED
      BY <1>0, <2>2, <3>1, <3>2 DEF S!Audible, Heeds
  <2> QED
    BY <2>1, <2>2
<1>9. ASSUME NEW p \in People, \/ S!CameraChanges(p) \/ S!GetsLoud(p) \/ S!Leaves(p)
                               \/ \E as \in {"guest", "speaker"} : S!Comes(p, as)
      PROVE  Heeds'
  BY <1>1, <1>3, <1>8, <1>9 DEF S!CameraChanges, S!GetsLoud, S!Leaves, S!Comes
<1>10. CASE S!BadgeEffect
  <2>1. S!Main \in People /\ listens' = S!Main /\ badge' = S!Audible(S!Main) /\ UNCHANGED <<mic, hears>>
    BY <1>0, <1>10, MainIsShown DEF S!BadgeEffect, S!room
  <2> HIDE DEF S!Main
  <2> QED
    BY <2>1 DEF S!Audible, Heeds
<1>11. CASE S!Toggle \/ S!Turn("next") \/ S!Turn("previous") \/ UNCHANGED S!vars
  BY <1>1, <1>3, <1>11 DEF S!Toggle, S!Turn, S!vars, S!room
<1>12. ASSUME NEW p \in People, \/ \E op \in {"mute", "speaker", "guest"} : S!Call(op, p)
                                \/ \E tile \in {p, S!BigTile} : S!AskKick(p, tile)
       PROVE  Heeds'
  BY <1>1, <1>12 DEF S!Call, S!AskKick, S!room
<1>13. CASE S!Confirm(TRUE) \/ S!Confirm(FALSE)
  BY <1>1, <1>13 DEF S!Confirm, S!room
<1>14. ASSUME NEW c \in calls, S!Answered(c) PROVE Heeds'
  <2>1. c.who \in People
    BY <1>0 DEF StageTyped
  <2> QED
    BY <1>1, <1>5, <1>8, <1>14, <2>1 DEF S!Answered, S!room, S!Events
<1> QED
  BY <1>0, <1>6, <1>7, <1>9, <1>10, <1>11, <1>12, <1>13, <1>14 DEF S!Next

LEMMA BadgeInductive == S!Spec => []BadgeInv
<1>1. S!Init => BadgeInv
  BY DEF S!Init, BadgeInv, StageTyped, Heeds
<1>2. BadgeInv /\ [S!Next]_(S!vars) => BadgeInv'
  BY StageStaysTyped, HeedsStays DEF BadgeInv
<1> QED
  BY <1>1, <1>2, PTL DEF S!Spec

\* For any number of people, cameras and changes of the room: once the big tile's effect
\* has run, its badge is that of the person it shows.
THEOREM BadgeTells == S!Spec => []BadgeTrue
<1>1. BadgeInv => BadgeTrue
  <2> SUFFICES ASSUME BadgeInv, S!HasBig, listens = S!Main PROVE badge = S!Audible(S!Main)
    BY DEF BadgeTrue, S!BadgeTrue
  <2>1. S!Main \in People
    BY MainIsShown DEF BadgeInv
  <2> QED
    BY <2>1, HearingAssumption DEF BadgeInv, Heeds, S!HostStageAssumption
<1> QED
  BY <1>1, BadgeInductive, PTL

\* Whatever happens between the click, the dialog and its answer: the only kicks that
\* are sent are of the one the dialog named.
THEOREM KicksAreAsAsked == S!Spec => KickAsAsked
<1> DEFINE Asked == \A c \in calls' \ calls : c.op = "kick" => c.who = ask.names
<1>1. [S!Next]_(S!vars) => Asked
  <2> SUFFICES ASSUME [S!Next]_(S!vars), NEW c \in calls' \ calls, c.op = "kick"
               PROVE  c.who = ask.names
    OBVIOUS
  <2>1. UNCHANGED calls => FALSE
    OBVIOUS
  <2>2. ~\E p \in S!Guests, op \in {"mute", "speaker", "guest"} : S!Call(op, p)
    BY DEF S!Call
  <2>3. ~\E d \in calls : S!Answered(d)
    BY DEF S!Answered
  <2>4. S!Confirm(TRUE) \/ S!Confirm(FALSE)
    BY <2>1, <2>2, <2>3 DEF S!Next, S!vars, S!MicrophoneChanges, S!SubscriptionChanges, S!CameraChanges,
       S!GetsLoud, S!Leaves, S!Comes, S!BadgeEffect, S!Toggle, S!Turn, S!AskKick
  <2> QED
    BY <2>4 DEF S!Confirm, S!Meant
<1> QED
  BY <1>1, PTL DEF S!Spec, KickAsAsked, S!KickAsAsked

-----------------------------------------------------------------------------
(* The record of published tracks (AudioReach).                            *)

\* The webhooks, and what their handlers have left to do.
AddTodo    == {<<"sadd", "hset">>, <<"hset">>}
RemoveTodo == {<<"srem", "hdel", "clear">>, <<"hdel", "clear">>,
               <<"srem", "hdel", "clear", "fields", "clear">>,
               <<"hdel", "clear", "fields", "clear">>}
OwnedTodo  == {<<"owned", "srem", "hdel", "clear", "fields", "clear">>}
OtherTodo  == {<<>>, <<"clear">>, <<"clear", "fields", "clear">>, <<"fields", "clear">>}

Hooks == [todo : AddTodo \cup RemoveTodo \cup OwnedTodo \cup OtherTodo,
          sids : SUBSET Tracks, user : Users]

Adds(h, t)    == h.todo \in AddTodo /\ t \in h.sids
Takes(h, t)   == h.todo \in RemoveTodo /\ t \in h.sids
Departs(h, t) == h.todo \in OwnedTodo /\ h.user = Owner[t]
Removes(h, t) == Takes(h, t) \/ Departs(h, t)

\* A webhook that waits: about one track, of its owner, or about a departure.
Waiting(h) == \/ h.todo \in {<<"sadd", "hset">>, <<"srem", "hdel", "clear">>}
                 /\ \E t \in Tracks : h.sids = {t} /\ h.user = Owner[t]
              \/ h.todo \in OwnedTodo /\ h.sids = {}

Coming(t)      == {i \in 1 .. Len(queue) : Adds(queue[i], t)}
GoesAfter(t, i) == \E j \in i + 1 .. Len(queue) : Removes(queue[j], t)

\* What is recorded of a track.
Clean(t)    == t \notin published /\ owner[t] = Nobody
Recorded(t) == t \in published /\ owner[t] = Owner[t]

NotYet(t)     == t \in fresh /\ t \notin live /\ Coming(t) = {} /\ ~Adds(hook, t) /\ Clean(t)
Announced(t)  == /\ \E i \in Coming(t) : Coming(t) = {i} /\ (t \in live <=> ~GoesAfter(t, i))
                 /\ t \notin fresh /\ ~Adds(hook, t) /\ Clean(t)
Recording(t)  == /\ t \notin fresh /\ Coming(t) = {} /\ Adds(hook, t) /\ hook.user = Owner[t]
                 /\ owner[t] = Nobody /\ (t \in published <=> hook.todo = <<"hset">>)
                 /\ (t \in live <=> ~GoesAfter(t, 0))
InRecord(t)   == /\ t \notin fresh /\ Coming(t) = {} /\ ~Adds(hook, t) /\ ~Removes(hook, t)
                 /\ Recorded(t) /\ (t \in live <=> ~GoesAfter(t, 0))
Removing(t)   == /\ t \notin fresh /\ t \notin live /\ Coming(t) = {} /\ Removes(hook, t)
                 /\ owner[t] = Owner[t]
                 /\ t \in published <=> Head(hook.todo) # "hdel"
Forgotten(t)  == /\ t \notin fresh /\ t \notin live /\ Coming(t) = {} /\ ~Adds(hook, t) /\ Clean(t)

Stage(t) == NotYet(t) \/ Announced(t) \/ Recording(t) \/ InRecord(t) \/ Removing(t) \/ Forgotten(t)

ReportsOf == [pc : {"idle", "read", "judge", "signal"}, reported : SUBSET Tracks,
              expected : SUBSET Tracks]

RecordTyped ==
    /\ live \subseteq Tracks /\ fresh \subseteq Tracks /\ published \subseteq Tracks
    /\ owner \in [Tracks -> Users \cup {Nobody}]
    /\ queue \in Seq(Hooks) /\ hook \in Hooks
    /\ \A i \in 1 .. Len(queue) : Waiting(queue[i])
    /\ spoiled \in BOOLEAN
    /\ alerts \subseteq Tracks /\ subscribed \subseteq Tracks
    /\ report \in [Reports -> ReportsOf]

RecordInv == RecordTyped /\ (~spoiled => \A t \in Tracks : Stage(t))

\* The two kinds of tuples a handler works off, told apart by their heads.
Todos == AddTodo \cup RemoveTodo \cup OwnedTodo \cup OtherTodo

LEMMA TodoHeads ==
  /\ \A todo \in AddTodo : todo # <<>> /\ Head(todo) \in {"sadd", "hset"}
  /\ \A todo \in RemoveTodo : todo # <<>> /\ Head(todo) \in {"srem", "hdel"}
  /\ \A todo \in OwnedTodo : todo # <<>> /\ Head(todo) = "owned"
  /\ \A todo \in OtherTodo : todo = <<>> \/ Head(todo) \in {"clear", "fields"}
BY DEF AddTodo, RemoveTodo, OwnedTodo, OtherTodo

LEMMA TodoTails ==
  /\ \A todo \in AddTodo : /\ Head(todo) = "sadd" => Tail(todo) = <<"hset">>
                           /\ Head(todo) = "hset" => Tail(todo) = <<>>
  /\ \A todo \in RemoveTodo :
        /\ Head(todo) = "srem" => Tail(todo) \in RemoveTodo /\ Head(Tail(todo)) = "hdel"
        /\ Head(todo) = "hdel" => Tail(todo) \in OtherTodo
  /\ \A todo \in OwnedTodo : Tail(todo) \in RemoveTodo /\ Head(Tail(todo)) = "srem"
  /\ \A todo \in OtherTodo : todo # <<>> => Tail(todo) \in OtherTodo
BY DEF AddTodo, RemoveTodo, OwnedTodo, OtherTodo

LEMMA FirstTodos ==
  /\ <<"sadd", "hset">> \in AddTodo /\ <<"hset">> \in AddTodo
  /\ <<"srem", "hdel", "clear">> \in RemoveTodo
  /\ <<"owned", "srem", "hdel", "clear", "fields", "clear">> \in OwnedTodo /\ <<>> \in OtherTodo
  /\ <<"sadd", "hset">> # <<"hset">> /\ Head(<<"sadd", "hset">>) = "sadd"
  /\ Head(<<"hset">>) = "hset" /\ Head(<<"srem", "hdel", "clear">>) = "srem"
BY DEF AddTodo, RemoveTodo, OwnedTodo, OtherTodo

LEMMA TodoKinds ==
  /\ AddTodo \cap (RemoveTodo \cup OwnedTodo \cup OtherTodo) = {}
  /\ RemoveTodo \cap (OwnedTodo \cup OtherTodo) = {} /\ OwnedTodo \cap OtherTodo = {}
  /\ \A todo \in Todos :
        todo # <<>> => /\ todo \in AddTodo <=> Head(todo) \in {"sadd", "hset"}
                       /\ todo \in RemoveTodo <=> Head(todo) \in {"srem", "hdel"}
                       /\ todo \in OwnedTodo <=> Head(todo) = "owned"
                       /\ todo \in OtherTodo <=> Head(todo) \in {"clear", "fields"}
BY TodoHeads DEF Todos

-----------------------------------------------------------------------------
(* What a step does to the webhooks that are still to come about a track.  *)

LEMMA QueueStays ==
  ASSUME UNCHANGED queue, NEW t \in Tracks
  PROVE  Coming(t)' = Coming(t) /\ \A i : GoesAfter(t, i)' <=> GoesAfter(t, i)
BY DEF Coming, GoesAfter

LEMMA QueueGrows ==
  ASSUME queue \in Seq(Hooks), NEW h \in Hooks, queue' = Append(queue, h), NEW t \in Tracks
  PROVE  /\ Coming(t)' = IF Adds(h, t) THEN Coming(t) \cup {Len(queue) + 1} ELSE Coming(t)
         /\ \A i \in 0 .. Len(queue) : GoesAfter(t, i)' <=> GoesAfter(t, i) \/ Removes(h, t)
         /\ \A i \in Nat : i = Len(queue) + 1 => ~GoesAfter(t, i)'
<1>1. /\ Len(queue') = Len(queue) + 1 /\ Len(queue) \in Nat
      /\ \A i \in 1 .. Len(queue) : queue'[i] = queue[i]
      /\ queue'[Len(queue) + 1] = h
  OBVIOUS
<1>2. \A i : i \in 1 .. Len(queue) + 1 <=> i \in 1 .. Len(queue) \/ i = Len(queue) + 1
  BY <1>1
<1>3. Coming(t)' = IF Adds(h, t) THEN Coming(t) \cup {Len(queue) + 1} ELSE Coming(t)
  <2>1. \A i : i \in Coming(t)' <=> i \in Coming(t) \/ (i = Len(queue) + 1 /\ Adds(h, t))
    BY <1>1, <1>2 DEF Coming, Adds
  <2> QED
    BY <2>1
<1>4. ASSUME NEW i \in 0 .. Len(queue) PROVE GoesAfter(t, i)' <=> GoesAfter(t, i) \/ Removes(h, t)
  <2>1. \A j : j \in i + 1 .. Len(queue) + 1 <=> j \in i + 1 .. Len(queue) \/ j = Len(queue) + 1
    BY <1>1
  <2>2. \A j \in i + 1 .. Len(queue) : j \in 1 .. Len(queue)
    BY <1>1
  <2>3. \A j \in i + 1 .. Len(queue) : Removes(queue'[j], t) <=> Removes(queue[j], t)
    BY <1>1, <2>2
  <2>4. GoesAfter(t, i)' <=> \E j \in i + 1 .. Len(queue) + 1 : Removes(queue'[j], t)
    BY <1>1 DEF GoesAfter, Removes, Takes, Departs
  <2> QED
    BY <1>1, <2>1, <2>3, <2>4 DEF GoesAfter
<1>5. \A i \in Nat : i = Len(queue) + 1 => ~GoesAfter(t, i)'
  BY <1>1 DEF GoesAfter
<1> QED
  BY <1>3, <1>4, <1>5

LEMMA QueueShrinks ==
  ASSUME queue \in Seq(Hooks), queue # <<>>, queue' = Tail(queue), NEW t \in Tracks
  PROVE  /\ \A i \in Nat : i \in Coming(t)' <=> i + 1 \in Coming(t) /\ i >= 1
         /\ Coming(t)' \subseteq Nat /\ Coming(t) \subseteq Nat \ {0}
         /\ 1 \in Coming(t) <=> Adds(queue[1], t)
         /\ \A i \in Nat : GoesAfter(t, i)' <=> GoesAfter(t, i + 1)
         /\ GoesAfter(t, 0) <=> GoesAfter(t, 1) \/ Removes(queue[1], t)
<1>1. /\ Len(queue) \in Nat /\ Len(queue) >= 1 /\ Len(queue') = Len(queue) - 1
      /\ \A i \in 1 .. Len(queue) - 1 : queue'[i] = queue[i + 1]
  OBVIOUS
<1>2. \A i \in Nat : i \in Coming(t)' <=> i + 1 \in Coming(t) /\ i >= 1
  BY <1>1 DEF Coming, Adds
<1>3. Coming(t)' \subseteq Nat /\ Coming(t) \subseteq Nat \ {0} /\ (1 \in Coming(t) <=> Adds(queue[1], t))
  BY <1>1 DEF Coming
<1>4. ASSUME NEW i \in Nat PROVE GoesAfter(t, i)' <=> GoesAfter(t, i + 1)
  <2>1. GoesAfter(t, i)' <=> \E j \in i + 1 .. Len(queue) - 1 : Removes(queue'[j], t)
    BY <1>1 DEF GoesAfter, Removes, Takes, Departs
  <2>2. \A j \in i + 1 .. Len(queue) - 1 : queue'[j] = queue[j + 1] /\ j + 1 \in i + 1 + 1 .. Len(queue)
    BY <1>1
  <2>3. \A j \in i + 1 + 1 .. Len(queue) : j - 1 \in i + 1 .. Len(queue) - 1 /\ queue'[j - 1] = queue[j]
    BY <1>1
  <2>4. GoesAfter(t, i + 1) <=> \E j \in i + 1 + 1 .. Len(queue) : Removes(queue[j], t)
    BY DEF GoesAfter
  <2> QED
    BY <2>1, <2>2, <2>3, <2>4
<1>5. GoesAfter(t, 0) <=> GoesAfter(t, 1) \/ Removes(queue[1], t)
  <2>1. \A j : j \in 0 + 1 .. Len(queue) <=> j = 1 \/ j \in 1 + 1 .. Len(queue)
    BY <1>1
  <2> QED
    BY <2>1 DEF GoesAfter
<1> QED
  BY <1>2, <1>3, <1>4, <1>5

-----------------------------------------------------------------------------
(* What a step does to the stage of a track.                               *)

SameTrack(t) == /\ (t \in fresh)' <=> t \in fresh
                /\ (t \in live)' <=> t \in live
SameRecord(t) == /\ (t \in published)' <=> t \in published
                 /\ owner'[t] = owner[t]

LEMMA StageStays ==
  ASSUME NEW t \in Tracks, Stage(t), UNCHANGED <<queue, hook>>, SameTrack(t), SameRecord(t)
  PROVE  Stage(t)'
<1>1. Coming(t)' = Coming(t) /\ \A i : GoesAfter(t, i)' <=> GoesAfter(t, i)
  BY QueueStays
<1> QED
  BY <1>1 DEF Stage, NotYet, Announced, Recording, InRecord, Removing, Forgotten, SameTrack, SameRecord,
     Clean, Recorded, Adds, Removes, Takes, Departs

\* A webhook that is about other tracks.
LEMMA OthersHook ==
  ASSUME RecordTyped, NEW t \in Tracks, Stage(t), UNCHANGED <<hook, published, owner>>, SameTrack(t),
         NEW h \in Hooks, queue' = Append(queue, h), ~Adds(h, t), ~Removes(h, t)
  PROVE  Stage(t)'
<1>1. Coming(t)' = Coming(t) /\ \A i \in 0 .. Len(queue) : GoesAfter(t, i)' <=> GoesAfter(t, i)
  BY QueueGrows DEF RecordTyped
<1>2. 0 \in 0 .. Len(queue) /\ Coming(t) \subseteq 0 .. Len(queue)
  BY DEF RecordTyped, Coming
<1> QED
  BY <1>1, <1>2 DEF Stage, NotYet, Announced, Recording, InRecord, Removing, Forgotten, SameTrack,
     Clean, Recorded, Adds, Removes, Takes, Departs

\* A track ends: its removal is announced.
LEMMA TrackEnds ==
  ASSUME RecordTyped, NEW t \in Tracks, Stage(t), UNCHANGED <<hook, published, owner, fresh>>,
         t \notin live', NEW h \in Hooks, queue' = Append(queue, h), ~Adds(h, t), Removes(h, t)
  PROVE  Stage(t)'
<1>1. Coming(t)' = Coming(t) /\ \A i \in 0 .. Len(queue) : GoesAfter(t, i)'
  BY QueueGrows DEF RecordTyped
<1>2. 0 \in 0 .. Len(queue) /\ Coming(t) \subseteq 0 .. Len(queue)
  BY DEF RecordTyped, Coming
<1> QED
  BY <1>1, <1>2 DEF Stage, NotYet, Announced, Recording, InRecord, Removing, Forgotten,
     Clean, Recorded, Adds, Removes, Takes, Departs

\* A track is published.
LEMMA TrackBegins ==
  ASSUME RecordTyped, NEW t \in Tracks, Stage(t), UNCHANGED <<hook, published, owner>>,
         t \in fresh, t \notin fresh', t \in live', NEW h \in Hooks, queue' = Append(queue, h), Adds(h, t)
  PROVE  Stage(t)'
<1> PICK n \in Nat : n = Len(queue) + 1
  BY DEF RecordTyped
<1>1. Coming(t)' = Coming(t) \cup {n} /\ ~GoesAfter(t, n)'
  BY QueueGrows DEF RecordTyped
<1>2. NotYet(t)
  BY DEF Stage, Announced, Recording, InRecord, Removing, Forgotten
<1> QED
  BY <1>1, <1>2 DEF Stage, NotYet, Announced, Clean, Adds

\* The handler takes up the next webhook.
LEMMA HookTaken ==
  ASSUME RecordTyped, NEW t \in Tracks, Stage(t), HookStarts
  PROVE  Stage(t)'
<1> DEFINE h == queue[1]
<1>0. /\ hook.todo = <<>> /\ queue # <<>> /\ hook' = h /\ queue' = Tail(queue)
      /\ UNCHANGED <<fresh, live, published, owner>> /\ queue \in Seq(Hooks)
      /\ 1 \in 1 .. Len(queue)
  BY DEF HookStarts, sfu, redis, RecordTyped
<1>1. h \in Hooks /\ Waiting(h)
  BY <1>0 DEF RecordTyped
<1>2. /\ \A i \in Nat : i \in Coming(t)' <=> i + 1 \in Coming(t) /\ i >= 1
      /\ Coming(t)' \subseteq Nat /\ Coming(t) \subseteq Nat \ {0}
      /\ 1 \in Coming(t) <=> Adds(h, t)
      /\ \A i \in Nat : GoesAfter(t, i)' <=> GoesAfter(t, i + 1)
      /\ GoesAfter(t, 0) <=> GoesAfter(t, 1) \/ Removes(h, t)
  BY <1>0, QueueShrinks
<1>3. ~Adds(hook, t) /\ ~Removes(hook, t)
  BY <1>0, TodoHeads DEF Adds, Removes, Takes, Departs
<1>4. /\ Adds(hook, t)' <=> Adds(h, t)
      /\ Removes(hook, t)' <=> Removes(h, t)
      /\ Clean(t)' <=> Clean(t)
      /\ Recorded(t)' <=> Recorded(t)
  BY <1>0 DEF Adds, Removes, Takes, Departs, Clean, Recorded
<1>5. ASSUME Coming(t) = {} PROVE Coming(t)' = {} /\ ~Adds(h, t)
  BY <1>2, <1>5
<1>6. Adds(h, t) => ~Removes(h, t) /\ h.todo = <<"sadd", "hset">> /\ h.user = Owner[t]
  <2>1. ASSUME Adds(h, t) PROVE h.todo \notin RemoveTodo /\ h.todo \notin OwnedTodo
    BY <2>1, TodoKinds DEF Adds
  <2>2. ASSUME Adds(h, t) PROVE h.todo # <<"srem", "hdel", "clear">>
    BY <2>1, <2>2, FirstTodos
  <2> QED
    BY <1>1, <2>1, <2>2 DEF Adds, Removes, Takes, Departs, Waiting
<1> HIDE DEF h
<1>7. CASE NotYet(t)
  BY <1>0, <1>4, <1>5, <1>7 DEF Stage, NotYet
<1>8. CASE Forgotten(t)
  BY <1>0, <1>4, <1>5, <1>8 DEF Stage, Forgotten
<1>9. CASE InRecord(t)
  <2>1. t \in live' <=> ~(GoesAfter(t, 0)' \/ Removes(h, t))
    <3>1. GoesAfter(t, 0)' <=> GoesAfter(t, 1)
      BY <1>2
    <3>2. live' = live /\ (t \in live <=> ~GoesAfter(t, 0))
      BY <1>0, <1>9 DEF InRecord
    <3> QED
      BY <1>2, <3>1, <3>2
  <2>2. CASE Removes(h, t)
    <3>1. Head(h.todo) # "hdel"
      BY <1>1, <2>2, TodoHeads, TodoKinds, FirstTodos DEF Waiting, Removes, Takes, Departs
    <3>2. Removing(t)'
      BY <1>0, <1>4, <1>5, <1>9, <2>1, <2>2, <3>1 DEF InRecord, Removing, Recorded
    <3> QED
      BY <3>2 DEF Stage
  <2>3. CASE ~Removes(h, t)
    <3>1. InRecord(t)'
      BY <1>0, <1>4, <1>5, <1>9, <2>1, <2>3 DEF InRecord
    <3> QED
      BY <3>1 DEF Stage
  <2> QED
    BY <2>2, <2>3
<1>10. CASE Announced(t)
  <2> PICK i \in Coming(t) : Coming(t) = {i} /\ (t \in live <=> ~GoesAfter(t, i))
    BY <1>10 DEF Announced
  <2>1. CASE i = 1
    <3>1. Adds(h, t) /\ Coming(t)' = {} /\ (GoesAfter(t, 0)' <=> GoesAfter(t, 1))
      BY <1>2, <2>1
    <3>2. hook'.todo # <<"hset">> /\ hook'.user = Owner[t]
      BY <1>0, <1>6, <3>1, FirstTodos
    <3>3. Recording(t)'
      BY <1>0, <1>4, <1>10, <2>1, <3>1, <3>2 DEF Recording, Announced, Clean, Nobody
    <3> QED
      BY <3>3 DEF Stage
  <2>2. CASE i # 1
    <3>1. i - 1 \in Nat /\ i - 1 >= 1 /\ ~Adds(h, t) /\ Coming(t)' = {i - 1}
      BY <1>2, <2>2
    <3>2. GoesAfter(t, i - 1)' <=> GoesAfter(t, i)
      BY <1>2, <3>1
    <3>3. Announced(t)'
      BY <1>0, <1>4, <1>10, <3>1, <3>2 DEF Announced
    <3> QED
      BY <3>3 DEF Stage
  <2> QED
    BY <2>1, <2>2
<1> QED
  BY <1>3, <1>7, <1>8, <1>9, <1>10 DEF Stage, Recording, Removing

\* The handler makes one call: about this track, or leaves it as it is.
LEMMA HookLeaves ==
  ASSUME NEW t \in Tracks, Stage(t), UNCHANGED queue, SameTrack(t), SameRecord(t),
         ~Adds(hook, t), ~Adds(hook, t)', ~Removes(hook, t)' \/ owner[t] # Owner[t], ~Removing(t)
  PROVE  Stage(t)'
<1>1. Coming(t)' = Coming(t) /\ \A i : GoesAfter(t, i)' <=> GoesAfter(t, i)
  BY QueueStays
<1> QED
  BY <1>1 DEF Stage, NotYet, Announced, Recording, InRecord, Forgotten, SameTrack, SameRecord,
     Clean, Recorded

LEMMA HookMoves ==
  ASSUME RecordTyped, NEW t \in Tracks, Stage(t), HookStep
  PROVE  Stage(t)'
<1>0. /\ UNCHANGED queue /\ SameTrack(t) /\ hook \in Hooks /\ hook.todo \in Todos /\ hook.todo # <<>>
      /\ hook'.todo = Tail(hook.todo) /\ hook'.user = hook.user
      /\ Coming(t)' = Coming(t) /\ \A i : GoesAfter(t, i)' <=> GoesAfter(t, i)
  <2>1. hook \in Hooks
    BY DEF RecordTyped
  <2>2. \A sids : NextStep(sids) => hook'.todo = Tail(hook.todo) /\ hook'.user = hook.user
    BY <2>1 DEF NextStep, Hooks
  <2>3. UNCHANGED queue /\ SameTrack(t) /\ hook.todo # <<>> /\ \E sids : NextStep(sids)
    BY DEF HookStep, StepIs, SameTrack, sfu
  <2> QED
    BY <2>1, <2>2, <2>3, QueueStays DEF Hooks, Todos
<1>7. owner[t] # Owner[t] \/ owner[t] # Nobody
  BY AudioReachAssumption DEF AudioReachAssumption, Nobody
<1>1. CASE StepIs("sadd") /\ NextStep(hook.sids) /\ published' = published \cup hook.sids
           /\ UNCHANGED <<owner, alerts>>
  <2>1. hook.todo \in AddTodo /\ hook'.todo = <<"hset">> /\ hook'.sids = hook.sids
        /\ Head(hook.todo) = "sadd"
    BY <1>0, <1>1, TodoKinds, TodoTails DEF StepIs, NextStep, Hooks
  <2>2. hook'.todo \in AddTodo /\ hook.todo # <<"hset">>
    BY <2>1, FirstTodos
  <2>3. ~Removes(hook, t) /\ ~Removes(hook, t)'
    BY <2>1, <2>2, TodoKinds DEF Removes, Takes, Departs
  <2>4. CASE t \in hook.sids
    <3>1. Recording(t)
      BY <2>1, <2>3, <2>4 DEF Stage, NotYet, Announced, InRecord, Removing, Forgotten, Adds
    <3>2. Recording(t)'
      BY <1>0, <1>1, <2>1, <2>2, <2>4, <3>1 DEF Recording, Adds, SameTrack
    <3> QED
      BY <3>2 DEF Stage
  <2>5. CASE t \notin hook.sids
    BY <1>0, <1>1, <2>1, <2>3, <2>5, HookLeaves DEF Adds, SameRecord, Removing
  <2> QED
    BY <2>4, <2>5
<1>2. CASE StepIs("hset") /\ NextStep(hook.sids) /\ UNCHANGED <<published, alerts>>
           /\ owner' = [o \in Tracks |-> IF o \in hook.sids THEN hook.user ELSE owner[o]]
  <2>1. hook.todo \in AddTodo /\ hook'.todo = <<>> /\ hook'.sids = hook.sids /\ Head(hook.todo) = "hset"
    BY <1>0, <1>2, TodoKinds, TodoTails DEF StepIs, NextStep, Hooks
  <2>2. ~Removes(hook, t) /\ ~Removes(hook, t)' /\ ~Adds(hook, t)'
    BY <2>1, TodoKinds, TodoHeads DEF Removes, Takes, Departs, Adds
  <2>3. CASE t \in hook.sids
    <3>1. Recording(t)
      BY <2>1, <2>2, <2>3 DEF Stage, NotYet, Announced, InRecord, Removing, Forgotten, Adds
    <3>2. hook.todo = <<"hset">>
      BY <2>1, FirstTodos DEF AddTodo
    <3>3. InRecord(t)'
      BY <1>0, <1>2, <2>2, <2>3, <3>1, <3>2 DEF Recording, InRecord, Recorded, SameTrack
    <3> QED
      BY <3>3 DEF Stage
  <2>4. CASE t \notin hook.sids
    BY <1>0, <1>2, <2>2, <2>4, HookLeaves DEF Adds, SameRecord, Removing
  <2> QED
    BY <2>3, <2>4
<1>3. CASE StepIs("owned") /\ NextStep(Owned(hook.user)) /\ UNCHANGED redis
  <2>1. hook.todo \in OwnedTodo /\ hook'.todo \in RemoveTodo /\ Head(hook'.todo) = "srem"
        /\ Head(hook.todo) = "owned"
    <3>1. hook.todo \in OwnedTodo /\ Head(hook.todo) = "owned"
      BY <1>0, <1>3, TodoKinds DEF StepIs
    <3> QED
      BY <1>0, <3>1, TodoTails
  <2>2. ~Adds(hook, t) /\ ~Takes(hook, t) /\ ~Adds(hook, t)' /\ ~Departs(hook, t)'
    BY <2>1, TodoKinds DEF Adds, Takes, Departs
  <2>3. Takes(hook, t)' <=> owner[t] = hook.user
    BY <1>0, <1>3, <2>1 DEF Takes, NextStep, Owned, Hooks
  <2>4. SameRecord(t)
    BY <1>3 DEF redis, SameRecord
  <2>5. CASE Removing(t)
    <3>1. owner[t] = hook.user
      BY <2>2, <2>5 DEF Removing, Removes, Departs
    <3>2. Removing(t)'
      BY <1>0, <2>1, <2>3, <2>4, <2>5, <3>1 DEF Removing, Removes, SameTrack, SameRecord
    <3> QED
      BY <3>2 DEF Stage
  <2>6. CASE ~Removing(t) /\ owner[t] = Owner[t]
    <3>1. InRecord(t)
      BY <1>7, <2>2, <2>6 DEF Stage, NotYet, Announced, Recording, Forgotten, Clean
    <3>2. hook.user # Owner[t]
      BY <2>1, <3>1 DEF InRecord, Removes, Departs
    <3>3. ~Removes(hook, t)'
      BY <2>2, <2>3, <2>6, <3>2 DEF Removes
    <3> QED
      BY <1>0, <2>2, <2>4, <2>6, <3>3, HookLeaves
  <2>7. CASE ~Removing(t) /\ owner[t] # Owner[t]
    BY <1>0, <2>2, <2>4, <2>7, HookLeaves
  <2> QED
    BY <2>5, <2>6, <2>7
<1>4. CASE StepIs("srem") /\ NextStep(hook.sids) /\ published' = published \ hook.sids
           /\ UNCHANGED <<owner, alerts>>
  <2>1. hook.todo \in RemoveTodo /\ hook'.todo \in RemoveTodo /\ Head(hook'.todo) = "hdel"
        /\ hook'.sids = hook.sids
    BY <1>0, <1>4, TodoKinds, TodoTails DEF StepIs, NextStep, Hooks
  <2>2. ~Adds(hook, t) /\ ~Departs(hook, t) /\ ~Adds(hook, t)' /\ ~Departs(hook, t)'
    BY <2>1, TodoKinds DEF Adds, Takes, Departs
  <2>3. CASE t \notin hook.sids
    BY <1>0, <1>4, <2>1, <2>2, <2>3, HookLeaves DEF SameRecord, Removing, Removes, Takes
  <2>4. CASE t \in hook.sids /\ Removing(t)
    <3>1. Removing(t)'
      BY <1>0, <1>4, <2>1, <2>4 DEF Removing, Removes, Takes, SameTrack
    <3> QED
      BY <3>1 DEF Stage
  <2>5. CASE t \in hook.sids /\ ~Removing(t)
    <3>1. Takes(hook, t) /\ ~InRecord(t) /\ ~Recording(t)
      BY <2>1, <2>2, <2>5 DEF Takes, Removes, InRecord, Recording
    <3>2. Clean(t)
      BY <2>5, <3>1 DEF Stage, NotYet, Announced, Forgotten
    <3> QED
      BY <1>0, <1>4, <1>7, <2>2, <2>5, <3>2, HookLeaves DEF Clean, SameRecord
  <2> QED
    BY <2>3, <2>4, <2>5
<1>5. CASE StepIs("hdel") /\ NextStep(hook.sids) /\ UNCHANGED <<published, alerts>>
           /\ owner' = [o \in Tracks |-> IF o \in hook.sids THEN Nobody ELSE owner[o]]
  <2>1. hook.todo \in RemoveTodo /\ hook'.todo \in OtherTodo /\ Head(hook.todo) = "hdel"
        /\ hook'.sids = hook.sids
    BY <1>0, <1>5, TodoKinds, TodoTails DEF StepIs, NextStep, Hooks
  <2>2. ~Adds(hook, t) /\ ~Departs(hook, t) /\ ~Adds(hook, t)' /\ ~Removes(hook, t)'
    BY <2>1, TodoKinds DEF Adds, Takes, Departs, Removes
  <2>3. CASE t \notin hook.sids
    BY <1>0, <1>5, <2>1, <2>2, <2>3, HookLeaves DEF SameRecord, Removing, Removes, Takes
  <2>4. CASE t \in hook.sids /\ Removing(t)
    <3>1. Forgotten(t)'
      BY <1>0, <1>5, <2>1, <2>2, <2>4 DEF Removing, Forgotten, Clean, SameTrack
    <3> QED
      BY <3>1 DEF Stage
  <2>5. CASE t \in hook.sids /\ ~Removing(t)
    <3>1. Takes(hook, t) /\ ~InRecord(t) /\ ~Recording(t)
      BY <2>1, <2>2, <2>5 DEF Takes, Removes, InRecord, Recording
    <3>2. Clean(t)
      BY <2>5, <3>1 DEF Stage, NotYet, Announced, Forgotten
    <3> QED
      BY <1>0, <1>5, <2>2, <2>5, <3>2, HookLeaves DEF Clean, SameRecord
  <2> QED
    BY <2>3, <2>4, <2>5
<1>6. CASE (StepIs("clear") \/ StepIs("fields")) /\ UNCHANGED <<published, owner>>
  <2>1. hook.todo \in OtherTodo /\ hook'.todo \in OtherTodo
    BY <1>0, <1>6, TodoKinds, TodoTails DEF StepIs
  <2>2. ~Adds(hook, t) /\ ~Removes(hook, t) /\ ~Adds(hook, t)' /\ ~Removes(hook, t)'
    BY <2>1, TodoKinds DEF Adds, Takes, Departs, Removes
  <2> QED
    BY <1>0, <1>6, <2>2, HookLeaves DEF SameRecord, Removing
<1> QED
  BY <1>1, <1>2, <1>3, <1>4, <1>5, <1>6 DEF HookStep, redis

LEMMA ReportsStayTyped ==
  ASSUME RecordTyped, [Next]_vars
  PROVE  /\ alerts' \subseteq Tracks /\ subscribed' \subseteq Tracks
         /\ report' \in [Reports -> ReportsOf]
<1> DEFINE Goal   == alerts' \subseteq Tracks /\ subscribed' \subseteq Tracks /\ report' \in [Reports -> ReportsOf]
<1>0. /\ alerts \subseteq Tracks /\ subscribed \subseteq Tracks /\ report \in [Reports -> ReportsOf]
      /\ published \subseteq Tracks /\ live \subseteq Tracks
  BY DEF RecordTyped
<1>1. ASSUME NEW p \in Reports, NEW x \in ReportsOf, report' = [report EXCEPT ![p] = x],
             alerts' \subseteq Tracks, UNCHANGED subscribed
      PROVE  Goal
  BY <1>0, <1>1
<1>2. NoReport \in ReportsOf
  BY DEF NoReport, ReportsOf
<1>3. ASSUME NEW p \in Reports, Send(p) PROVE Goal
  <2> DEFINE x == [NoReport EXCEPT !.pc = "read", !.reported = subscribed]
  <2>1. x \in ReportsOf
    BY <1>0, <1>2 DEF NoReport, ReportsOf
  <2>2. report' = [report EXCEPT ![p] = x] /\ UNCHANGED <<alerts, subscribed>>
    BY <1>3 DEF Send, redis, client
  <2> QED
    BY <1>0, <1>1, <2>1, <2>2
<1>4. ASSUME NEW p \in Reports, Read(p) PROVE Goal
  <2> DEFINE x == [report[p] EXCEPT !.pc = "judge", !.expected = Expected]
  <2>1. x \in ReportsOf
    BY <1>0 DEF Expected, ReportsOf
  <2>2. report' = [report EXCEPT ![p] = x] /\ UNCHANGED <<alerts, subscribed>>
    BY <1>4 DEF Read, redis, client
  <2> QED
    BY <1>0, <1>1, <2>1, <2>2
<1>5. ASSUME NEW p \in Reports, Judge(p) PROVE Goal
  <2> DEFINE x == [report[p] EXCEPT !.pc = "signal"]
  <2>1. x \in ReportsOf
    BY <1>0 DEF ReportsOf
  <2>2. report' = [report EXCEPT ![p] = x] \/ report' = [report EXCEPT ![p] = NoReport]
    BY <1>5 DEF Judge
  <2>3. alerts' \subseteq Tracks /\ UNCHANGED subscribed
    <3>1. report[p].expected \subseteq Tracks
      BY <1>0 DEF ReportsOf
    <3> QED
      BY <1>0, <1>5, <3>1 DEF Judge, Judged, client
  <2> QED
    BY <1>1, <1>2, <2>1, <2>2, <2>3
<1>6. ASSUME NEW p \in Reports, Signal(p) \/ ReportFails(p) PROVE Goal
  <2>1. report' = [report EXCEPT ![p] = NoReport] /\ UNCHANGED <<alerts, subscribed>>
    BY <1>6 DEF Signal, ReportFails, redis, client
  <2> QED
    BY <1>0, <1>1, <1>2, <2>1
<1>7. CASE \/ \E t \in Tracks : Publish(t) \/ Unpublish(t) \/ Granted(t) \/ Drop(t)
           \/ \E u \in Users : Leave(u) \/ Join(u)
           \/ HookStarts \/ HookFails \/ UNCHANGED vars
  <2>1. UNCHANGED <<alerts, report>>
    BY <1>7 DEF Publish, Unpublish, Granted, Drop, Leave, Join, HookStarts, HookFails, vars, redis
  <2>2. subscribed' \subseteq Tracks
    BY <1>0, <1>7 DEF Publish, Unpublish, Granted, Drop, Leave, Join, HookStarts, HookFails, vars, client
  <2> QED
    BY <1>0, <2>1, <2>2
<1>8. CASE HookStep
  <2>1. UNCHANGED <<subscribed, report>> /\ alerts' \subseteq alerts
    BY <1>8 DEF HookStep, redis, client
  <2> QED
    BY <1>0, <2>1
<1> QED
  BY <1>3, <1>4, <1>5, <1>6, <1>7, <1>8 DEF Next, Reporting

LEMMA RecordStaysTyped ==
  ASSUME RecordTyped, [Next]_vars
  PROVE  RecordTyped'
<1> DEFINE Queued == /\ queue \in Seq(Hooks)
                     /\ \A i \in 1 .. Len(queue) : Waiting(queue[i])
<1>0. Queued /\ hook \in Hooks /\ owner \in [Tracks -> Users \cup {Nobody}]
      /\ live \subseteq Tracks /\ fresh \subseteq Tracks /\ published \subseteq Tracks /\ spoiled \in BOOLEAN
      /\ Rx \in Users /\ \A t \in Tracks : Owner[t] \in Users
  BY AudioReachAssumption DEF RecordTyped, AudioReachAssumption
<1>1. ASSUME NEW h \in Hooks, Waiting(h), queue' = Append(queue, h) PROVE Queued'
  <2>1. queue' \in Seq(Hooks) /\ Len(queue') = Len(queue) + 1 /\ Len(queue) \in Nat
        /\ queue'[Len(queue) + 1] = h /\ \A i \in 1 .. Len(queue) : queue'[i] = queue[i]
    BY <1>0, <1>1
  <2>2. ASSUME NEW i \in 1 .. Len(queue') PROVE Waiting(queue'[i])
    BY <1>0, <1>1, <2>1, <2>2
  <2> QED
    BY <2>1, <2>2 DEF Waiting
<1>2. ASSUME NEW t \in Tracks, Publish(t) \/ Unpublish(t) PROVE RecordTyped'
  <2> DEFINE h(todo) == [todo |-> todo, sids |-> {t}, user |-> Owner[t]]
  <2>1. \A todo \in {<<"sadd", "hset">>, <<"srem", "hdel", "clear">>} : h(todo) \in Hooks /\ Waiting(h(todo))
    BY <1>0, FirstTodos DEF Hooks, Waiting
  <2>2. \E todo \in {<<"sadd", "hset">>, <<"srem", "hdel", "clear">>} : queue' = Append(queue, h(todo))
    BY <1>2 DEF Publish, Unpublish, Webhook
  <2> HIDE DEF h
  <2>3. Queued'
    BY <1>1, <2>1, <2>2
  <2>4. UNCHANGED <<hook, published, owner, spoiled>> /\ live' \subseteq Tracks /\ fresh' \subseteq Tracks
    BY <1>0, <1>2 DEF Publish, Unpublish, redis
  <2> QED
    BY <1>0, <2>3, <2>4, ReportsStayTyped DEF RecordTyped
<1>3. ASSUME NEW u \in Users, Leave(u) PROVE RecordTyped'
  <2> DEFINE h == [todo |-> <<"owned", "srem", "hdel", "clear", "fields", "clear">>, sids |-> {}, user |-> u]
  <2>1. h \in Hooks /\ Waiting(h)
    BY FirstTodos DEF Hooks, Waiting
  <2>2. queue' = Append(queue, h)
    BY <1>3 DEF Leave, Webhook
  <2> HIDE DEF h
  <2>3. Queued'
    BY <1>1, <2>1, <2>2
  <2>4. UNCHANGED <<hook, published, owner, spoiled, fresh>> /\ live' \subseteq live
    BY <1>3 DEF Leave, redis
  <2> QED
    BY <1>0, <2>3, <2>4, ReportsStayTyped DEF RecordTyped
<1>4. CASE HookStarts
  <2>1. queue # <<>> /\ hook' = Head(queue) /\ queue' = Tail(queue)
        /\ UNCHANGED <<live, fresh, published, owner, spoiled>>
    BY <1>4 DEF HookStarts, sfu, redis
  <2>2. hook' \in Hooks /\ queue' \in Seq(Hooks) /\ Len(queue') = Len(queue) - 1
        /\ \A i \in 1 .. Len(queue) - 1 : queue'[i] = queue[i + 1] /\ i + 1 \in 1 .. Len(queue)
    BY <1>0, <2>1
  <2>3. \A i \in 1 .. Len(queue') : Waiting(queue'[i])
    BY <1>0, <2>2
  <2> QED
    BY <1>0, <2>1, <2>2, <2>3, ReportsStayTyped DEF RecordTyped, Waiting
<1>5. CASE HookStep
  <2>1. UNCHANGED <<queue, live, fresh, spoiled>> /\ hook.todo # <<>>
    BY <1>5 DEF HookStep, sfu, StepIs
  <2>2. ASSUME NEW sids \in SUBSET Tracks, NextStep(sids) PROVE hook' \in Hooks
    <3>1. hook.todo \in Todos /\ Tail(hook.todo) \in Todos
      <4>1. hook.todo \in Todos
        BY <1>0 DEF Hooks, Todos
      <4>2. CASE hook.todo \in AddTodo
        <5>1. Tail(hook.todo) \in {<<"hset">>, <<>>}
          BY <4>2, TodoTails, TodoHeads
        <5> QED
          BY <4>1, <5>1, FirstTodos DEF Todos
      <4>3. CASE hook.todo \in RemoveTodo
        BY <4>1, <4>3, TodoTails, TodoHeads DEF Todos
      <4>4. CASE hook.todo \in OwnedTodo \cup OtherTodo
        BY <2>1, <4>1, <4>4, TodoTails DEF Todos
      <4> QED
        BY <4>1, <4>2, <4>3, <4>4 DEF Todos
    <3>2. hook' = [hook EXCEPT !.todo = Tail(hook.todo), !.sids = sids]
      BY <2>2 DEF NextStep
    <3> QED
      BY <1>0, <3>1, <3>2 DEF Hooks, Todos
  <2>3. \E sids \in SUBSET Tracks : NextStep(sids)
    <3>1. /\ hook.sids \in SUBSET Tracks /\ {} \in SUBSET Tracks
          /\ Owned(hook.user) \in SUBSET Tracks /\ Fields(hook.user) \in SUBSET Tracks
      BY <1>0 DEF Hooks, Owned, Fields, RecordTyped
    <3>2. \E sids \in {hook.sids, {}, Owned(hook.user), Fields(hook.user)} : NextStep(sids)
      BY <1>5 DEF HookStep
    <3> QED
      BY <3>1, <3>2
  <2>4. published' \subseteq Tracks /\ owner' \in [Tracks -> Users \cup {Nobody}]
    <3>1. hook.sids \subseteq Tracks /\ hook.user \in Users
      BY <1>0 DEF Hooks
    <3> QED
      BY <1>0, <1>5, <3>1 DEF HookStep, redis
  <2> QED
    BY <1>0, <2>1, <2>2, <2>3, <2>4, ReportsStayTyped DEF RecordTyped, Waiting
<1>6. CASE HookFails
  <2>1. NoHook \in Hooks
    BY <1>0, FirstTodos DEF NoHook, Hooks
  <2>2. hook' = NoHook /\ spoiled' = TRUE /\ UNCHANGED <<queue, live, fresh, published, owner>>
    BY <1>6 DEF HookFails, sfu, redis
  <2> QED
    BY <1>0, <2>1, <2>2, ReportsStayTyped DEF RecordTyped, Waiting
<1>7. CASE \/ \E t \in Tracks : Granted(t) \/ Drop(t)
           \/ \E u \in Users : Join(u)
           \/ \E p \in Reports : Reporting(p) \/ ReportFails(p)
           \/ UNCHANGED vars
  <2>1. UNCHANGED <<queue, hook, live, fresh, published, owner, spoiled>>
    BY <1>7 DEF Granted, Drop, Join, Reporting, Send, Read, Judge, Signal, ReportFails, vars, sfu, redis
  <2> QED
    BY <1>0, <2>1, ReportsStayTyped DEF RecordTyped, Waiting
<1> QED
  BY <1>2, <1>3, <1>4, <1>5, <1>6, <1>7 DEF Next

LEMMA RecordInductive == Spec => []RecordInv
<1>1. Init => RecordInv
  <2> SUFFICES ASSUME Init PROVE RecordInv
    OBVIOUS
  <2>1. hook = NoHook /\ queue = <<>> /\ NoHook \in Hooks /\ NoHook.todo = <<>>
    BY AudioReachAssumption, FirstTodos DEF Init, NoHook, Hooks, AudioReachAssumption
  <2>2. RecordTyped
    <3>1. NoReport \in ReportsOf
      BY DEF NoReport, ReportsOf
    <3>2. /\ live = {} /\ fresh = Tracks /\ published = {} /\ alerts = {} /\ subscribed = {}
          /\ spoiled = FALSE /\ owner \in [Tracks -> Users \cup {Nobody}]
          /\ report = [p \in Reports |-> NoReport]
      BY DEF Init
    <3>3. queue \in Seq(Hooks) /\ hook \in Hooks /\ \A i \in 1 .. Len(queue) : Waiting(queue[i])
      BY <2>1
    <3>4. report \in [Reports -> ReportsOf]
      BY <3>1, <3>2
    <3> QED
      BY <3>2, <3>3, <3>4 DEF RecordTyped
  <2>3. ASSUME NEW t \in Tracks PROVE NotYet(t)
    <3>1. ~Adds(hook, t)
      BY <2>1, TodoHeads DEF Adds
    <3> QED
      BY <3>1 DEF Init, NotYet, Coming, Clean
  <2> QED
    BY <2>2, <2>3 DEF RecordInv, Stage
<1>2. RecordInv /\ [Next]_vars => RecordInv'
  <2> SUFFICES ASSUME RecordInv, [Next]_vars PROVE RecordInv'
    OBVIOUS
  <2>1. RecordTyped /\ RecordTyped'
    BY RecordStaysTyped DEF RecordInv
  <2>2. spoiled => spoiled'
    BY DEF Next, Publish, Unpublish, Granted, Drop, Leave, Join, HookStarts, HookStep, HookFails,
       Reporting, Send, Read, Judge, Signal, ReportFails, vars
  <2> SUFFICES ASSUME ~spoiled', NEW t \in Tracks PROVE Stage(t)'
    BY <2>1 DEF RecordInv
  <2>3. Stage(t) /\ Owner[t] \in Users
    BY <2>2, AudioReachAssumption DEF RecordInv, AudioReachAssumption
  <2>4. ASSUME NEW o \in Tracks, Publish(o) PROVE Stage(t)'
    <3> DEFINE h == [todo |-> <<"sadd", "hset">>, sids |-> {o}, user |-> Owner[o]]
    <3>1. /\ queue' = Append(queue, h) /\ UNCHANGED <<hook, published, owner>>
          /\ o \in fresh /\ fresh' = fresh \ {o} /\ live' = live \cup {o}
      BY <2>4 DEF Publish, Webhook, redis
    <3>2. h \in Hooks /\ (Adds(h, t) <=> t = o) /\ ~Removes(h, t)
      BY AudioReachAssumption, FirstTodos, TodoKinds
      DEF Hooks, Adds, Removes, Takes, Departs, AudioReachAssumption
    <3> HIDE DEF h
    <3>3. CASE t = o
      BY <2>1, <2>3, <3>1, <3>2, <3>3, TrackBegins
    <3>4. CASE t # o
      <4>1. SameTrack(t)
        BY <3>1, <3>4 DEF SameTrack
      <4> QED
        BY <2>1, <2>3, <3>1, <3>2, <3>4, <4>1, OthersHook
    <3> QED
      BY <3>3, <3>4
  <2>5. ASSUME NEW o \in Tracks, Unpublish(o) PROVE Stage(t)'
    <3> DEFINE h == [todo |-> <<"srem", "hdel", "clear">>, sids |-> {o}, user |-> Owner[o]]
    <3>1. /\ queue' = Append(queue, h) /\ UNCHANGED <<hook, published, owner, fresh>>
          /\ live' = live \ {o}
      BY <2>5 DEF Unpublish, Webhook, redis
    <3>2. h \in Hooks /\ (Removes(h, t) <=> t = o) /\ ~Adds(h, t)
      BY AudioReachAssumption, FirstTodos, TodoKinds
      DEF Hooks, Adds, Removes, Takes, Departs, AudioReachAssumption
    <3> HIDE DEF h
    <3>3. CASE t = o
      BY <2>1, <2>3, <3>1, <3>2, <3>3, TrackEnds
    <3>4. CASE t # o
      <4>1. SameTrack(t)
        BY <3>1, <3>4 DEF SameTrack
      <4> QED
        BY <2>1, <2>3, <3>1, <3>2, <3>4, <4>1, OthersHook
    <3> QED
      BY <3>3, <3>4
  <2>6. ASSUME NEW u \in Users, Leave(u) PROVE Stage(t)'
    <3> DEFINE h == [todo |-> <<"owned", "srem", "hdel", "clear", "fields", "clear">>, sids |-> {}, user |-> u]
    <3>1. /\ queue' = Append(queue, h) /\ UNCHANGED <<hook, published, owner, fresh>>
          /\ t \in live' <=> t \in live /\ Owner[t] # u
      BY <2>6 DEF Leave, Webhook, redis
    <3>2. h \in Hooks /\ (Removes(h, t) <=> Owner[t] = u) /\ ~Adds(h, t)
      BY FirstTodos, TodoKinds DEF Hooks, Adds, Removes, Takes, Departs
    <3> HIDE DEF h
    <3>3. CASE Owner[t] = u
      BY <2>1, <2>3, <3>1, <3>2, <3>3, TrackEnds
    <3>4. CASE Owner[t] # u
      <4>1. SameTrack(t)
        BY <3>1, <3>4 DEF SameTrack
      <4> QED
        BY <2>1, <2>3, <3>1, <3>2, <3>4, <4>1, OthersHook
    <3> QED
      BY <3>3, <3>4
  <2>7. CASE \/ \E o \in Tracks : Granted(o) \/ Drop(o)
             \/ \E u \in Users : Join(u)
             \/ \E p \in Reports : Reporting(p) \/ ReportFails(p)
             \/ UNCHANGED vars
    <3>1. UNCHANGED <<queue, hook, live, fresh, published, owner>>
      BY <2>7 DEF Granted, Drop, Join, Reporting, Send, Read, Judge, Signal, ReportFails, vars, sfu, redis
    <3> QED
      BY <2>3, <3>1, StageStays DEF SameTrack, SameRecord
  <2>8. ~HookFails
    BY DEF HookFails
  <2> QED
    BY <2>1, <2>3, <2>4, <2>5, <2>6, <2>7, <2>8, HookTaken, HookMoves DEF Next
<1> QED
  BY <1>1, <1>2, PTL DEF Spec

\* For any number of users and tracks, and whatever departures, publications and the
\* handlers of earlier webhooks interleave: once every webhook is handled, and none was
\* cut short, the record of tracks and owners is the room.
THEOREM BaselineIsTheRoom == Spec => []BaselineTrue
<1>1. RecordInv => BaselineTrue
  <2> SUFFICES ASSUME RecordInv, queue = <<>>, hook.todo = <<>>, ~spoiled
               PROVE  /\ published = live
                      /\ \A t \in Tracks : owner[t] = IF t \in live THEN Owner[t] ELSE Nobody
    BY DEF BaselineTrue
  <2>1. ASSUME NEW t \in Tracks
        PROVE  (t \in published <=> t \in live) /\ owner[t] = IF t \in live THEN Owner[t] ELSE Nobody
    <3>1. Coming(t) = {} /\ ~GoesAfter(t, 0)
      BY DEF Coming, GoesAfter
    <3>2. ~Adds(hook, t) /\ ~Removes(hook, t)
      BY TodoHeads DEF Adds, Removes, Takes, Departs
    <3>3. NotYet(t) \/ InRecord(t) \/ Forgotten(t)
      BY <3>1, <3>2 DEF RecordInv, Stage, Announced, Recording, Removing
    <3> QED
      BY <3>1, <3>3 DEF NotYet, InRecord, Forgotten, Clean, Recorded
  <2>2. published \subseteq Tracks /\ live \subseteq Tracks
    BY DEF RecordInv, RecordTyped
  <2> QED
    BY <2>1, <2>2
<1> QED
  BY <1>1, RecordInductive, PTL
=============================================================================

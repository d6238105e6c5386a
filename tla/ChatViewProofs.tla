--------------------------- MODULE ChatViewProofs ---------------------------
(***************************************************************************)
(* What the chat promises its user holds for any number of texts, of       *)
(* messages of others, and of POSTs that fail or whose answers are lost.   *)
(***************************************************************************)
EXTENDS MCChat, TLAPS

ViewTyped ==
    /\ copies \in [Drafts -> Nat] /\ late \in Nat /\ viewFaults \in Nat
    /\ text \in Drafts \cup {None} /\ failed \in Drafts \cup {None}
    /\ call \in [pc : {"idle", "check", "store", "stored", "limited", "barred", "error"},
                 draft : Drafts \cup {None}]
    /\ call.pc # "idle" => call.draft \in Drafts

\* What a click or the POST under way can store once more.  After an answer "stored" it is
\* nothing, even before the page has it: the answer clears both the input and the retry.
Sendable(d) == call.pc # "stored" /\ d \in {text, failed, call.draft}

\* Whatever can be sent again was stored at most as often as answers were lost.
SendsAreCounted ==
    \A d \in Drafts :
        /\ copies[d] <= 1 + viewFaults
        /\ Sendable(d) => copies[d] <= viewFaults

\* Past the check and barred, the POST is the one that slips through.
OneSlipsThrough == late <= 1 /\ (barred /\ call.pc = "store" => late = 0)

ViewInv == ViewTyped /\ SendsAreCounted /\ OneSlipsThrough /\ V!NewIsAnnounced

LEMMA ViewInvInit == V!Init => ViewInv
  <1> SUFFICES ASSUME V!Init PROVE ViewInv
    OBVIOUS
  <1> USE ViewAssumption DEF V!ChatViewAssumption
  <1>1. call.pc = "idle" /\ call.draft = None
    BY DEF V!Init, V!Idle, V!Call
  <1>2. ViewTyped
    BY <1>1 DEF V!Init, V!Idle, V!Call, ViewTyped
  <1>3. SendsAreCounted
    BY <1>1 DEF V!Init, SendsAreCounted
  <1> QED
    BY <1>1, <1>2, <1>3 DEF V!Init, ViewInv, OneSlipsThrough, V!NewIsAnnounced

\* Steps that leave the composer and the stored texts alone.
LEMMA ElsewhereKeeps ==
    ASSUME ViewInv, UNCHANGED <<copies, text, failed, call, viewFaults>>
    PROVE  SendsAreCounted' /\ (late' \in Nat => ViewTyped')
  BY DEF ViewInv, ViewTyped, SendsAreCounted, Sendable

-----------------------------------------------------------------------------
LEMMA ScrollingKeeps ==
    ASSUME ViewInv, V!Refresh \/ V!ScrollsUp \/ V!ScrollsDown
    PROVE  ViewInv'
  <1> USE DEF V!Refresh, V!ScrollsUp, V!ScrollsDown, V!server, V!composer
  <1>1. UNCHANGED <<copies, late, barred, text, failed, call, viewFaults>>
    OBVIOUS
  <1>2. SendsAreCounted' /\ ViewTyped'
    BY <1>1, ElsewhereKeeps DEF ViewInv, ViewTyped
  <1>3. OneSlipsThrough'
    BY <1>1 DEF ViewInv, OneSlipsThrough
  <1>4. V!NewIsAnnounced'
    BY DEF ViewInv, V!NewIsAnnounced, V!Grew, V!Rerendered, V!ToBottom
  <1> QED
    BY <1>2, <1>3, <1>4 DEF ViewInv

LEMMA OthersKeep ==
    ASSUME ViewInv, V!OtherPosts \/ V!HostHides \/ V!HostBans \/ V!HostUnbans
    PROVE  ViewInv'
  <1> USE DEF V!OtherPosts, V!HostHides, V!HostBans, V!HostUnbans, V!composer, V!scroll
  <1>1. UNCHANGED <<copies, text, failed, call, viewFaults, bottom, jump, unseen>>
    OBVIOUS
  <1>2. late' = late \/ late' = 0
    OBVIOUS
  <1>3. SendsAreCounted' /\ ViewTyped'
    BY <1>1, <1>2, ElsewhereKeeps DEF ViewInv, ViewTyped
  <1>4. OneSlipsThrough'
    BY <1>1 DEF ViewInv, OneSlipsThrough
  <1>5. V!NewIsAnnounced'
    BY <1>1 DEF ViewInv, V!NewIsAnnounced
  <1> QED
    BY <1>3, <1>4, <1>5 DEF ViewInv

-----------------------------------------------------------------------------
LEMMA TypingKeeps ==
    ASSUME ViewInv, NEW d \in Drafts, V!Types(d)
    PROVE  ViewInv'
  <1> USE DEF V!Types, V!server, V!scroll
  <1>1. ViewTyped'
    BY DEF ViewInv, ViewTyped
  <1>2. copies[d] = 0
    BY DEF ViewInv, ViewTyped, V!Written
  <1>3. SendsAreCounted'
    BY <1>2 DEF ViewInv, ViewTyped, SendsAreCounted, Sendable
  <1> QED
    BY <1>1, <1>3 DEF ViewInv, OneSlipsThrough, V!NewIsAnnounced

LEMMA SendingKeeps ==
    ASSUME ViewInv, NEW d \in {text, failed}, V!Sends(d)
    PROVE  ViewInv'
  <1> USE DEF V!Sends, V!server, V!scroll, V!Call, V!Idle
  <1>1. call.pc = "idle" /\ call'.pc = "check" /\ call'.draft = d /\ d \in Drafts
    BY DEF ViewInv, ViewTyped
  <1>2. ViewTyped'
    BY <1>1 DEF ViewInv, ViewTyped
  <1>3. SendsAreCounted'
    BY <1>1 DEF ViewInv, SendsAreCounted, Sendable
  <1> QED
    BY <1>1, <1>2, <1>3 DEF ViewInv, OneSlipsThrough, V!NewIsAnnounced

LEMMA CheckingKeeps ==
    ASSUME ViewInv, V!Checks
    PROVE  ViewInv'
  <1> USE DEF V!Checks, V!server, V!scroll, V!Call, V!Judged
  <1>1. /\ call.pc = "check" /\ call'.draft = call.draft /\ call.draft \in Drafts
        /\ call'.pc = IF barred THEN "barred" ELSE "store"
    BY DEF ViewInv, ViewTyped
  <1>2. ViewTyped'
    BY <1>1 DEF ViewInv, ViewTyped
  <1>3. SendsAreCounted'
    BY <1>1 DEF ViewInv, SendsAreCounted, Sendable
  <1> QED
    BY <1>1, <1>2, <1>3 DEF ViewInv, OneSlipsThrough, V!NewIsAnnounced

LEMMA StoringKeeps ==
    ASSUME ViewInv, V!Stores
    PROVE  ViewInv'
  <1> USE DEF V!Stores, V!Fault, V!scroll, V!Call
  <1> DEFINE d == call.draft
  <1>1. /\ call.pc = "store" /\ call'.draft = d /\ d \in Drafts
        /\ call'.pc \in {"limited", "stored", "error"}
    BY DEF ViewInv, ViewTyped
  <1>2. viewFaults' \in {viewFaults, viewFaults + 1} /\ viewFaults \in Nat
    BY DEF ViewInv, ViewTyped
  <1>3. \/ copies' = copies
        \/ /\ copies' = [copies EXCEPT ![d] = @ + 1]
           /\ call'.pc = "stored" \/ viewFaults' = viewFaults + 1
    OBVIOUS
  <1>4. ViewTyped'
    <2>1. copies' \in [Drafts -> Nat]
      BY <1>1, <1>3 DEF ViewInv, ViewTyped
    <2>2. call' \in [pc : {"idle", "check", "store", "stored", "limited", "barred", "error"},
                     draft : Drafts \cup {None}]
      BY <1>1
    <2>3. late' \in Nat
      BY DEF ViewInv, ViewTyped
    <2> QED
      BY <1>1, <1>2, <2>1, <2>2, <2>3 DEF ViewInv, ViewTyped
  <1>5. SendsAreCounted'
    <2>1. copies[d] <= viewFaults
      BY <1>1 DEF ViewInv, SendsAreCounted, Sendable
    <2>2. ASSUME NEW x \in Drafts
          PROVE  /\ copies'[x] <= 1 + viewFaults'
                 /\ Sendable(x)' => copies'[x] <= viewFaults'
      <3>1. copies[x] \in Nat /\ copies[x] <= 1 + viewFaults
        BY DEF ViewInv, ViewTyped, SendsAreCounted
      <3>2. Sendable(x)' => call'.pc # "stored" /\ copies[x] <= viewFaults
        BY <1>1 DEF ViewInv, SendsAreCounted, Sendable
      <3>3. CASE x # d
        <4>1. copies'[x] = copies[x]
          BY <1>3, <3>3 DEF ViewInv, ViewTyped
        <4> QED
          BY <1>2, <3>1, <3>2, <4>1
      <3>4. CASE x = d
        <4>1. \/ copies'[x] = copies[x]
              \/ /\ copies'[x] = copies[x] + 1
                 /\ call'.pc = "stored" \/ viewFaults' = viewFaults + 1
          BY <1>1, <1>3, <3>4 DEF ViewInv, ViewTyped
        <4> QED
          BY <1>2, <2>1, <3>1, <3>2, <3>4, <4>1
      <3> QED
        BY <3>3, <3>4
    <2> QED
      BY <2>2 DEF SendsAreCounted
  <1>6. OneSlipsThrough'
    BY <1>1 DEF ViewInv, ViewTyped, OneSlipsThrough
  <1>7. V!NewIsAnnounced'
    BY DEF ViewInv, V!NewIsAnnounced
  <1> QED
    BY <1>4, <1>5, <1>6, <1>7 DEF ViewInv

LEMMA AnswersKeep ==
    ASSUME ViewInv, V!Answered \/ V!Reloads
    PROVE  ViewInv'
  <1> USE ViewAssumption
      DEF V!ChatViewAssumption, V!Answered, V!Reloads, V!server, V!Call, V!Idle
  <1>1. /\ call'.pc = "idle" /\ call'.draft = None
        /\ UNCHANGED <<copies, late, barred, viewFaults>>
    <2>1. UNCHANGED <<copies, late, barred, viewFaults>>
      OBVIOUS
    <2>2. call' = [pc |-> "idle", draft |-> None]
      OBVIOUS
    <2> QED
      BY <2>1, <2>2
  <1>2. \/ text' = None /\ failed' = None
        \/ text' = text /\ failed' = failed /\ call.pc # "stored"
        \/ text' = text /\ failed' = call.draft /\ call.pc \in {"limited", "error"}
    BY DEF V!Succeeded
  <1>3. ViewTyped'
    BY <1>1, <1>2 DEF ViewInv, ViewTyped
  <1>4. SendsAreCounted'
    <2>1. \A d \in Drafts : Sendable(d)' => Sendable(d)
      BY <1>1, <1>2 DEF Sendable
    <2> QED
      BY <1>1, <2>1 DEF ViewInv, SendsAreCounted
  <1>5. V!NewIsAnnounced'
    BY DEF ViewInv, V!NewIsAnnounced, V!ToBottom, V!scroll
  <1> QED
    BY <1>1, <1>3, <1>4, <1>5 DEF ViewInv, OneSlipsThrough

-----------------------------------------------------------------------------
LEMMA ViewInvNext == ViewInv /\ [V!Next]_(V!vars) => ViewInv'
  <1> SUFFICES ASSUME ViewInv, [V!Next]_(V!vars) PROVE ViewInv'
    OBVIOUS
  <1>1. CASE V!Refresh \/ V!ScrollsUp \/ V!ScrollsDown
    BY <1>1, ScrollingKeeps
  <1>2. CASE \E d \in Drafts : V!Types(d)
    BY <1>2, TypingKeeps
  <1>3. CASE V!Submit \/ V!Retry
    BY <1>3, SendingKeeps DEF V!Submit, V!Retry
  <1>4. CASE V!Checks
    BY <1>4, CheckingKeeps
  <1>5. CASE V!Stores
    BY <1>5, StoringKeeps
  <1>6. CASE V!Answered \/ V!Reloads
    BY <1>6, AnswersKeep
  <1>7. CASE V!OtherPosts \/ V!HostHides \/ V!HostBans \/ V!HostUnbans
    BY <1>7, OthersKeep
  <1>8. CASE UNCHANGED V!vars
    <2>1. UNCHANGED <<copies, late, barred, text, failed, call, viewFaults, bottom, jump, unseen>>
      BY <1>8 DEF V!vars, V!server, V!composer, V!scroll
    <2>2. SendsAreCounted' /\ ViewTyped'
      BY <2>1, ElsewhereKeeps DEF ViewInv, ViewTyped
    <2> QED
      BY <2>1, <2>2 DEF ViewInv, OneSlipsThrough, V!NewIsAnnounced
  <1> QED
    BY <1>1, <1>2, <1>3, <1>4, <1>5, <1>6, <1>7, <1>8 DEF V!Next

(***************************************************************************)
(* A text is stored once more than answers were lost at most, a ban lets   *)
(* one message through at most, and whoever reads further up is told of    *)
(* what is new.                                                            *)
(***************************************************************************)
THEOREM ChatIsKept == ChatSpec => []ChatKept
  <1>1. ChatInit => ViewInv
    BY ViewInvInit DEF ChatInit
  <1>2. ViewInv /\ [ChatNext]_<<part, vars, client, view>> => ViewInv'
    <2>1. [ChatNext]_<<part, vars, client, view>> => [V!Next]_(V!vars)
      BY DEF ChatNext, view, V!vars, V!server, V!composer, V!scroll
    <2> QED
      BY <2>1, ViewInvNext
  <1>3. ViewInv => ChatKept
    BY DEF ViewInv, SendsAreCounted, OneSlipsThrough, ChatKept, V!ChatKept, V!CopiesBound,
           V!BanBound
  <1> QED
    BY <1>1, <1>2, <1>3, PTL DEF ChatSpec
=============================================================================

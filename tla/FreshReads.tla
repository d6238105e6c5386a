----------------------------- MODULE FreshReads -----------------------------
(***************************************************************************)
(* What GET /rooms/:id/chat promises to those who poll it, caches aside.   *)
(* The chat table is a history of changes (a message stored, hidden, shown *)
(* again).  An answer has three parts (messages, ids of hidden messages,   *)
(* cursor); each part shows the table as it was after some number of       *)
(* changes, not before those that were settled when the request arrived.   *)
(* The parts of one answer may be of different moments.                    *)
(***************************************************************************)
EXTENDS Naturals

CONSTANTS
    Readers, \* requests that can be under way together
    Parts,   \* what an answer consists of
    None     \* no request, no answer

VARIABLES
    now,     \* changes in the table
    settled, \* changes that every request from now on sees
    floor,   \* by request, the changes settled when it arrived
    answer   \* what the last step answered: by part, the changes it shows

vars == <<now, settled, floor, answer>>

Init ==
    /\ now = 0 /\ settled = 0
    /\ floor = [r \in Readers |-> None]
    /\ answer = None

Change ==
    /\ now' = now + 1
    /\ floor' = floor /\ answer' = None

Ask(r) ==
    /\ floor[r] = None
    /\ floor' = [floor EXCEPT ![r] = settled]
    /\ now' = now /\ answer' = None

Answer(r) ==
    /\ floor[r] # None
    /\ floor' = [floor EXCEPT ![r] = None]
    /\ answer' \in [Parts -> floor[r] .. now]
    /\ now' = now

\* Requests fail, several together when the API restarts; with none of them it
\* is a step in which changes only settle.
Refuse ==
    \E R \in SUBSET Readers :
        /\ floor' = [r \in Readers |-> IF r \in R THEN None ELSE floor[r]]
        /\ now' = now /\ answer' = None

\* A writer has its answer, or a cached page that misses a change is replaced or
\* expires: changes settle, and never come undone.
Settle == settled' \in settled .. now'

Next ==
    /\ Change \/ Refuse \/ \E r \in Readers : Ask(r) \/ Answer(r)
    /\ Settle

Spec == Init /\ [][Next]_vars
=============================================================================

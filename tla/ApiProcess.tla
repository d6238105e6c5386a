------------------------------ MODULE ApiProcess ------------------------------
(***************************************************************************)
(* One life of the API's process: it starts to listen, serves requests,    *)
(* sweeps by timers, and shuts down on a signal.  What requests and sweeps *)
(* do is the other modules' subject; here a request works with Redis and   *)
(* Postgres until it is answered, and a sweep looks into Redis and ends a  *)
(* room after 2.5 s of grace.                                              *)
(***************************************************************************)

CONSTANTS
    Requests, \* HTTP requests, each made at most once
    Sweeps    \* sweeps that can overlap

VARIABLES
    listening, \* app.listen: "pending", "up"
    phase,     \* of shutdown: "none", "closing", "quitting"
    exit,      \* process.exit: "none", "0", "1"
    timers,    \* do the sweepers' intervals run
    open,      \* the connections to Redis and Postgres
    request, sweep

vars == <<listening, phase, exit, timers, open, request, sweep>>

Running == exit = "none"

TypeOK ==
    /\ listening \in {"pending", "up"} /\ phase \in {"none", "closing", "quitting"}
    /\ exit \in {"none", "0", "1"} /\ timers \in BOOLEAN /\ open \in BOOLEAN
    /\ request \in [Requests -> {"new", "working", "answered", "failed", "refused", "cut"}]
    /\ sweep \in [Sweeps -> {"idle", "reading", "grace"}]

Init ==
    /\ listening = "pending" /\ phase = "none" /\ exit = "none"
    /\ timers = FALSE /\ open = TRUE
    /\ request = [r \in Requests |-> "new"]
    /\ sweep = [s \in Sweeps |-> "idle"]

\* The end of the process ends whatever it was doing.
Exit(code) ==
    /\ exit' = code
    /\ request' = [r \in Requests |-> IF request[r] = "working" THEN "cut" ELSE request[r]]
    /\ sweep' = [s \in Sweeps |-> "idle"]
    /\ timers' = FALSE /\ open' = FALSE
    /\ UNCHANGED <<listening, phase>>

\* main: the sweepers start when listen is done, also if a signal came before.
Listens ==
    /\ Running /\ listening = "pending"
    /\ \/ /\ listening' = "up" /\ timers' = TRUE
          /\ UNCHANGED <<phase, exit, open, request, sweep>>
       \/ Exit("1")

-----------------------------------------------------------------------------
(* Requests and sweeps.                                                    *)

Arrives(r) ==
    /\ Running /\ listening = "up" /\ request[r] = "new"
    /\ request' = [request EXCEPT ![r] = IF phase = "none" THEN "working" ELSE "refused"]
    /\ UNCHANGED <<listening, phase, exit, timers, open, sweep>>

\* A call to a closed connection fails, and the request with it.
Works(r) ==
    /\ Running /\ request[r] = "working"
    /\ request' = [request EXCEPT ![r] = IF open THEN "answered" ELSE "failed"]
    /\ UNCHANGED <<listening, phase, exit, timers, open, sweep>>

SweepStarts(s) ==
    /\ Running /\ timers /\ sweep[s] = "idle"
    /\ sweep' = [sweep EXCEPT ![s] = "reading"]
    /\ UNCHANGED <<listening, phase, exit, timers, open, request>>

\* A room is due or none is; an error ends the sweep.
SweepReads(s) ==
    /\ Running /\ sweep[s] = "reading"
    /\ \/ open /\ sweep' = [sweep EXCEPT ![s] = "grace"]
       \/ sweep' = [sweep EXCEPT ![s] = "idle"]
    /\ UNCHANGED <<listening, phase, exit, timers, open, request>>

\* endRoomGracefully, after its sleep; the next room's turn comes after it.
SweepDeletes(s) ==
    /\ Running /\ sweep[s] = "grace"
    /\ sweep' = [sweep EXCEPT ![s] = "reading"]
    /\ UNCHANGED <<listening, phase, exit, timers, open, request>>

-----------------------------------------------------------------------------
(* shutdown.                                                               *)

\* stopHostGraceSweeper and stopDemoSweeper clear the intervals; app.close() refuses
\* requests from now on.  Later signals change nothing.
Signal ==
    /\ Running /\ phase = "none"
    /\ phase' = "closing" /\ timers' = FALSE
    /\ UNCHANGED <<listening, exit, open, request, sweep>>

\* app.close() is done when no request is being worked on.
AtOnce  == TRUE
Drained == \A r \in Requests : request[r] # "working"

Closed ==
    /\ Running /\ phase = "closing" /\ Drained
    /\ phase' = "quitting"
    /\ UNCHANGED <<listening, exit, timers, open, request, sweep>>

\* redis.quit() and closeDb(), whatever comes of them, then exit 0.
Quits ==
    /\ Running /\ phase = "quitting" /\ open
    /\ open' = FALSE
    /\ UNCHANGED <<listening, phase, exit, timers, request, sweep>>

Done == Running /\ phase = "quitting" /\ ~open /\ Exit("0")

\* An error of app.close(), and the timer of 10 s.
CloseFails == Running /\ phase = "closing" /\ Exit("1")
TimeIsUp == phase # "none"
HardExit == Running /\ TimeIsUp /\ Exit("1")

Next ==
    \/ Listens \/ Signal \/ Closed \/ Quits \/ Done \/ CloseFails \/ HardExit
    \/ \E r \in Requests : Arrives(r) \/ Works(r)
    \/ \E s \in Sweeps : SweepStarts(s) \/ SweepReads(s) \/ SweepDeletes(s)

Spec == Init /\ [][Next]_vars

-----------------------------------------------------------------------------

\* No request that was taken up loses its connections under way, and an exit of 0
\* means that each of them was answered; only the hard exit cuts them off.
CleanExit ==
    /\ Running /\ ~open => \A r \in Requests : request[r] # "working"
    /\ exit = "0" => \A r \in Requests : request[r] \notin {"failed", "cut"}
=============================================================================

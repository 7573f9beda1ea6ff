---------------------------- MODULE ClickTracker ----------------------------
(***************************************************************************)
(* The life of one url-shortner process with ENV=PROD: main from the       *)
(* connection to Postgres to its exit, the redirects it serves meanwhile,  *)
(* the analytics.Tracker they hand their clicks to, and the Redis SETs     *)
(* their lookups leave behind as goroutines.                               *)
(*                                                                         *)
(* The concern is the shutdown: main stops the server, then the tracker,   *)
(* then closes Postgres, then Redis, while the others go on at their pace. *)
(***************************************************************************)
EXTENDS Naturals, Sequences

CONSTANTS Clicks,     \* the redirects that find their link
          BufferSize  \* capacity of analyticsChan

ASSUME BufferAssumption == BufferSize \in Nat \ {0}

VARIABLES main,       \* where main is
          handler,    \* per click, where its RedirectHandler is
          fills,      \* clicks whose lookup left a redis.Set running
          queue,      \* analyticsChan
          closed,     \* analyticsChan is closed
          cancelled,  \* trackerCtx is cancelled
          worker,     \* where Tracker.Run is
          hand,       \* the event Tracker.Run is saving, if any
          done,       \* Tracker.Done is closed
          db,         \* the Postgres pool is open
          redis,      \* the Redis client is open
          clicked,    \* history: the events Track has queued, in order
          saves,      \* history: the SaveAnalytics calls returned, in order
          table       \* the events in the table link_analytics

tracker == <<queue, closed, worker, hand, done, saves, table>>
others == <<handler, fills, cancelled, db, redis, clicked, tracker>>
outside == <<main, handler, fills, cancelled, db, redis, clicked>>
vars == <<main, others>>

MainPoints == {"connect", "serving", "shutdown", "cancel", "await", "closeDb",
               "closeRedis", "return", "exit0", "exit1"}

TypeOK ==
    /\ main \in MainPoints
    /\ handler \in [Clicks -> {"idle", "lookup", "track", "panicked", "done"}]
    /\ fills \subseteq Clicks
    /\ queue \in Seq(Clicks) /\ Len(queue) <= BufferSize
    /\ closed \in BOOLEAN
    /\ cancelled \in BOOLEAN
    /\ worker \in {"off", "select", "save", "drain", "drainSave", "returned"}
    /\ hand \in Seq(Clicks) /\ Len(hand) <= 1
    /\ done \in BOOLEAN
    /\ db \in BOOLEAN
    /\ redis \in BOOLEAN
    /\ clicked \in Seq(Clicks)
    /\ saves \in Seq(Clicks)
    /\ table \subseteq Clicks

Init ==
    /\ main = "connect"
    /\ handler = [c \in Clicks |-> "idle"]
    /\ fills = {}
    /\ queue = <<>>
    /\ closed = FALSE
    /\ cancelled = FALSE
    /\ worker = "off"
    /\ hand = <<>>
    /\ done = FALSE
    /\ db = FALSE
    /\ redis = FALSE
    /\ clicked = <<>>
    /\ saves = <<>>
    /\ table = {}

Exited == main \in {"exit0", "exit1"}

InFlight(c) == handler[c] \in {"lookup", "track"}

-----------------------------------------------------------------------------
(* main.                                                                    *)

Goes(from, to) == main = from /\ main' = to

\* Postgres answers; Redis only has to be configured, its ping may fail.
Start ==
    /\ Goes("connect", "serving")
    /\ db' = TRUE
    /\ redis' = TRUE
    /\ worker' = "select"
    /\ UNCHANGED <<handler, fills, cancelled, clicked, queue, closed, hand, done, saves, table>>

ConnectFails == Goes("connect", "exit1") /\ UNCHANGED others

ListenAndServeFails == Goes("serving", "exit1") /\ UNCHANGED others

\* SIGINT or SIGTERM: main leaves <-ctx.Done() and calls srv.Shutdown, which
\* closes the listener.
Signal == Goes("serving", "shutdown") /\ UNCHANGED others

\* Faults the runs must catch are named ...Fault; no action uses them.
AbruptShutdownFault == Goes("shutdown", "cancel") /\ UNCHANGED others

\* srv.Shutdown returns once no handler is running, or when 10 seconds are up.
ShutdownReturns ==
    /\ \A c \in Clicks : ~InFlight(c)
    /\ Goes("shutdown", "cancel")
    /\ UNCHANGED others

NoDeadlineFault == ShutdownReturns

ShutdownTimesOut ==
    /\ \E c \in Clicks : InFlight(c)
    /\ Goes("shutdown", "exit1")
    /\ UNCHANGED others

TrackerCancel ==
    /\ Goes("cancel", "await")
    /\ cancelled' = TRUE
    /\ UNCHANGED <<handler, fills, db, redis, clicked, tracker>>

NoWaitFault == Goes("await", "closeDb") /\ UNCHANGED others

AwaitDone == done /\ Goes("await", "closeDb") /\ UNCHANGED others

CloseDb ==
    /\ Goes("closeDb", "closeRedis")
    /\ db' = FALSE
    /\ UNCHANGED <<handler, fills, cancelled, redis, clicked, tracker>>

CloseRedis ==
    /\ Goes("closeRedis", "return")
    /\ redis' = FALSE
    /\ UNCHANGED <<handler, fills, cancelled, db, clicked, tracker>>

Return == Goes("return", "exit0") /\ UNCHANGED others

\* What main does by itself once the signal has come.
Shutdown == \/ ShutdownReturns \/ ShutdownTimesOut \/ TrackerCancel
            \/ AwaitDone \/ CloseDb \/ CloseRedis \/ Return

-----------------------------------------------------------------------------
(* RedirectHandler, for a code that leads to a link.                        *)

HandlerGoes(c, from, to) ==
    /\ handler[c] = from
    /\ handler' = [handler EXCEPT ![c] = to]
    /\ UNCHANGED <<main, cancelled, db, redis>>

\* A request on an open connection; until Shutdown returns, those accepted
\* before the listener was closed may still bring one.
Arrive(c) ==
    /\ main \in {"serving", "shutdown"}
    /\ HandlerGoes(c, "idle", "lookup")
    /\ UNCHANGED <<fills, clicked, tracker>>

LookupHits(c) == HandlerGoes(c, "lookup", "track") /\ UNCHANGED <<fills, clicked, tracker>>

\* A miss that Postgres answers also leaves a SET behind.
LookupFills(c) ==
    /\ HandlerGoes(c, "lookup", "track")
    /\ fills' = fills \cup {c}
    /\ UNCHANGED <<clicked, tracker>>

\* Track puts the event behind those of buffer, the content of the channel.
Enqueue(c, buffer) ==
    /\ HandlerGoes(c, "track", "done")
    /\ queue' = Append(buffer, c)
    /\ clicked' = Append(clicked, c)
    /\ UNCHANGED <<fills, closed, worker, hand, done, saves, table>>

BlockingTrackFault(c) == ~closed /\ Len(queue) < BufferSize /\ Enqueue(c, queue)

UnboundedBufferFault(c) == ~closed /\ Enqueue(c, queue)

EvictOldestFault(c) ==
    ~closed /\ Enqueue(c, IF Len(queue) < BufferSize THEN queue ELSE Tail(queue))

\* Track sends without waiting, and drops the event when the buffer is full.  A
\* send on a closed channel panics, in a select that has a default too.
Track(c) ==
    IF ~closed /\ Len(queue) < BufferSize
    THEN Enqueue(c, queue)
    ELSE /\ HandlerGoes(c, "track", IF closed THEN "panicked" ELSE "done")
         /\ UNCHANGED <<fills, clicked, tracker>>

\* The goroutine of the backfill ends; on a closed client its SET is an error.
FillEnds(c) ==
    /\ c \in fills
    /\ fills' = fills \ {c}
    /\ UNCHANGED <<main, handler, cancelled, db, redis, clicked, tracker>>

Redirect(c) == LookupHits(c) \/ LookupFills(c) \/ Track(c)

-----------------------------------------------------------------------------
(* Tracker.Run.                                                             *)

Take(from, to) ==
    /\ worker = from
    /\ queue # <<>>
    /\ hand' = <<Head(queue)>>
    /\ queue' = Tail(queue)
    /\ worker' = to
    /\ UNCHANGED <<closed, done, saves, table>>

\* Of an event and a cancelled context, select takes either.
Receive == Take("select", "save") /\ UNCHANGED outside

ForgottenDrainFault ==
    /\ worker = "select"
    /\ cancelled
    /\ closed' = TRUE
    /\ done' = TRUE
    /\ worker' = "returned"
    /\ UNCHANGED <<outside, queue, hand, saves, table>>

SeeCancel ==
    /\ worker = "select"
    /\ cancelled
    /\ closed' = TRUE
    /\ worker' = "drain"
    /\ UNCHANGED <<outside, queue, hand, done, saves, table>>

DrainNext == Take("drain", "drainSave") /\ UNCHANGED outside

Drained ==
    /\ worker = "drain"
    /\ queue = <<>>
    /\ done' = TRUE
    /\ worker' = "returned"
    /\ UNCHANGED <<outside, queue, closed, hand, saves, table>>

\* SaveAnalytics returns.  Its error is logged, while draining not even that;
\* on a closed pool it always fails.
SaveReturns ==
    /\ worker \in {"save", "drainSave"}
    /\ saves' = saves \o hand
    /\ hand' = <<>>
    /\ \/ db /\ table' = table \cup {hand[1]}
       \/ UNCHANGED table
    /\ worker' = IF worker = "save" THEN "select" ELSE "drain"
    /\ UNCHANGED <<outside, queue, closed, done>>

Run == Receive \/ SeeCancel \/ DrainNext \/ Drained \/ SaveReturns

-----------------------------------------------------------------------------
\* The exit of the process stops everything in it.
Next ==
    /\ ~Exited
    /\ \/ Start \/ ConnectFails \/ ListenAndServeFails \/ Signal \/ Shutdown
       \/ \E c \in Clicks : Arrive(c) \/ Redirect(c) \/ FillEnds(c)
       \/ Run

Spec == Init /\ [][Next]_vars

\* Postgres may leave the tracker waiting for ever, and the look-up of a redirect
\* too: of a handler only Track is sure to go on, which waits for nobody.
StalledSpec == Spec /\ \A c \in Clicks : WF_vars(~Exited /\ Track(c))

-----------------------------------------------------------------------------
(* Properties.                                                              *)

\* No click that Track queued is lost, saved twice or saved out of order:
\* what was queued is what was given to SaveAnalytics, then the event the
\* worker holds, then what is still in the channel (Track and Run).
ClicksConserved == clicked = saves \o hand \o queue

\* No redirect panics on the closed analyticsChan: when Run closes it, every
\* handler has finished (main cancels trackerCtx after srv.Shutdown returned).
NoSendOnClosed == \A c \in Clicks : closed => ~InFlight(c) /\ handler[c] # "panicked"

\* The pool is closed only when the tracker has nothing left to save (main
\* waits for Tracker.Done before db.Close).
NothingToSaveAfterClose == main \in {"closeRedis", "return", "exit0"} =>
                              hand = <<>> /\ queue = <<>> /\ worker = "returned"

\* A clean exit has given every queued click to Postgres.
CleanExitSavesAll == main = "exit0" => saves = clicked

\* A signal ends the process, however many handlers hang in their look-up for
\* ever: Shutdown is bounded in time, and the drain by the closed channel.  The
\* premise is that main is scheduled and that Postgres answers or fails the
\* tracker's calls.
SignalEnds ==
    WF_vars(~Exited /\ Shutdown) /\ WF_vars(~Exited /\ Run) => (main = "shutdown" ~> Exited)

\* A redirect never waits for the tracker: although no SaveAnalytics ever
\* returns and the buffer is full, the handler comes to its end.
RedirectNotBlocked == \A c \in Clicks : handler[c] = "track" ~> handler[c] = "done" \/ Exited
=============================================================================

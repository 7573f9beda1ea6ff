------------------------ MODULE ClickTracker_proofs ------------------------
(***************************************************************************)
(* The shutdown of the url-shortner loses no click, for any number of      *)
(* redirects and any buffer: the inductive invariant of ClickTracker and   *)
(* the properties that follow from it.                                     *)
(***************************************************************************)
EXTENDS ClickTracker, SequenceTheorems, TLAPS

\* main is past srv.Shutdown: no handler runs any more, and none will.
AfterShutdown == {"cancel", "await", "closeDb", "closeRedis", "return", "exit0"}

\* main, the handlers and the worker agree on how far the shutdown has come.
Phases ==
    /\ cancelled => main \in AfterShutdown \ {"cancel"}
    /\ main \in AfterShutdown => \A c \in Clicks : ~InFlight(c)
    /\ main = "connect" => worker = "off"
    /\ closed <=> worker \in {"drain", "drainSave", "returned"}
    /\ closed => cancelled
    /\ done <=> worker = "returned"
    /\ main \in AfterShutdown \ {"cancel", "await"} => done

\* The worker holds an event exactly while it saves one, and has left none
\* behind when it returned.
Worker ==
    /\ (hand = <<>>) <=> worker \notin {"save", "drainSave"}
    /\ worker = "returned" => queue = <<>>

NoPanic == \A c \in Clicks : handler[c] # "panicked"

Inv == TypeOK /\ Phases /\ Worker /\ NoPanic /\ ClicksConserved

-----------------------------------------------------------------------------
LEMMA TakeHead ==
    ASSUME NEW q \in Seq(Clicks), q # <<>>
    PROVE  <<Head(q)>> \o Tail(q) = q
  OBVIOUS

LEMMA ConcatAppend ==
    ASSUME NEW s \in Seq(Clicks), NEW t \in Seq(Clicks), NEW c \in Clicks
    PROVE  s \o Append(t, c) = Append(s \o t, c)
  OBVIOUS

\* Moving the head of the channel to the empty hand keeps the order of the events.
LEMMA MoveHead ==
    ASSUME NEW s \in Seq(Clicks), NEW q \in Seq(Clicks), q # <<>>
    PROVE  s \o <<>> \o q = s \o <<Head(q)>> \o Tail(q)
<1>1. Head(q) \in Clicks /\ Tail(q) \in Seq(Clicks) /\ <<Head(q)>> \in Seq(Clicks)
  OBVIOUS
<1>2. s \o <<Head(q)>> \o Tail(q) = s \o q
  BY <1>1, TakeHead, ConcatAssociative
<1> QED
  BY <1>2, ConcatEmptySeq

-----------------------------------------------------------------------------
LEMMA InitInv == Init => Inv
<1> SUFFICES ASSUME Init PROVE Inv
  OBVIOUS
<1>1. TypeOK
  <2>1. /\ queue \in Seq(Clicks) /\ Len(queue) <= BufferSize
        /\ hand \in Seq(Clicks) /\ Len(hand) <= 1
        /\ clicked \in Seq(Clicks) /\ saves \in Seq(Clicks)
    BY BufferAssumption, EmptySeq DEF Init
  <2>2. handler \in [Clicks -> {"idle", "lookup", "track", "panicked", "done"}]
    BY DEF Init
  <2> QED
    BY <2>1, <2>2 DEF Init, TypeOK, MainPoints
<1>2. ClicksConserved
  BY DEF Init, ClicksConserved
<1>3. Phases /\ Worker /\ NoPanic
  BY DEF Init, Phases, Worker, NoPanic, AfterShutdown
<1> QED
  BY <1>1, <1>2, <1>3 DEF Inv

\* A step of main leaves the channel and the handlers alone.
LEMMA MainKeepsInv ==
    ASSUME Inv,
           Start \/ ConnectFails \/ ListenAndServeFails \/ Signal \/ Shutdown
    PROVE  Inv'
<1>1. /\ UNCHANGED <<handler, queue, hand, saves, clicked, closed, done>>
      /\ TypeOK'
  BY DEF Inv, TypeOK, MainPoints, Start, ConnectFails, ListenAndServeFails, Signal,
         Shutdown, ShutdownReturns, ShutdownTimesOut, TrackerCancel, AwaitDone, CloseDb,
         CloseRedis, Return, Goes, others, tracker
<1>2. NoPanic' /\ ClicksConserved'
  BY <1>1 DEF Inv, NoPanic, ClicksConserved
<1>3. CASE Start
  BY <1>1, <1>2, <1>3
  DEF Inv, Phases, Worker, AfterShutdown, InFlight, Start, Goes, TypeOK
<1>4. CASE ConnectFails \/ ListenAndServeFails \/ Signal
  BY <1>1, <1>2, <1>4
  DEF Inv, Phases, Worker, AfterShutdown, InFlight, ConnectFails, ListenAndServeFails,
      Signal, Goes, others, tracker
<1>5. CASE ShutdownReturns \/ ShutdownTimesOut \/ TrackerCancel
  BY <1>1, <1>2, <1>5
  DEF Inv, Phases, Worker, AfterShutdown, InFlight, ShutdownReturns, ShutdownTimesOut,
      TrackerCancel, Goes, others, tracker
<1>6. CASE AwaitDone \/ CloseDb \/ CloseRedis \/ Return
  BY <1>1, <1>2, <1>6
  DEF Inv, Phases, Worker, AfterShutdown, InFlight, AwaitDone, CloseDb, CloseRedis,
      Return, Goes, others, tracker
<1> QED
  BY <1>3, <1>4, <1>5, <1>6 DEF Shutdown

\* A handler runs only before srv.Shutdown has returned, when the channel is open.
LEMMA HandlerKeepsInv ==
    ASSUME Inv, NEW c \in Clicks, Arrive(c) \/ Redirect(c)
    PROVE  Inv'
<1>1. /\ main \notin AfterShutdown
      /\ ~closed /\ ~cancelled
  BY DEF Inv, Phases, InFlight, AfterShutdown, Arrive, Redirect, LookupHits, LookupFills,
         Track, Enqueue, HandlerGoes
<1>2. CASE Arrive(c) \/ LookupHits(c) \/ LookupFills(c)
  <2>1. /\ UNCHANGED <<main, cancelled, db, redis, clicked, tracker>>
        /\ fills' \subseteq Clicks
        /\ \E to \in {"lookup", "track"} : handler' = [handler EXCEPT ![c] = to]
    BY <1>2 DEF Inv, TypeOK, Arrive, LookupHits, LookupFills, HandlerGoes
  <2>2. TypeOK' /\ NoPanic'
    BY <2>1 DEF Inv, TypeOK, NoPanic, tracker
  <2>3. Phases' /\ Worker' /\ ClicksConserved'
    BY <1>1, <2>1 DEF Inv, Phases, Worker, ClicksConserved, AfterShutdown, tracker
  <2> QED
    BY <2>2, <2>3 DEF Inv
<1>3. CASE Track(c) /\ UNCHANGED <<clicked, tracker>>
  BY <1>1, <1>3
  DEF Inv, TypeOK, Phases, Worker, NoPanic, ClicksConserved, AfterShutdown, InFlight,
      Track, Enqueue, HandlerGoes, tracker
<1>4. CASE Len(queue) < BufferSize /\ Enqueue(c, queue)
  <2>1. /\ queue' \in Seq(Clicks) /\ Len(queue') <= BufferSize
        /\ clicked' \in Seq(Clicks)
    BY <1>4, BufferAssumption DEF Inv, TypeOK, Enqueue
  <2>2. ClicksConserved'
    <3>1. saves \o hand \in Seq(Clicks)
      BY DEF Inv, TypeOK
    <3> QED
      BY <1>4, <3>1, ConcatAppend DEF Inv, TypeOK, ClicksConserved, Enqueue, HandlerGoes
  <2> QED
    BY <1>1, <1>4, <2>1, <2>2
    DEF Inv, TypeOK, Phases, Worker, NoPanic, AfterShutdown, InFlight, Enqueue, HandlerGoes
<1> QED
  BY <1>1, <1>2, <1>3, <1>4 DEF Redirect, Track

\* The worker moves events from the channel to its hand and on to SaveAnalytics.
LEMMA RunKeepsInv ==
    ASSUME Inv, Run
    PROVE  Inv'
<1> USE DEF Inv, TypeOK, outside
<1>1. CASE Receive \/ DrainNext
  <2>1. /\ hand = <<>> /\ hand' = <<Head(queue)>>
        /\ queue # <<>> /\ queue' = Tail(queue)
    BY <1>1 DEF Receive, DrainNext, Take, Worker
  <2>2. TypeOK'
    <3>1. /\ Head(queue) \in Clicks
          /\ Tail(queue) \in Seq(Clicks) /\ Len(Tail(queue)) <= BufferSize
      BY <2>1, BufferAssumption
    <3>2. hand' \in Seq(Clicks) /\ Len(hand') <= 1
      BY <2>1, <3>1
    <3> QED
      BY <1>1, <2>1, <3>1, <3>2 DEF Receive, DrainNext, Take
  <2>3. ClicksConserved'
    BY <1>1, <2>1, MoveHead DEF ClicksConserved, Receive, DrainNext, Take
  <2> QED
    BY <1>1, <2>1, <2>2, <2>3
    DEF Phases, Worker, NoPanic, InFlight, AfterShutdown, Receive, DrainNext, Take
<1>2. CASE SeeCancel \/ Drained
  <2>1. TypeOK' /\ ClicksConserved' /\ NoPanic'
    BY <1>2 DEF NoPanic, ClicksConserved, SeeCancel, Drained
  <2>2. Phases'
    BY <1>2 DEF Phases, InFlight, AfterShutdown, SeeCancel, Drained
  <2>3. Worker'
    BY <1>2 DEF Worker, SeeCancel, Drained
  <2> QED
    BY <2>1, <2>2, <2>3
<1>3. CASE SaveReturns
  <2>1. hand # <<>> /\ hand' = <<>> /\ saves' = saves \o hand
    BY <1>3 DEF SaveReturns, Worker
  <2>2. hand[1] \in Clicks
    BY <2>1
  <2>3. TypeOK'
    BY <1>3, <2>1, <2>2 DEF SaveReturns
  <2>4. ClicksConserved'
    BY <1>3, <2>1, ConcatEmptySeq DEF ClicksConserved, SaveReturns
  <2> QED
    BY <1>3, <2>1, <2>3, <2>4
    DEF Phases, Worker, NoPanic, InFlight, AfterShutdown, SaveReturns
<1> QED
  BY <1>1, <1>2, <1>3 DEF Run

LEMMA NextKeepsInv == Inv /\ [Next]_vars => Inv'
<1> SUFFICES ASSUME Inv, [Next]_vars PROVE Inv'
  OBVIOUS
<1>1. ASSUME NEW c \in Clicks, FillEnds(c) PROVE Inv'
  BY <1>1
  DEF Inv, TypeOK, Phases, Worker, NoPanic, ClicksConserved, InFlight, AfterShutdown,
      FillEnds, tracker
<1>2. CASE UNCHANGED vars
  BY <1>2
  DEF Inv, TypeOK, Phases, Worker, NoPanic, ClicksConserved, InFlight, AfterShutdown,
      vars, others, tracker
<1> QED
  BY <1>1, <1>2, MainKeepsInv, HandlerKeepsInv, RunKeepsInv DEF Next

-----------------------------------------------------------------------------
\* Every reachable state satisfies the inductive invariant, and with it TypeOK.
THEOREM Invariance == Spec => []Inv
  BY InitInv, NextKeepsInv, PTL DEF Spec

THEOREM TypeCorrect == Spec => []TypeOK
  BY Invariance, PTL DEF Inv

\* What Track queues reaches SaveAnalytics once and in order, or is still on its
\* way there: no interleaving of handlers, worker and shutdown loses a click.
THEOREM Conservation == Spec => []ClicksConserved
  BY Invariance, PTL DEF Inv

\* analyticsChan is closed only when no handler can send on it any more.
THEOREM ChannelSafety == Spec => []NoSendOnClosed
<1>1. Inv => NoSendOnClosed
  BY DEF Inv, Phases, NoPanic, NoSendOnClosed
<1> QED
  BY <1>1, Invariance, PTL

\* The Postgres pool outlives the tracker's last SaveAnalytics.
THEOREM CloseOrder == Spec => []NothingToSaveAfterClose
<1>1. Inv => NothingToSaveAfterClose
  BY DEF Inv, Phases, Worker, AfterShutdown, NothingToSaveAfterClose
<1> QED
  BY <1>1, Invariance, PTL

\* A process that exits cleanly has given every queued click to SaveAnalytics.
THEOREM CleanExit == Spec => []CleanExitSavesAll
<1>1. Inv => CleanExitSavesAll
  BY DEF Inv, TypeOK, Phases, Worker, AfterShutdown, ClicksConserved, CleanExitSavesAll
<1> QED
  BY <1>1, Invariance, PTL
=============================================================================

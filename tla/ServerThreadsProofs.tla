-------------------------- MODULE ServerThreadsProofs --------------------------
(***************************************************************************)
(* Theorems about ServerThreads for any number of threads and replays.     *)
(***************************************************************************)
EXTENDS ServerThreads, TLAPS

-----------------------------------------------------------------------------
(* The inductive invariant.                                                *)

\* While the callback is set there is no pool, and only the main thread or the
\* worker can be about to take it or to set the base; what the main thread has
\* evaluated stays so, unless the worker serves pages at that time.
Starting ==
  /\ callback => /\ \A p \in Pool : pool[p] = "absent"
                 /\ \A t \in Thread : at[t] # "starting"
  /\ \A p \in Pool : at[p] \notin {"updating", "exchanging", "starting"}
  /\ ~UnservedPages =>
       /\ at[Worker] \notin {"exchanging", "starting"}
       /\ at[Main] \in {"exchanging", "updating"} => callback

\* Only a thread that runs the io_service is doing something, unless the worker
\* has terminated the program.
Active ==
  /\ phase \notin {"running", "terminated"} => at[Main] = "idle"
  /\ phase = "listening" => callback /\ replays = 0 /\ at[Worker] = "idle"
  /\ \A p \in Pool : pool[p] # "running" => at[p] = "idle"
  /\ at[Worker] # "catching"

\* Once join_threads has returned, or the server is gone, all threads of the
\* pool are joined.
Joining ==
  ~UnservedPages =>
    ( \/ phase \in {"finishing", "ended"}
      \/ phase = "unwinding" /\ Main \notin thrown
      => \A p \in Pool : pool[p] \in {"absent", "joined"} )

\* Where the exceptions that were thrown have got to.
Exceptions ==
  /\ Worker \notin thrown
  /\ Main \in thrown => exit = 1 /\ phase \notin {"listening", "running", "joining"}
  /\ \A p \in Pool : p \in thrown => exception \/ at[p] = "catching"
  /\ phase = "listening" => thrown = {}
  /\ ~UnservedPages /\ phase \in {"unwinding", "finishing", "ended"} /\ exit = 0
       => thrown = {}

Terminating == ~UnservedPages => PoolIsExpendable

Invariant == TypeOK /\ Starting /\ Active /\ Joining /\ Exceptions /\ Terminating

-----------------------------------------------------------------------------
\* The numbers of the threads are different.
LEMMA Threads ==
  /\ Main \in Thread /\ Worker \in Thread /\ Pool \subseteq Thread
  /\ Main \notin Pool /\ Worker \notin Pool /\ Main # Worker
  /\ \A t \in Thread : t = Main \/ t = Worker \/ t \in Pool
BY ThreadsAssumption DEF Thread, Main, Worker, Pool

LEMMA InitInvariant == Init => Invariant
<1> SUFFICES ASSUME Init PROVE Invariant
  OBVIOUS
<1>1. TypeOK
  <2>1. replays \in 0..MaxReplays /\ asked \in replays..MaxReplays
    BY ThreadsAssumption DEF Init
  <2> QED BY <2>1 DEF Init, TypeOK
<1>2. Starting /\ Active /\ Joining /\ Exceptions /\ Terminating
  BY Threads DEF Init, Starting, Active, Joining, Exceptions, Terminating,
     PoolIsExpendable
<1> QED BY <1>1, <1>2 DEF Invariant

-----------------------------------------------------------------------------
(* Types.                                                                  *)

LEMMA TypeStep == TypeOK /\ [Next]_vars => TypeOK'
<1> SUFFICES ASSUME TypeOK, [Next]_vars PROVE TypeOK'
  OBVIOUS
<1> USE Threads DEF TypeOK, serving, queue, ending
<1>1. CASE Listen BY <1>1 DEF Listen
<1>2. CASE ListenFails BY <1>2 DEF ListenFails
<1>3. ASSUME NEW t \in Thread, Begin(t) PROVE TypeOK'
  BY <1>3 DEF Begin
<1>4. ASSUME NEW t \in Thread, Handler(t) PROVE TypeOK'
  <2>1. CASE Return(t) BY <2>1 DEF Return
  <2>2. CASE QueueReplay(t) BY <2>2, ThreadsAssumption DEF QueueReplay
  <2>3. CASE HandleInitialRedirects(t) BY <2>3 DEF HandleInitialRedirects
  <2>4. CASE SetServerBase(t) BY <2>4 DEF SetServerBase
  <2>5. CASE ExchangeCallback(t) BY <2>5 DEF ExchangeCallback
  <2>6. CASE Throw(t) BY <2>6 DEF Throw
  <2>7. CASE LockThreads(t) BY <2>7 DEF LockThreads
  <2>8. CASE StartThread(t) BY <2>8 DEF StartThread
  <2>9. CASE UnlockThreads(t) BY <2>9 DEF UnlockThreads
  <2>10. CASE Catch(t) BY <2>10 DEF Catch
  <2> QED BY <1>4, <2>1, <2>2, <2>3, <2>4, <2>5, <2>6, <2>7, <2>8, <2>9,
              <2>10 DEF Handler
<1>5. ASSUME NEW t \in Thread, Stop(t) PROVE TypeOK'
  BY <1>5 DEF Stop
<1>6. ASSUME NEW t \in Thread, Leave(t) PROVE TypeOK'
  BY <1>6 DEF Leave
<1>7. CASE Interrupt BY <1>7 DEF Interrupt
<1>8. CASE Join BY <1>8 DEF Join
<1>9. CASE Joined BY <1>9 DEF Joined
<1>10. CASE DestroyServer BY <1>10 DEF DestroyServer
<1>11. CASE Finish BY <1>11 DEF Finish
<1>12. CASE TakeReplay BY <1>12, ThreadsAssumption DEF TakeReplay
<1>13. CASE UNCHANGED vars BY <1>13 DEF vars
<1> QED
  BY <1>1, <1>2, <1>3, <1>4, <1>5, <1>6, <1>7, <1>8, <1>9, <1>10, <1>11, <1>12,
     <1>13 DEF Next, End, Terminated
-----------------------------------------------------------------------------
(* The parts of the invariant.                                             *)

\* The thread that takes the callback is the main thread or the worker: while
\* the callback is set the pool is empty.
LEMMA StartingStep == TypeOK /\ Starting /\ Active /\ [Next]_vars => Starting'
<1> SUFFICES ASSUME TypeOK, Starting, Active, [Next]_vars PROVE Starting'
  OBVIOUS
<1> USE Threads DEF TypeOK, Starting, Active, serving, queue, ending
<1>1. CASE Listen BY <1>1 DEF Listen
<1>2. CASE ListenFails BY <1>2 DEF ListenFails
<1>3. ASSUME NEW t \in Thread, Begin(t) PROVE Starting'
  BY <1>3 DEF Begin, Runs
<1>4. ASSUME NEW t \in Thread, Handler(t) PROVE Starting'
  <2>1. CASE Return(t) BY <2>1 DEF Return
  <2>2. CASE QueueReplay(t) BY <2>2 DEF QueueReplay
  <2>3. CASE HandleInitialRedirects(t) BY <2>3 DEF HandleInitialRedirects
  <2>4. CASE SetServerBase(t) BY <2>4 DEF SetServerBase
  <2>5. CASE ExchangeCallback(t) BY <2>5 DEF ExchangeCallback
  <2>6. CASE Throw(t) BY <2>6 DEF Throw
  <2>7. CASE LockThreads(t) BY <2>7 DEF LockThreads
  <2>8. CASE StartThread(t) BY <2>8 DEF StartThread
  <2>9. CASE UnlockThreads(t) BY <2>9 DEF UnlockThreads
  <2>10. CASE Catch(t) BY <2>10 DEF Catch
  <2> QED BY <1>4, <2>1, <2>2, <2>3, <2>4, <2>5, <2>6, <2>7, <2>8, <2>9,
              <2>10 DEF Handler
<1>5. ASSUME NEW t \in Thread, Stop(t) PROVE Starting'
  BY <1>5 DEF Stop
<1>6. ASSUME NEW t \in Thread, Leave(t) PROVE Starting'
  BY <1>6 DEF Leave, Runs
<1>7. CASE Interrupt BY <1>7 DEF Interrupt
<1>8. CASE Join BY <1>8 DEF Join
<1>9. CASE Joined BY <1>9 DEF Joined
<1>10. CASE DestroyServer BY <1>10 DEF DestroyServer
<1>11. CASE Finish BY <1>11 DEF Finish
<1>12. CASE TakeReplay BY <1>12 DEF TakeReplay
<1>13. CASE UNCHANGED vars BY <1>13 DEF vars
<1> QED
  BY <1>1, <1>2, <1>3, <1>4, <1>5, <1>6, <1>7, <1>8, <1>9, <1>10, <1>11,
     <1>12, <1>13 DEF Next, End, Terminated

LEMMA ActiveStep == TypeOK /\ Starting /\ Active /\ [Next]_vars => Active'
<1> SUFFICES ASSUME TypeOK, Starting, Active, [Next]_vars PROVE Active'
  OBVIOUS
<1> USE Threads DEF TypeOK, Starting, Active, serving, queue, ending
<1>1. CASE Listen BY <1>1 DEF Listen
<1>2. CASE ListenFails BY <1>2 DEF ListenFails
<1>3. ASSUME NEW t \in Thread, Begin(t) PROVE Active'
  BY <1>3 DEF Begin, Runs
<1>4. ASSUME NEW t \in Thread, Handler(t) PROVE Active'
  <2>1. CASE Return(t) BY <2>1 DEF Return
  <2>2. CASE QueueReplay(t) BY <2>2 DEF QueueReplay
  <2>3. CASE HandleInitialRedirects(t) BY <2>3 DEF HandleInitialRedirects
  <2>4. CASE SetServerBase(t) BY <2>4 DEF SetServerBase
  <2>5. CASE ExchangeCallback(t) BY <2>5 DEF ExchangeCallback
  <2>6. CASE Throw(t) BY <2>6 DEF Throw
  <2>7. CASE LockThreads(t) BY <2>7 DEF LockThreads
  <2>8. CASE StartThread(t) BY <2>8 DEF StartThread
  <2>9. CASE UnlockThreads(t) BY <2>9 DEF UnlockThreads
  <2>10. CASE Catch(t) BY <2>10 DEF Catch
  <2> QED BY <1>4, <2>1, <2>2, <2>3, <2>4, <2>5, <2>6, <2>7, <2>8, <2>9,
              <2>10 DEF Handler
<1>5. ASSUME NEW t \in Thread, Stop(t) PROVE Active'
  BY <1>5 DEF Stop
<1>6. ASSUME NEW t \in Thread, Leave(t) PROVE Active'
  BY <1>6 DEF Leave, Runs
<1>7. CASE Interrupt BY <1>7 DEF Interrupt
<1>8. CASE Join BY <1>8 DEF Join
<1>9. CASE Joined BY <1>9 DEF Joined
<1>10. CASE DestroyServer BY <1>10 DEF DestroyServer
<1>11. CASE Finish BY <1>11 DEF Finish
<1>12. CASE TakeReplay BY <1>12 DEF TakeReplay
<1>13. CASE UNCHANGED vars BY <1>13 DEF vars
<1> QED
  BY <1>1, <1>2, <1>3, <1>4, <1>5, <1>6, <1>7, <1>8, <1>9, <1>10, <1>11,
     <1>12, <1>13 DEF Next, End, Terminated

\* The pool grows no more when the main thread has left the io_service.
LEMMA JoiningStep == TypeOK /\ Starting /\ Active /\ Exceptions /\ Joining /\ [Next]_vars => Joining'
<1> SUFFICES ASSUME TypeOK, Starting, Active, Exceptions, Joining, [Next]_vars PROVE Joining'
  OBVIOUS
<1> USE Threads DEF TypeOK, Starting, Active, Exceptions, Joining, serving, queue, ending
<1>1. CASE Listen BY <1>1 DEF Listen
<1>2. CASE ListenFails BY <1>2 DEF ListenFails
<1>3. ASSUME NEW t \in Thread, Begin(t) PROVE Joining'
  BY <1>3 DEF Begin, Runs
<1>4. ASSUME NEW t \in Thread, Handler(t) PROVE Joining'
  <2>1. CASE Return(t) BY <2>1 DEF Return
  <2>2. CASE QueueReplay(t) BY <2>2 DEF QueueReplay
  <2>3. CASE HandleInitialRedirects(t) BY <2>3 DEF HandleInitialRedirects
  <2>4. CASE SetServerBase(t) BY <2>4 DEF SetServerBase
  <2>5. CASE ExchangeCallback(t) BY <2>5 DEF ExchangeCallback
  <2>6. CASE Throw(t) BY <2>6 DEF Throw
  <2>7. CASE LockThreads(t) BY <2>7 DEF LockThreads
  <2>8. CASE StartThread(t) BY <2>8 DEF StartThread
  <2>9. CASE UnlockThreads(t) BY <2>9 DEF UnlockThreads
  <2>10. CASE Catch(t) BY <2>10 DEF Catch
  <2> QED BY <1>4, <2>1, <2>2, <2>3, <2>4, <2>5, <2>6, <2>7, <2>8, <2>9,
              <2>10 DEF Handler
<1>5. ASSUME NEW t \in Thread, Stop(t) PROVE Joining'
  BY <1>5 DEF Stop
<1>6. ASSUME NEW t \in Thread, Leave(t) PROVE Joining'
  BY <1>6 DEF Leave, Runs
<1>7. CASE Interrupt BY <1>7 DEF Interrupt
<1>8. CASE Join BY <1>8 DEF Join
<1>9. CASE Joined BY <1>9 DEF Joined
<1>10. CASE DestroyServer BY <1>10 DEF DestroyServer
<1>11. CASE Finish BY <1>11 DEF Finish
<1>12. CASE TakeReplay BY <1>12 DEF TakeReplay
<1>13. CASE UNCHANGED vars BY <1>13 DEF vars
<1> QED
  BY <1>1, <1>2, <1>3, <1>4, <1>5, <1>6, <1>7, <1>8, <1>9, <1>10, <1>11,
     <1>12, <1>13 DEF Next, End, Terminated

\* An exception that was thrown is being caught until it is stored, and every
\* thread that catches one is joined before thread_exception is examined.
LEMMA ExceptionsStep == TypeOK /\ Starting /\ Active /\ Joining /\ Exceptions /\ [Next]_vars => Exceptions'
<1> SUFFICES ASSUME TypeOK, Starting, Active, Joining, Exceptions, [Next]_vars PROVE Exceptions'
  OBVIOUS
<1> USE Threads DEF TypeOK, Starting, Active, Joining, Exceptions, serving, queue, ending
<1>1. CASE Listen BY <1>1 DEF Listen
<1>2. CASE ListenFails BY <1>2 DEF ListenFails
<1>3. ASSUME NEW t \in Thread, Begin(t) PROVE Exceptions'
  BY <1>3 DEF Begin, Runs
<1>4. ASSUME NEW t \in Thread, Handler(t) PROVE Exceptions'
  <2>1. CASE Return(t) BY <2>1 DEF Return
  <2>2. CASE QueueReplay(t) BY <2>2 DEF QueueReplay
  <2>3. CASE HandleInitialRedirects(t) BY <2>3 DEF HandleInitialRedirects
  <2>4. CASE SetServerBase(t) BY <2>4 DEF SetServerBase
  <2>5. CASE ExchangeCallback(t) BY <2>5 DEF ExchangeCallback
  <2>6. CASE Throw(t)
    <3>1. CASE t = Main BY <2>6, <3>1 DEF Throw
    <3>2. CASE t \in Pool
      <4>1. pool[t] = "running" BY <2>6, <3>2 DEF Throw
      <4>2. /\ phase # "listening"
            /\ ~UnservedPages => phase \notin {"finishing", "ended"}
            /\ ~UnservedPages /\ phase = "unwinding" => Main \in thrown
        BY <3>2, <4>1
      <4>3. phase' = phase /\ exit' = exit /\ thrown' = thrown \cup {t} /\ exception' = exception
        BY <2>6, <3>2 DEF Throw
      <4>4. at'[t] = "catching" /\ \A p \in Pool : p # t => at'[p] = at[p]
        BY <2>6, <3>2 DEF Throw
      <4> QED BY <2>6, <3>2, <4>2, <4>3, <4>4 DEF Throw
    <3> QED BY <2>6, <3>1, <3>2 DEF Throw
  <2>7. CASE LockThreads(t) BY <2>7 DEF LockThreads
  <2>8. CASE StartThread(t) BY <2>8 DEF StartThread
  <2>9. CASE UnlockThreads(t) BY <2>9 DEF UnlockThreads
  <2>10. CASE Catch(t) BY <2>10 DEF Catch
  <2> QED BY <1>4, <2>1, <2>2, <2>3, <2>4, <2>5, <2>6, <2>7, <2>8, <2>9,
              <2>10 DEF Handler
<1>5. ASSUME NEW t \in Thread, Stop(t) PROVE Exceptions'
  BY <1>5 DEF Stop
<1>6. ASSUME NEW t \in Thread, Leave(t) PROVE Exceptions'
  BY <1>6 DEF Leave, Runs
<1>7. CASE Interrupt BY <1>7 DEF Interrupt
<1>8. CASE Join BY <1>8 DEF Join
<1>9. CASE Joined BY <1>9 DEF Joined
<1>10. CASE DestroyServer BY <1>10 DEF DestroyServer
<1>11. CASE Finish BY <1>11 DEF Finish
<1>12. CASE TakeReplay BY <1>12 DEF TakeReplay
<1>13. CASE UNCHANGED vars BY <1>13 DEF vars
<1> QED
  BY <1>1, <1>2, <1>3, <1>4, <1>5, <1>6, <1>7, <1>8, <1>9, <1>10, <1>11,
     <1>12, <1>13 DEF Next, End, Terminated

LEMMA TerminatingStep == TypeOK /\ Starting /\ Joining /\ Exceptions /\ Terminating /\ [Next]_vars => Terminating'
<1> SUFFICES ASSUME TypeOK, Starting, Joining, Exceptions, Terminating, [Next]_vars PROVE Terminating'
  OBVIOUS
<1> USE Threads DEF TypeOK, Joining, Exceptions, Terminating, PoolIsExpendable, serving, queue, ending
<1>1. CASE Listen BY <1>1 DEF Listen
<1>2. CASE ListenFails BY <1>2 DEF ListenFails
<1>3. ASSUME NEW t \in Thread, Begin(t) PROVE Terminating'
  BY <1>3 DEF Begin, Runs
<1>4. ASSUME NEW t \in Thread, Handler(t) PROVE Terminating'
  <2>1. CASE Return(t) BY <2>1 DEF Return
  <2>2. CASE QueueReplay(t) BY <2>2 DEF QueueReplay
  <2>3. CASE HandleInitialRedirects(t) BY <2>3 DEF HandleInitialRedirects
  <2>4. CASE SetServerBase(t) BY <2>4 DEF SetServerBase
  <2>5. CASE ExchangeCallback(t)
    <3>1. ~UnservedPages => phase' = phase /\ thrown' = thrown
      BY <2>5 DEF ExchangeCallback, Starting
    <3> QED BY <3>1
  <2>6. CASE Throw(t) BY <2>6 DEF Throw
  <2>7. CASE LockThreads(t) BY <2>7 DEF LockThreads
  <2>8. CASE StartThread(t) BY <2>8 DEF StartThread
  <2>9. CASE UnlockThreads(t) BY <2>9 DEF UnlockThreads
  <2>10. CASE Catch(t) BY <2>10 DEF Catch
  <2> QED BY <1>4, <2>1, <2>2, <2>3, <2>4, <2>5, <2>6, <2>7, <2>8, <2>9,
              <2>10 DEF Handler
<1>5. ASSUME NEW t \in Thread, Stop(t) PROVE Terminating'
  BY <1>5 DEF Stop
<1>6. ASSUME NEW t \in Thread, Leave(t) PROVE Terminating'
  BY <1>6 DEF Leave, Runs
<1>7. CASE Interrupt BY <1>7 DEF Interrupt
<1>8. CASE Join BY <1>8 DEF Join
<1>9. CASE Joined BY <1>9 DEF Joined
<1>10. CASE DestroyServer BY <1>10 DEF DestroyServer
<1>11. CASE Finish BY <1>11 DEF Finish
<1>12. CASE TakeReplay BY <1>12 DEF TakeReplay
<1>13. CASE UNCHANGED vars BY <1>13 DEF vars
<1> QED
  BY <1>1, <1>2, <1>3, <1>4, <1>5, <1>6, <1>7, <1>8, <1>9, <1>10, <1>11,
     <1>12, <1>13 DEF Next, End, Terminated

-----------------------------------------------------------------------------
(* The theorems.                                                           *)

\* The invariant holds in every run of the program.
THEOREM Invariance == Spec => []Invariant
<1>1. Init => Invariant
  BY InitInvariant
<1>2. Invariant /\ [Next]_vars => Invariant'
  BY TypeStep, StartingStep, ActiveStep, JoiningStep, ExceptionsStep, TerminatingStep
  DEF Invariant
<1> QED BY <1>1, <1>2, PTL DEF Spec

\* The types hold in every run.
THEOREM TypeCorrect == Spec => []TypeOK
<1>1. Invariant => TypeOK
  BY DEF Invariant
<1> QED BY <1>1, Invariance, PTL

\* Unless a page may be recorded unserved, the threads are started once, by the
\* main thread, and what it has evaluated is still so when it takes the callback;
\* and a thread of the io_service that sets the server's base or takes the
\* callback is the only one of them in a handler.
THEOREM AlwaysStartedOnce ==
  ASSUME ~UnservedPages
  PROVE  Spec => []StartedOnce
<1>1. ASSUME Invariant, NEW s \in Thread \ {Worker}, NEW t \in Thread \ {Worker},
             s # t, at[s] \in {"updating", "exchanging"}
      PROVE  at[t] = "idle"
  <2>1. s = Main /\ t \in Pool
    BY <1>1, Threads DEF Invariant, Starting
  <2>2. pool[t] = "absent"
    BY <1>1, <2>1 DEF Invariant, Starting
  <2> QED BY <1>1, <2>1, <2>2 DEF Invariant, Active
<1>2. Invariant => StartedOnce
  BY <1>1, Threads DEF Invariant, Starting, StartedOnce
<1> QED BY <1>2, Invariance, PTL

\* Unless a page may be recorded unserved, no handler of the server runs any
\* more when finish begins, however the program came to its end.
THEOREM AlwaysFinishesAlone ==
  ASSUME ~UnservedPages
  PROVE  Spec => []FinishIsAlone
<1>1. Invariant => FinishIsAlone
  BY Threads DEF Invariant, Active, Joining, FinishIsAlone
<1> QED BY <1>1, Invariance, PTL

\* Unless a page may be recorded unserved, a run that reports success had no
\* exception in any of its threads.
THEOREM AlwaysReported ==
  ASSUME ~UnservedPages
  PROVE  Spec => []ExceptionsReported
<1>1. Invariant => ExceptionsReported
  BY DEF Invariant, Exceptions, ExceptionsReported
<1> QED BY <1>1, Invariance, PTL

\* Unless a page may be recorded unserved, only an exception that leaves the
\* main thread can end the program without its recording.
THEOREM AlwaysExpendable ==
  ASSUME ~UnservedPages
  PROVE  Spec => []PoolIsExpendable
<1>1. Invariant => PoolIsExpendable
  BY DEF Invariant, Terminating
<1> QED BY <1>1, Invariance, PTL
=============================================================================

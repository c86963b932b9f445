----------------------------- MODULE ServerThreads -----------------------------
(***************************************************************************)
(* The threads of a run of the program: main.cpp, Server::run,             *)
(* Server::run_threads and join_threads (src/src/Server.cpp), how Logic    *)
(* starts the threads, and how the program ends.                           *)
(*                                                                         *)
(* The main thread makes Logic and Server and runs the io_service.  The    *)
(* first response that is no redirect starts more threads that run it too. *)
(* A signal or a request stops the io_service; then every thread returns   *)
(* from it, the main thread joins the others, the server is destroyed and  *)
(* Logic::finish completes the recording.  All that time the worker of     *)
(* ArchiveWriter may be serving replays.                                   *)
(*                                                                         *)
(* What a handler does for its request is in RequestHandling; here it      *)
(* serves a page or a redirect, queues a replay, throws, or does something *)
(* else.  Until the threads are started a redirect changes the base of the *)
(* server, which every handler reads; which URL that is is in Browsing,    *)
(* here it matters who changes it while who else is at work.  An exception *)
(* of handle_request itself is caught by the HTTP server and does not      *)
(* count; one of a Client callback (a damaged gzip body in                 *)
(* Client::Response::set_data, say) leaves io_service::run.                *)
(***************************************************************************)
EXTENDS Naturals, FiniteSets

CONSTANTS
  ThreadCount,   \* the number given to run_threads
  MaxReplays,    \* bound of the replays that are queued in a run
  UnservedPages  \* a page may be recorded that was not served (the serve
                 \* policy last, when the archive has a redirect for it)

ASSUME ThreadsAssumption ==
  /\ ThreadCount \in Nat \ {0}
  /\ MaxReplays \in Nat
  /\ UnservedPages \in BOOLEAN

Main == 0
Pool == 1..ThreadCount
Worker == ThreadCount + 1    \* of ArchiveWriter
Thread == Main..Worker
Free == ThreadCount + 2      \* no thread

VARIABLES
  phase,      \* how far the main thread is in run()
  pool,       \* Server::Impl::threads
  at,         \* what each thread is doing
  holder,     \* the thread that holds thread_mutex
  callback,   \* m_start_threads_callback is set
  interrupt,  \* a signal arrived or a shutdown was requested
  stopped,    \* the io_service is stopped
  recorded,   \* the archive writer contains a body
  replays,    \* how many replays its queue holds
  asked,      \* history: how many were queued
  exception,  \* thread_exception is set
  thrown,     \* history: the threads that an exception has left
  exit        \* what run() is going to return

ending == <<exception, thrown, exit>>
serving == <<callback, interrupt, stopped>>
queue == <<recorded, replays, asked>>
vars == <<phase, pool, at, holder, callback, interrupt, stopped, recorded, replays,
          asked, exception, thrown, exit>>

TypeOK ==
  /\ phase \in {"listening", "running", "joining", "unwinding", "finishing",
                "ended", "terminated"}
  /\ pool \in [Pool -> {"absent", "running", "returned", "joined"}]
  /\ at \in [Thread -> {"idle", "handling", "updating", "exchanging", "starting",
                       "serving", "catching"}]
  /\ holder \in Thread \cup {Free}
  /\ callback \in BOOLEAN /\ interrupt \in BOOLEAN /\ stopped \in BOOLEAN
  /\ recorded \in BOOLEAN
  /\ replays \in 0..MaxReplays
  /\ asked \in replays..MaxReplays
  /\ exception \in BOOLEAN
  /\ thrown \subseteq Thread
  /\ exit \in {0, 1}

Init ==
  /\ phase = "listening"
  /\ pool = [p \in Pool |-> "absent"]
  /\ at = [t \in Thread |-> "idle"]
  /\ holder = Free
  /\ callback = TRUE
  /\ interrupt = FALSE
  /\ stopped = FALSE
  /\ recorded = FALSE
  /\ replays = 0
  /\ asked = 0
  /\ exception = FALSE
  /\ thrown = {}
  /\ exit = 0

-----------------------------------------------------------------------------
(* The main thread before it runs the io_service.                          *)

Listen ==
  /\ phase = "listening"
  /\ phase' = "running"
  /\ UNCHANGED <<pool, at, holder, serving, queue, ending>>

\* The port is in use: the exception leaves Server::run.
ListenFails ==
  /\ phase = "listening"
  /\ phase' = "unwinding"
  /\ thrown' = {Main}
  /\ exit' = 1
  /\ UNCHANGED <<pool, at, holder, serving, queue, exception>>

-----------------------------------------------------------------------------
(* The threads that run the io_service.                                    *)

Runs(t) == IF t = Main THEN phase = "running" ELSE t \in Pool /\ pool[t] = "running"
Alive == phase \notin {"ended", "terminated"}

\* The io_service gives a thread a handler to run.
Begin(t) ==
  /\ Runs(t) /\ Alive
  /\ at[t] = "idle"
  /\ ~stopped
  /\ at' = [at EXCEPT ![t] = "handling"]
  /\ UNCHANGED <<phase, pool, holder, serving, queue, ending>>

\* The handler returns: it did nothing that matters here, or it has served its
\* response and may have recorded it.
Return(t) ==
  /\ Alive
  /\ at[t] = "serving" \/ (at[t] = "handling" /\ t # Worker)
  /\ at' = [at EXCEPT ![t] = "idle"]
  /\ \/ UNCHANGED recorded
     \/ /\ t # Worker /\ (at[t] = "serving" \/ UnservedPages)
        /\ recorded' = TRUE
  /\ UNCHANGED <<phase, pool, holder, serving, replays, asked, ending>>

\* serve_previously_served
QueueReplay(t) ==
  /\ Alive
  /\ t # Worker
  /\ at[t] = "handling"
  /\ recorded
  /\ asked < MaxReplays
  /\ asked' = asked + 1
  /\ replays' = replays + 1
  /\ at' = [at EXCEPT ![t] = "idle"]
  /\ UNCHANGED <<phase, pool, holder, serving, recorded, ending>>

\* Mutant of HandleInitialRedirects: a redirect does not evaluate the callback.
HandleInitialRedirects_Always(t) ==
  /\ Alive
  /\ at[t] = "handling"
  /\ \/ /\ t = Worker /\ ~UnservedPages => ~callback
        /\ at' = [at EXCEPT ![t] = IF callback THEN "exchanging" ELSE "serving"]
     \/ \E next \in {"updating", "serving"} : at' = [at EXCEPT ![t] = next]
  /\ UNCHANGED <<phase, pool, holder, serving, queue, ending>>

\* handle_initial_redirects evaluates the callback, without a lock: a page
\* takes it, a redirect sets the server's base if its URL begins with that of
\* the base.
HandleInitialRedirects(t) ==
  /\ Alive
  /\ at[t] = "handling"
  /\ \/ /\ t = Worker /\ ~UnservedPages => ~callback     \* a page
        /\ at' = [at EXCEPT ![t] = IF callback THEN "exchanging" ELSE "serving"]
     \/ \E next \in {"updating", "serving"} :            \* a redirect
          at' = [at EXCEPT ![t] = IF callback THEN next ELSE "serving"]
  /\ UNCHANGED <<phase, pool, holder, serving, queue, ending>>

\* set_server_base: two strings are assigned that other threads may be reading.
SetServerBase(t) ==
  /\ Alive
  /\ at[t] = "updating"
  /\ at' = [at EXCEPT ![t] = "serving"]
  /\ UNCHANGED <<phase, pool, holder, serving, queue, ending>>

\* The callback is exchanged for none and called.  When another thread was
\* faster there is none to call: the exception terminates the program if it
\* is the worker's.
ExchangeCallback(t) ==
  /\ Alive
  /\ at[t] = "exchanging"
  /\ callback' = FALSE
  /\ at' = [at EXCEPT ![t] = IF callback THEN "starting" ELSE "serving"]
  /\ phase' = IF ~callback /\ t = Worker THEN "terminated" ELSE phase
  /\ UNCHANGED <<pool, holder, interrupt, stopped, queue, ending>>

\* Server::Impl::run_threads: lock thread_mutex, ...
LockThreads(t) ==
  /\ Alive
  /\ at[t] = "starting"
  /\ holder = Free
  /\ holder' = t
  /\ UNCHANGED <<phase, pool, at, serving, queue, ending>>

\* ... start one thread after the other, each of which runs at once, ...
StartThread(t) ==
  /\ Alive
  /\ at[t] = "starting"
  /\ holder = t
  /\ \E p \in Pool :
       /\ pool[p] = "absent"
       /\ \A q \in 1..p-1 : pool[q] # "absent"
       /\ pool' = [pool EXCEPT ![p] = "running"]
  /\ UNCHANGED <<phase, at, holder, serving, queue, ending>>

\* ... and unlock it.
UnlockThreads(t) ==
  /\ Alive
  /\ at[t] = "starting"
  /\ holder = t
  /\ \A p \in Pool : pool[p] # "absent"
  /\ holder' = Free
  /\ at' = [at EXCEPT ![t] = "serving"]
  /\ UNCHANGED <<phase, pool, serving, queue, ending>>

\* An exception of a handler leaves io_service::run.  On the main thread it
\* also leaves Server::run, without join_threads.
Throw(t) ==
  /\ Alive
  /\ t # Worker
  /\ at[t] \in {"handling", "serving"}
  /\ thrown' = thrown \cup {t}
  /\ IF t = Main
     THEN /\ phase' = "unwinding"
          /\ exit' = 1
          /\ at' = [at EXCEPT ![t] = "idle"]
     ELSE /\ at' = [at EXCEPT ![t] = "catching"]
          /\ UNCHANGED <<phase, exit>>
  /\ UNCHANGED <<pool, holder, serving, queue, exception>>

\* Mutant of Catch: the thread ends without having stored its exception.
Catch_Dropped(t) ==
  /\ Alive
  /\ at[t] = "catching"
  /\ holder = Free
  /\ at' = [at EXCEPT ![t] = "idle"]
  /\ pool' = [pool EXCEPT ![t] = "returned"]
  /\ UNCHANGED <<phase, holder, serving, queue, ending>>

\* The function of a pool thread catches it, stores it holding thread_mutex
\* and returns.
Catch(t) ==
  /\ Alive
  /\ at[t] = "catching"
  /\ holder = Free
  /\ exception' = TRUE
  /\ at' = [at EXCEPT ![t] = "idle"]
  /\ pool' = [pool EXCEPT ![t] = "returned"]
  /\ UNCHANGED <<phase, holder, serving, queue, thrown, exit>>

-----------------------------------------------------------------------------
(* The end.                                                                *)

\* CTRL-C, or a request whose path ends with shutdown_request.
Interrupt ==
  /\ phase \in {"listening", "running"}
  /\ ~interrupt
  /\ interrupt' = TRUE
  /\ UNCHANGED <<phase, pool, at, holder, callback, stopped, queue, ending>>

\* The handler of the signal, and what Client::shutdown posts, run on one of
\* the threads of the io_service.
Stop(t) ==
  /\ Runs(t) /\ Alive
  /\ at[t] = "idle"
  /\ interrupt /\ ~stopped
  /\ stopped' = TRUE
  /\ UNCHANGED <<phase, pool, at, holder, callback, interrupt, queue, ending>>

\* Mutant of Leave: join_threads locks thread_mutex until the program ends.
Leave_Locking(t) ==
  /\ Runs(t) /\ Alive
  /\ at[t] = "idle"
  /\ stopped
  /\ IF t = Main
     THEN /\ holder = Free
          /\ holder' = Main
          /\ phase' = "joining"
          /\ UNCHANGED pool
     ELSE pool' = [pool EXCEPT ![t] = "returned"] /\ UNCHANGED <<phase, holder>>
  /\ UNCHANGED <<at, serving, queue, ending>>

\* io_service::run returns, to Server::run or to the function of the thread.
Leave(t) ==
  /\ Runs(t) /\ Alive
  /\ at[t] = "idle"
  /\ stopped
  /\ IF t = Main
     THEN phase' = "joining" /\ UNCHANGED pool
     ELSE pool' = [pool EXCEPT ![t] = "returned"] /\ UNCHANGED phase
  /\ UNCHANGED <<at, holder, serving, queue, ending>>

\* Server::Impl::join_threads waits for the threads in turn ...
Join ==
  /\ phase = "joining"
  /\ \E p \in Pool :
       /\ pool[p] = "returned"
       /\ \A q \in 1..p-1 : pool[q] = "joined"
       /\ pool' = [pool EXCEPT ![p] = "joined"]
  /\ UNCHANGED <<phase, at, holder, serving, queue, ending>>

\* Mutant of Joined: only threads that have returned already are joined.
Joined_Returned ==
  /\ phase = "joining"
  /\ \A p \in Pool : pool[p] # "returned"
  /\ phase' = "unwinding"
  /\ exit' = IF exception THEN 1 ELSE 0
  /\ UNCHANGED <<pool, at, holder, serving, queue, exception, thrown>>

\* ... and then throws the exception of one of them again.
Joined ==
  /\ phase = "joining"
  /\ \A p \in Pool : pool[p] \in {"absent", "joined"}
  /\ phase' = "unwinding"
  /\ exit' = IF exception THEN 1 ELSE 0
  /\ UNCHANGED <<pool, at, holder, serving, queue, exception, thrown>>

\* Mutant of DestroyServer: threads that run are detached.
DestroyServer_Detaching ==
  /\ phase = "unwinding"
  /\ phase' = "finishing"
  /\ UNCHANGED <<pool, at, holder, serving, queue, ending>>

\* The destructor of the server destroys its std::threads: one that was not
\* joined terminates the program, with the archive in its temporary file.
DestroyServer ==
  /\ phase = "unwinding"
  /\ phase' = IF \E p \in Pool : pool[p] \in {"running", "returned"}
              THEN "terminated" ELSE "finishing"
  /\ UNCHANGED <<pool, at, holder, serving, queue, ending>>

\* The destructor of Logic: finish, which closes the archive when the worker
\* has performed all tasks.
Finish ==
  /\ phase = "finishing"
  /\ replays = 0
  /\ at[Worker] = "idle"
  /\ phase' = "ended"
  /\ UNCHANGED <<pool, at, holder, serving, queue, ending>>

-----------------------------------------------------------------------------
(* The worker of the archive writer takes a replay and serves it.          *)

TakeReplay ==
  /\ Alive
  /\ at[Worker] = "idle"
  /\ replays > 0
  /\ replays' = replays - 1
  /\ at' = [at EXCEPT ![Worker] = "handling"]
  /\ UNCHANGED <<phase, pool, holder, serving, recorded, asked, ending>>

-----------------------------------------------------------------------------
Handler(t) ==
  \/ Return(t) \/ QueueReplay(t) \/ Throw(t)
  \/ HandleInitialRedirects(t) \/ SetServerBase(t) \/ ExchangeCallback(t)
  \/ LockThreads(t) \/ StartThread(t) \/ UnlockThreads(t)
  \/ Catch(t)

End == Join \/ Joined \/ DestroyServer \/ Finish

Terminated == ~Alive /\ UNCHANGED vars

Next ==
  \/ Listen \/ ListenFails
  \/ \E t \in Thread : Begin(t) \/ Handler(t) \/ Stop(t) \/ Leave(t)
  \/ Interrupt
  \/ End
  \/ TakeReplay
  \/ Terminated

Spec == Init /\ [][Next]_vars

\* Threads run on.  The io_service runs its handlers in the order in which
\* they became ready, so the one that stops it gets its turn.
FairSpec ==
  /\ Spec
  /\ WF_vars(Listen \/ ListenFails)
  /\ \A t \in Thread : WF_vars(Handler(t)) /\ WF_vars(Leave(t))
  /\ SF_vars(\E t \in Thread : Stop(t))
  /\ WF_vars(End)
  /\ WF_vars(TakeReplay)

-----------------------------------------------------------------------------
(* Properties.                                                             *)

\* The threads are started once: the callback is evaluated and exchanged in
\* two steps without a lock, but only the main thread does both, no other
\* thread takes it in between, and until it is taken there is no pool.
\* And what is "only updated while single threaded" (Logic.h:58), among the
\* threads that run the io_service: while one sets the server's base or takes
\* the callback, the others are in no handler that may read them.  The worker
\* is a thread as well, and for it this is false: it evaluates the callback
\* and sets the base for a replayed redirect while the others are at work
\* (README, section 4).
StartedOnce ==
  /\ \A t \in Thread : at[t] \in {"exchanging", "starting"} => t = Main
  /\ at[Main] = "exchanging" => callback
  /\ callback => \A p \in Pool : pool[p] = "absent"
  /\ \A s, t \in Thread \ {Worker} :
       s # t /\ at[s] \in {"updating", "exchanging"} => at[t] = "idle"

\* finish serializes m_header_writer without a lock: no handler runs any more
\* when it begins, whether the program ends by a signal or by an exception.
FinishIsAlone ==
  phase \in {"finishing", "ended"} =>
    /\ at[Main] = "idle"
    /\ \A p \in Pool : at[p] = "idle" /\ pool[p] \in {"absent", "joined"}

\* A run that reports success has not lost the exception of any thread, even
\* of one that ended long before the program.
ExceptionsReported == phase = "ended" /\ exit = 0 => thrown = {}

\* A thread of the pool that fails costs that thread, never the recording:
\* the program terminates without finishing the archive only when an
\* exception left the main thread.
PoolIsExpendable == phase = "terminated" => Main \in thrown

\* CTRL-C ends the program (README.md:21), wherever its threads are and
\* whichever of them have failed.
InterruptEnds == interrupt ~> (phase \in {"ended", "terminated"})
=============================================================================

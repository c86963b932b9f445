--------------------------- MODULE RequestHandling ---------------------------
(***************************************************************************)
(* Logic (src/src/Logic.cpp) from handle_request to async_write_file: how  *)
(* a request is answered from this session's recording, from the input     *)
(* archive or from the upstream server, and what is recorded on the way.   *)
(*                                                                         *)
(* The handlers of several requests interleave.  They run on the main      *)
(* thread alone until the first response that is no redirect starts more   *)
(* threads.  A request forwarded upstream occupies no thread until its     *)
(* response arrives.  Replays run on the worker thread of ArchiveWriter,   *)
(* which is represented by what it promises (WriteOnceStore).              *)
(*                                                                         *)
(* A header and a body are identified by where they come from: a request   *)
(* stands for what its upstream response carried, a URL for what the input *)
(* archive holds for it.  A URL here is an identifying URL (it includes    *)
(* the POST data, and HSTS is applied to it).  Cookies, the patching of    *)
(* HTML and the rewriting of headers do not influence any of this and are  *)
(* left out.                                                               *)
(***************************************************************************)
EXTENDS Naturals, FiniteSets

CONSTANTS Url, File, Request, None,
          DownloadPolicies, \* the download policies the run considers
          ServePolicies,    \* the serve policies the run considers
          Archived,         \* the [status, empty] an archived entry may have
          Upstream,         \* the [status, empty, error, more] of responses
          Blocked,          \* the URLs of blocked hosts
          MaxThreads        \* threads running the io_service once started

Origin == Url \cup Request
Entry == [from : Origin, status : {"ok", "moved", "failed"}, body : Origin \cup {None}]
Error == [from |-> None, status |-> "failed", body |-> None]
Response == [status : {"ok", "moved", "failed"}, empty : BOOLEAN, error : BOOLEAN,
             more : BOOLEAN]
NoConnection == [status |-> "failed", empty |-> TRUE, error |-> TRUE, more |-> FALSE]

ASSUME RequestAssumption ==
  /\ DownloadPolicies \subseteq {"standard", "always", "never"}
  /\ ServePolicies \subseteq {"latest", "last", "first"}
  /\ Archived \subseteq [status : {"ok", "moved", "failed"}, empty : BOOLEAN]
  /\ Upstream \subseteq Response
  /\ None \notin Url \cup File \cup Request
  /\ None \notin Entry \cup Response \cup {Error}
  /\ Url \cap Request = {}
  /\ Blocked \subseteq Url
  /\ MaxThreads \in Nat \ {0}

VARIABLES
  settings,   \* m_settings: download and serve policy
  fileOf,     \* to_local_filename
  reader,     \* m_header_reader: the entries of the input archive, or None
  pc,         \* where the handling of each request is
  url,        \* the URL requested
  resp,       \* the upstream response last received
  served,     \* history: the response sent first
  sends,      \* history: how often send_response was called
  started,    \* m_start_threads_callback was called: more threads run
  headerWriter, \* m_header_writer
  accepted, asked, answer, archive  \* m_archive_writer, see WriteOnceStore

Store == INSTANCE WriteOnceStore WITH Data <- Origin, Reader <- Request

rigid == <<settings, fileOf, reader>>
recording == <<headerWriter, accepted, asked, answer, archive>>
vars == <<settings, fileOf, reader, pc, url, resp, served, sends, started,
          headerWriter, accepted, asked, answer, archive>>

\* Bodies of the input archive: a file has at most one, however many URLs are
\* stored under its name.
ArchivedBody(f) ==
  LET owners == {u \in Url : fileOf[u] = f /\ reader[u] # None /\ reader[u].body # None}
  IN  IF owners = {} THEN None ELSE CHOOSE u \in owners : TRUE

TypeOK ==
  /\ settings \in [download : DownloadPolicies, serve : ServePolicies]
  /\ fileOf \in [Url -> File]
  /\ reader \in [Url -> Entry \cup {None}]
  /\ pc \in [Request -> {"new", "received", "lookup", "keeping", "connecting",
                         "connected", "answering", "recording", "queued",
                         "replaying", "done"}]
  /\ url \in [Request -> Url \cup {None}]
  /\ resp \in [Request -> Upstream \cup {NoConnection, None}]
  /\ served \in [Request -> Entry \cup {Error, None}]
  /\ sends \in [Request -> Nat]
  /\ started \in BOOLEAN
  /\ headerWriter \in [Url -> Entry \cup {None}]
  /\ accepted \in [File -> Origin \cup {None}]
  /\ asked \in [Request -> File \cup {None}]
  /\ answer \in [Request -> Origin \cup {None}]

ArchivedEntries(u) ==
  {[from |-> u, status |-> a.status, body |-> IF a.empty THEN None ELSE u] :
     a \in Archived} \cup {None}

Init ==
  /\ settings \in [download : DownloadPolicies, serve : ServePolicies]
  /\ fileOf \in [Url -> File]
  /\ reader \in {h \in [Url -> UNION {ArchivedEntries(u) : u \in Url}] :
       /\ \A u \in Url : h[u] \in ArchivedEntries(u)
       /\ \A u, v \in Url : /\ u # v
                            /\ fileOf[u] = fileOf[v]
                            /\ h[u] # None /\ h[v] # None
                            => h[u].body = None \/ h[v].body = None}
  /\ pc = [r \in Request |-> "new"]
  /\ url = [r \in Request |-> None]
  /\ resp = [r \in Request |-> None]
  /\ served = [r \in Request |-> None]
  /\ sends = [r \in Request |-> 0]
  /\ started = FALSE
  /\ headerWriter = [u \in Url |-> None]
  /\ Store!Init

-----------------------------------------------------------------------------
(* Threads.                                                                *)

\* A handler occupies a thread of the io_service while it runs.
Running == {r \in Request :
              pc[r] \in {"received", "lookup", "keeping", "answering", "recording"}}
ThreadFree == Cardinality(Running) < (IF started THEN MaxThreads ELSE 1)

-----------------------------------------------------------------------------
(* Sending a response.                                                     *)

Send(r, e) ==
  /\ sends' = [sends EXCEPT ![r] = @ + 1]
  /\ served' = [served EXCEPT ![r] = IF @ = None THEN e ELSE @]

ResponseSent(r) == sends[r] > 0

\* handle_initial_redirects: the first answer that is no redirect starts the
\* threads.
HandleInitialRedirects(e) == started' = (started \/ e.status # "moved")

\* Mutant of ServeFile: it does not ask whether a response was sent already.
ServeFile_Unchecked(r, e) == Send(r, e) /\ HandleInitialRedirects(e)

ServeFile(r, e) ==
  IF ResponseSent(r)
  THEN UNCHANGED <<served, sends, started>>
  ELSE Send(r, e) /\ HandleInitialRedirects(e)

\* serve_error does not ask whether a response was sent already.
ServeError(r) == Send(r, Error) /\ UNCHANGED started

\* serve_from_archive sends the header stored for the URL with the file
\* stored under its name.
FromArchive(u) == [reader[u] EXCEPT !.body = ArchivedBody(fileOf[u])]
ServeFromArchive(r) == ServeFile(r, FromArchive(url[r]))

Goto(r, step) == pc' = [pc EXCEPT ![r] = step]

-----------------------------------------------------------------------------
(* get_file_request_action                                                 *)

FileRequestAction(known, expired) ==
  LET policy == settings.serve
      cached == known /\ policy = "latest" /\ ~expired
      stale == known /\ policy = "last"
      first == known /\ policy = "first"
  IN  CASE settings.download = "standard" ->
             [serve |-> cached \/ stale \/ first,
              write |-> cached \/ (stale /\ ~expired),
              download |-> ~cached /\ ~first /\ (stale => expired)]
        [] settings.download = "always" ->
             [serve |-> stale \/ first,
              write |-> FALSE,
              download |-> ~first]
        [] settings.download = "never" ->
             [serve |-> known,
              write |-> known /\ ~first,
              download |-> FALSE]

-----------------------------------------------------------------------------
(* The handlers.                                                           *)

\* A request of the browser is read and handle_request is called.
Receive(r, u) ==
  /\ pc[r] = "new"
  /\ ThreadFree
  /\ url' = [url EXCEPT ![r] = u]
  /\ Goto(r, "received")
  /\ UNCHANGED <<rigid, resp, served, sends, started, recording>>

ServeBlocked(r) ==
  /\ pc[r] = "received"
  /\ url[r] \in Blocked
  /\ ServeError(r)
  /\ Goto(r, "done")
  /\ UNCHANGED <<rigid, url, resp, recording>>

Recorded(u) == accepted[fileOf[u]] # None /\ headerWriter[u] # None

\* serve_previously_served, holding m_write_mutex: the file was recorded in
\* this session, so it is read back from the archive being written ...
QueueReplay(r) ==
  /\ pc[r] = "received"
  /\ url[r] \notin Blocked
  /\ Recorded(url[r])
  /\ Store!Ask(r, fileOf[url[r]])
  /\ Goto(r, "queued")
  /\ UNCHANGED <<rigid, url, resp, served, sends, started, headerWriter>>

\* ... or it was not.
NotRecorded(r) ==
  /\ pc[r] = "received"
  /\ url[r] \notin Blocked
  /\ ~Recorded(url[r])
  /\ Goto(r, "lookup")
  /\ UNCHANGED <<rigid, url, resp, served, sends, started, recording>>

\* Mutant of ReadReplay: the file may be read before it was written.
ReadReplay_BeforeWrite(r) ==
  /\ pc[r] = "queued"
  /\ Store!Reply(r) \/ UNCHANGED <<accepted, asked, answer, archive>>
  /\ Goto(r, "replaying")
  /\ UNCHANGED <<rigid, url, resp, served, sends, started, headerWriter>>

\* The worker of the archive writer reads the file ...
ReadReplay(r) ==
  /\ pc[r] = "queued"
  /\ Store!Reply(r)
  /\ Goto(r, "replaying")
  /\ UNCHANGED <<rigid, url, resp, served, sends, started, headerWriter>>

\* ... and serves it with the header entry the request found when it was
\* queued, or what has become of that entry.
Replay(r) ==
  /\ pc[r] = "replaying"
  /\ ServeFile(r, [headerWriter[url[r]] EXCEPT !.body = answer[r]])
  /\ Goto(r, "done")
  /\ UNCHANGED <<rigid, url, resp, recording>>

\* The rest of handle_file_request.  Whether the archived entry has expired
\* depends on its header, the request's and the time (CacheInfo.cpp).
HandleFileRequest(r) ==
  /\ pc[r] = "lookup"
  /\ \E expired \in BOOLEAN :
       LET known == reader[url[r]] # None
           action == FileRequestAction(known, ~known \/ expired)
       IN  /\ IF action.serve THEN ServeFromArchive(r)
              ELSE IF action.download THEN UNCHANGED <<served, sends, started>>
              ELSE ServeError(r)
           /\ Goto(r, IF action.download THEN "connecting"
                      ELSE IF action.write THEN "keeping" ELSE "done")
  /\ UNCHANGED <<rigid, url, resp, recording>>

\* Client::request: the connection is established ...
Connect(r) ==
  /\ pc[r] = "connecting"
  /\ Goto(r, "connected")
  /\ UNCHANGED <<rigid, url, resp, served, sends, started, recording>>

\* ... or it is not, for which the request or refresh timeout provides;
ConnectFails(r) ==
  /\ pc[r] = "connecting"
  /\ ThreadFree
  /\ resp' = [resp EXCEPT ![r] = NoConnection]
  /\ Goto(r, "answering")
  /\ UNCHANGED <<rigid, url, served, sends, started, recording>>

\* then the upstream server responds, or the connection breaks.  An event
\* stream calls back once for each event and keeps its status.
Respond(r, a) ==
  /\ pc[r] = "connected"
  /\ ThreadFree
  /\ resp[r] # None => a.status = resp[r].status
  /\ resp' = [resp EXCEPT ![r] = a]
  /\ Goto(r, "answering")
  /\ UNCHANGED <<rigid, url, served, sends, started, recording>>

Good == {"ok", "moved"}   \* is_success or is_redirect
\* Mutant of EntryOf: the response is confused with its body.
EntryOf_Response(r) == [from |-> r, status |-> resp[r].status, body |-> resp[r]]

EntryOf(r) == [from |-> r, status |-> resp[r].status,
               body |-> IF resp[r].empty THEN None ELSE r]

\* Mutant of AnswerFromArchive: redirects are treated as failures.
AnswerFromArchive_Redirects(r) ==
  /\ pc[r] = "answering"
  /\ resp[r].status # "ok"
  /\ reader[url[r]] # None
  /\ ServeFromArchive(r)
  /\ Goto(r, "keeping")
  /\ UNCHANGED <<rigid, url, resp, recording>>

\* handle_response: a failure is answered from the archive, ...
AnswerFromArchive(r) ==
  /\ pc[r] = "answering"
  /\ resp[r].status \notin Good
  /\ reader[url[r]] # None
  /\ ServeFromArchive(r)
  /\ Goto(r, "keeping")
  /\ UNCHANGED <<rigid, url, resp, recording>>

\* Mutant of AnswerError: it returns without sending a response.
AnswerError_Silent(r) ==
  /\ pc[r] = "answering"
  /\ resp[r].status \in Good \/ reader[url[r]] = None
  /\ resp[r].error
  /\ Goto(r, "done")
  /\ UNCHANGED <<rigid, url, resp, served, sends, started, recording>>

\* ... or with an error when there is no archived entry or the response is
\* incomplete; ...
AnswerError(r) ==
  /\ pc[r] = "answering"
  /\ resp[r].status \in Good \/ reader[url[r]] = None
  /\ resp[r].error
  /\ ServeError(r)
  /\ Goto(r, "done")
  /\ UNCHANGED <<rigid, url, resp, recording>>

\* Mutant of AnswerResponse: an error page is served and recorded although the
\* page is archived.
AnswerResponse_Failure(r) ==
  /\ pc[r] = "answering"
  /\ ~resp[r].error
  /\ ServeFile(r, EntryOf(r))
  /\ Goto(r, "recording")
  /\ UNCHANGED <<rigid, url, resp, recording>>

\* ... any other response is served and then recorded.
AnswerResponse(r) ==
  /\ pc[r] = "answering"
  /\ resp[r].status \in Good \/ reader[url[r]] = None
  /\ ~resp[r].error
  /\ ServeFile(r, EntryOf(r))
  /\ Goto(r, "recording")
  /\ UNCHANGED <<rigid, url, resp, recording>>

\* Mutant of AsyncWriteFile: the header is written before the archive writer is
\* asked whether it has the file.
AsyncWriteFile_HeaderFirst(u, e) ==
  /\ headerWriter' = [headerWriter EXCEPT ![u] = e]
  /\ IF e.body = None \/ accepted[fileOf[u]] # None
     THEN UNCHANGED <<accepted, asked, answer, archive>>
     ELSE Store!Accept(fileOf[u], e.body)

\* async_write_file, holding m_write_mutex: a file that is in the archive is
\* left alone, and a response without body leaves only its header.
AsyncWriteFile(u, e) ==
  IF accepted[fileOf[u]] # None
  THEN UNCHANGED recording
  ELSE /\ headerWriter' = [headerWriter EXCEPT ![u] = e]
       /\ IF e.body = None
          THEN UNCHANGED <<accepted, asked, answer, archive>>
          ELSE Store!Accept(fileOf[u], e.body)

\* An event stream that is open calls back again.
Ended(r) == resp[r] # None => ~resp[r].more
AfterResponse(r) == Goto(r, IF Ended(r) THEN "done" ELSE "connected")

\* The archived entry that was served is kept in the new archive.
Keep(r) ==
  /\ pc[r] = "keeping"
  /\ AsyncWriteFile(url[r], FromArchive(url[r]))
  /\ AfterResponse(r)
  /\ UNCHANGED <<rigid, url, resp, served, sends, started>>

Record(r) ==
  /\ pc[r] = "recording"
  /\ AsyncWriteFile(url[r], EntryOf(r))
  /\ AfterResponse(r)
  /\ UNCHANGED <<rigid, url, resp, served, sends, started>>

\* What a thread does for a request without waiting for anyone.
Handler(r) ==
  \/ ServeBlocked(r) \/ QueueReplay(r) \/ NotRecorded(r)
  \/ HandleFileRequest(r)
  \/ AnswerFromArchive(r) \/ AnswerError(r) \/ AnswerResponse(r)
  \/ Keep(r) \/ Record(r)

Worker(r) == ReadReplay(r) \/ Replay(r)

Terminated == (\A r \in Request : pc[r] = "done") /\ UNCHANGED vars

Next ==
  \/ \E r \in Request :
       \/ \E u \in Url : Receive(r, u)
       \/ Handler(r)
       \/ Worker(r)
       \/ Connect(r)
       \/ ConnectFails(r)
       \/ \E a \in Upstream : Respond(r, a)
  \/ Terminated

Spec == Init /\ [][Next]_vars

\* Threads run on, and the timeout bounds the time to connect.  Nothing in
\* the code bounds the time an upstream server takes once it is connected.
Fairness == \A r \in Request : /\ WF_vars(Handler(r))
                               /\ WF_vars(Worker(r))
                               /\ WF_vars(Connect(r) \/ ConnectFails(r))
FairSpec == Spec /\ Fairness

-----------------------------------------------------------------------------
(* Properties.                                                             *)

\* A header entry that was recorded with a body always goes with that very
\* body: whichever handlers raced, and whichever URLs share a file name, the
\* archive never pairs the header of one response with the body of another.
RecordedPairing ==
  \A u \in Url : headerWriter[u] # None /\ headerWriter[u].body # None
                 => accepted[fileOf[u]] = headerWriter[u].body

\* While every URL has a file name of its own, no request is ever answered
\* with a header and a body that do not belong together or to its URL.
AnswersArePaired ==
  (\A u, v \in Url : u # v => fileOf[u] # fileOf[v]) =>
    \A r \in Request : served[r] \notin {None, Error} =>
      /\ served[r].body \in {None, served[r].from}
      /\ served[r].from = url[r] \/ url[served[r].from] = url[r]

\* Requests of one URL that are answered from this session's recording all
\* get the same answer.
ReplaysAgree ==
  \A q, r \in Request :
    asked[q] # None /\ asked[r] # None /\ url[q] = url[r]
      /\ served[q] # None /\ served[r] # None => served[q] = served[r]

\* An archived page is never replaced by an error page: what is recorded for
\* it is the archived entry or a success or redirect from upstream.
PageNotReplacedByFailure ==
  \A u \in Url : reader[u] # None /\ headerWriter[u] # None =>
    headerWriter[u].from = u \/ headerWriter[u].status \in Good

\* Unless the serve policy asks for archived pages, a complete response that
\* was waited for is what the browser gets, even when another request has
\* recorded the page in the meantime.
FreshIsServed ==
  settings.serve # "last" =>
    \A r \in Request :
      resp[r] # None /\ served[r] # None /\ resp[r].status \in Good /\ ~resp[r].error
        => served[r].from = r

\* assert(!response_sent()) in Server.cpp:145: nothing is sent twice.
AnsweredOnce == \A r \in Request : sends[r] <= 1

\* The entry a queued replay holds a pointer to (serve_previously_served)
\* is read by the worker thread without a lock: no step changes it.
EntryFrozen ==
  [][\A r \in Request : pc[r] \in {"queued", "replaying"} =>
       headerWriter'[url[r]] = headerWriter[url[r]]]_vars

\* Every request, and every response that arrived, is answered unless an
\* upstream server to which a connection was established remains silent.
AnsweredUnlessSilent ==
  \A r \in Request :
    (pc[r] \in {"received", "answering"}) ~> (served[r] # None \/ pc[r] = "connected")
=============================================================================

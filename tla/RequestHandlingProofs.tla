------------------------- MODULE RequestHandlingProofs -------------------------
(***************************************************************************)
(* Theorems about RequestHandling for any number of requests, URLs, file   *)
(* names and threads, and any set of policies and upstream responses.      *)
(***************************************************************************)
EXTENDS RequestHandling, TLAPS

-----------------------------------------------------------------------------
(* The inductive invariant.                                                *)

\* A request has a URL from the moment it is received, and nothing has
\* happened to it before it was decided how to handle it.
Begun ==
  \A r \in Request :
    /\ pc[r] # "new" => url[r] \in Url
    /\ pc[r] \in {"new", "received", "lookup"} =>
         served[r] = None /\ asked[r] = None /\ answer[r] = None

\* A response is handled after it has arrived, and only what is archived is kept.
Arrived ==
  \A r \in Request :
    /\ pc[r] \in {"answering", "recording"} => resp[r] \in Upstream \cup {NoConnection}
    /\ pc[r] = "keeping" => reader[url[r]] # None

\* The answer to a request for a page this session has recorded.
Recording(u) == [headerWriter[u] EXCEPT !.body = accepted[fileOf[u]]]

\* A request that was queued to be replayed goes no other way; its header entry
\* and its file are there, and what it is answered with is made of these two.
Replayed ==
  \A r \in Request :
    /\ pc[r] \in {"queued", "replaying"} => asked[r] # None
    /\ pc[r] = "replaying" => answer[r] # None
    /\ asked[r] # None =>
         /\ pc[r] \in {"queued", "replaying", "done"}
         /\ url[r] \in Url
         /\ asked[r] = fileOf[url[r]]
         /\ headerWriter[url[r]] # None
         /\ accepted[fileOf[url[r]]] # None
         /\ answer[r] # None => answer[r] = accepted[fileOf[url[r]]]
         /\ served[r] # None => served[r] = Recording(url[r])

Invariant == /\ TypeOK
             /\ archive = None
             /\ Begun
             /\ Arrived
             /\ Replayed
             /\ RecordedPairing

-----------------------------------------------------------------------------
(* What the parts of a handler do to the types.                            *)

Pc == {"new", "received", "lookup", "keeping", "connecting", "connected",
       "answering", "recording", "queued", "replaying", "done"}

\* Sending counts the response and remembers the first one.
LEMMA SendType ==
  ASSUME TypeOK, NEW r \in Request, NEW e \in Entry \cup {Error}, Send(r, e)
  PROVE  /\ sends' \in [Request -> Nat]
         /\ served' \in [Request -> Entry \cup {Error, None}]
BY DEF TypeOK, Send

\* So does serve_file, if nothing was sent before.
LEMMA ServeFileType ==
  ASSUME TypeOK, NEW r \in Request, NEW e \in Entry, ServeFile(r, e)
  PROVE  /\ sends' \in [Request -> Nat]
         /\ served' \in [Request -> Entry \cup {Error, None}]
         /\ started' \in BOOLEAN
<1>1. CASE ResponseSent(r)
  BY <1>1 DEF TypeOK, ServeFile
<1>2. CASE ~ResponseSent(r)
  <2>1. Send(r, e) /\ started' \in BOOLEAN
    BY <1>2 DEF TypeOK, ServeFile, HandleInitialRedirects
  <2> QED BY <2>1, SendType
<1> QED BY <1>1, <1>2

\* A body of the archive belongs to one of the URLs with its file name.
LEMMA ArchivedBodyType ==
  ASSUME TypeOK, NEW f
  PROVE  ArchivedBody(f) \in Origin \cup {None}
BY DEF ArchivedBody, Origin

\* What is served from the archive is an entry.
LEMMA FromArchiveType ==
  ASSUME TypeOK, NEW u \in Url, reader[u] # None
  PROVE  FromArchive(u) \in Entry
<1>1. reader[u] \in Entry
  BY DEF TypeOK
<1>2. ArchivedBody(fileOf[u]) \in Origin \cup {None}
  BY ArchivedBodyType
<1> QED BY <1>1, <1>2 DEF FromArchive, Entry

\* What is made of a response is an entry.
LEMMA EntryOfType ==
  ASSUME NEW r \in Request, resp[r] \in Upstream \cup {NoConnection}
  PROVE  EntryOf(r) \in Entry
<1>1. resp[r].status \in {"ok", "moved", "failed"}
  BY RequestAssumption DEF Response, NoConnection
<1> QED BY <1>1 DEF EntryOf, Entry, Origin

\* async_write_file records entries and bodies, and reads nothing.
LEMMA AsyncWriteFileType ==
  ASSUME TypeOK, NEW u \in Url, NEW e \in Entry, AsyncWriteFile(u, e)
  PROVE  /\ headerWriter' \in [Url -> Entry \cup {None}]
         /\ accepted' \in [File -> Origin \cup {None}]
         /\ UNCHANGED <<asked, answer, archive>>
<1>1. e.body \in Origin \cup {None}
  BY DEF Entry
<1> QED BY <1>1 DEF TypeOK, AsyncWriteFile, Store!Accept, recording

-----------------------------------------------------------------------------
(* Type correctness of each step.                                          *)

\* Every step keeps the types, given the rest of the invariant.
LEMMA TypeStep == Invariant /\ [Next]_vars => TypeOK'
<1> SUFFICES ASSUME Invariant, [Next]_vars PROVE TypeOK'
  OBVIOUS
<1>t. TypeOK /\ Begun /\ Arrived /\ Replayed
  BY DEF Invariant
<1>r. ASSUME NEW r \in Request, NEW step \in Pc, Goto(r, step)
      PROVE  pc' \in [Request -> Pc]
  BY <1>t, <1>r DEF TypeOK, Goto, Pc
<1>1. ASSUME NEW r \in Request, NEW u \in Url, Receive(r, u) PROVE TypeOK'
  <2>1. pc' \in [Request -> Pc]
    BY <1>1, <1>r DEF Receive, Pc
  <2> QED BY <1>1, <1>t, <2>1 DEF Receive, TypeOK, Pc, rigid, recording
<1>2. ASSUME NEW r \in Request, ServeBlocked(r) PROVE TypeOK'
  <2>1. pc' \in [Request -> Pc]
    BY <1>2, <1>r DEF ServeBlocked, Pc
  <2>2. Send(r, Error)
    BY <1>2 DEF ServeBlocked, ServeError
  <2>3. sends' \in [Request -> Nat] /\ served' \in [Request -> Entry \cup {Error, None}]
    BY <1>t, <2>2, SendType
  <2> QED
    BY <1>2, <1>t, <2>1, <2>3
    DEF ServeBlocked, ServeError, TypeOK, Pc, rigid, recording
<1>3. ASSUME NEW r \in Request, QueueReplay(r) PROVE TypeOK'
  <2>1. pc' \in [Request -> Pc]
    BY <1>3, <1>r DEF QueueReplay, Pc
  <2>2. fileOf[url[r]] \in File
    BY <1>3, <1>t DEF QueueReplay, TypeOK, Begun
  <2>3. /\ asked' = [asked EXCEPT ![r] = fileOf[url[r]]]
        /\ UNCHANGED <<accepted, answer, archive>>
    BY <1>3 DEF QueueReplay, Store!Ask
  <2> QED BY <1>3, <1>t, <2>1, <2>2, <2>3 DEF QueueReplay, TypeOK, Pc, rigid
<1>4. ASSUME NEW r \in Request, NotRecorded(r) PROVE TypeOK'
  <2>1. pc' \in [Request -> Pc]
    BY <1>4, <1>r DEF NotRecorded, Pc
  <2> QED BY <1>4, <1>t, <2>1 DEF NotRecorded, TypeOK, Pc, rigid, recording
<1>5. ASSUME NEW r \in Request, ReadReplay(r) PROVE TypeOK'
  <2>1. pc' \in [Request -> Pc]
    BY <1>5, <1>r DEF ReadReplay, Pc
  <2>2. asked[r] \in File
    BY <1>5, <1>t DEF ReadReplay, TypeOK, Replayed
  <2>3. /\ answer' = [answer EXCEPT ![r] = accepted[asked[r]]]
        /\ UNCHANGED <<accepted, asked, archive>>
    BY <1>5 DEF ReadReplay, Store!Reply
  <2>4. answer' \in [Request -> Origin \cup {None}]
    BY <1>t, <2>2, <2>3 DEF TypeOK
  <2> QED BY <1>5, <1>t, <2>1, <2>3, <2>4 DEF ReadReplay, TypeOK, Pc, rigid
<1>6. ASSUME NEW r \in Request, Replay(r) PROVE TypeOK'
  <2>1. pc' \in [Request -> Pc]
    BY <1>6, <1>r DEF Replay, Pc
  <2>2. url[r] \in Url /\ headerWriter[url[r]] # None
    BY <1>6, <1>t DEF Replay, Replayed
  <2>3. headerWriter[url[r]] \in Entry /\ answer[r] \in Origin \cup {None}
    BY <1>t, <2>2 DEF TypeOK
  <2>4. [headerWriter[url[r]] EXCEPT !.body = answer[r]] \in Entry
    BY <2>3 DEF Entry
  <2>5. /\ sends' \in [Request -> Nat]
        /\ served' \in [Request -> Entry \cup {Error, None}]
        /\ started' \in BOOLEAN
    BY <1>6, <1>t, <2>4, ServeFileType DEF Replay
  <2> QED BY <1>6, <1>t, <2>1, <2>5 DEF Replay, TypeOK, Pc, rigid, recording
<1>7. ASSUME NEW r \in Request, HandleFileRequest(r) PROVE TypeOK'
  <2>1. PICK expired \in BOOLEAN :
          LET known == reader[url[r]] # None
              action == FileRequestAction(known, ~known \/ expired)
          IN  /\ IF action.serve THEN ServeFromArchive(r)
                 ELSE IF action.download THEN UNCHANGED <<served, sends, started>>
                 ELSE ServeError(r)
              /\ Goto(r, IF action.download THEN "connecting"
                         ELSE IF action.write THEN "keeping" ELSE "done")
    BY <1>7 DEF HandleFileRequest
  <2> DEFINE known == reader[url[r]] # None
             action == FileRequestAction(known, ~known \/ expired)
  <2>2. pc' \in [Request -> Pc]
    BY <2>1, <1>r DEF Pc
  <2>3. url[r] \in Url
    BY <1>7, <1>t DEF HandleFileRequest, Begun
  <2>4. action.serve => known
    BY <1>t, RequestAssumption DEF TypeOK, FileRequestAction
  <2>5. CASE action.serve
    <3>1. FromArchive(url[r]) \in Entry
      BY <1>t, <2>3, <2>4, <2>5, FromArchiveType
    <3>2. ServeFile(r, FromArchive(url[r]))
      BY <2>1, <2>5 DEF ServeFromArchive
    <3>3. /\ sends' \in [Request -> Nat]
          /\ served' \in [Request -> Entry \cup {Error, None}]
          /\ started' \in BOOLEAN
      BY <1>t, <3>1, <3>2, ServeFileType
    <3> QED BY <1>7, <1>t, <2>2, <3>3 DEF HandleFileRequest, TypeOK, Pc, rigid, recording
  <2>6. CASE ~action.serve /\ action.download
    <3>1. UNCHANGED <<served, sends, started>>
      BY <2>1, <2>6
    <3> QED BY <1>7, <1>t, <2>2, <3>1 DEF HandleFileRequest, TypeOK, Pc, rigid, recording
  <2>7. CASE ~action.serve /\ ~action.download
    <3>1. Send(r, Error) /\ UNCHANGED started
      BY <2>1, <2>7 DEF ServeError
    <3>2. sends' \in [Request -> Nat] /\ served' \in [Request -> Entry \cup {Error, None}]
      BY <1>t, <3>1, SendType
    <3> QED
      BY <1>7, <1>t, <2>2, <3>1, <3>2
      DEF HandleFileRequest, TypeOK, Pc, rigid, recording
  <2> QED BY <2>5, <2>6, <2>7
<1>8. ASSUME NEW r \in Request, Connect(r) PROVE TypeOK'
  <2>1. pc' \in [Request -> Pc]
    BY <1>8, <1>r DEF Connect, Pc
  <2> QED BY <1>8, <1>t, <2>1 DEF Connect, TypeOK, Pc, rigid, recording
<1>9. ASSUME NEW r \in Request, ConnectFails(r) PROVE TypeOK'
  <2>1. pc' \in [Request -> Pc]
    BY <1>9, <1>r DEF ConnectFails, Pc
  <2> QED BY <1>9, <1>t, <2>1 DEF ConnectFails, TypeOK, Pc, rigid, recording
<1>10. ASSUME NEW r \in Request, NEW a \in Upstream, Respond(r, a) PROVE TypeOK'
  <2>1. pc' \in [Request -> Pc]
    BY <1>10, <1>r DEF Respond, Pc
  <2> QED BY <1>10, <1>t, <2>1 DEF Respond, TypeOK, Pc, rigid, recording
<1>11. ASSUME NEW r \in Request, AnswerFromArchive(r) PROVE TypeOK'
  <2>1. pc' \in [Request -> Pc]
    BY <1>11, <1>r DEF AnswerFromArchive, Pc
  <2>2. FromArchive(url[r]) \in Entry
    BY <1>11, <1>t, FromArchiveType DEF AnswerFromArchive, Begun
  <2>3. /\ sends' \in [Request -> Nat]
        /\ served' \in [Request -> Entry \cup {Error, None}]
        /\ started' \in BOOLEAN
    BY <1>11, <1>t, <2>2, ServeFileType DEF AnswerFromArchive, ServeFromArchive
  <2> QED BY <1>11, <1>t, <2>1, <2>3 DEF AnswerFromArchive, TypeOK, Pc, rigid, recording
<1>12. ASSUME NEW r \in Request, AnswerError(r) PROVE TypeOK'
  <2>1. pc' \in [Request -> Pc]
    BY <1>12, <1>r DEF AnswerError, Pc
  <2>2. Send(r, Error) /\ UNCHANGED started
    BY <1>12 DEF AnswerError, ServeError
  <2>3. sends' \in [Request -> Nat] /\ served' \in [Request -> Entry \cup {Error, None}]
    BY <1>t, <2>2, SendType
  <2> QED BY <1>12, <1>t, <2>1, <2>2, <2>3 DEF AnswerError, TypeOK, Pc, rigid, recording
<1>13. ASSUME NEW r \in Request, AnswerResponse(r) PROVE TypeOK'
  <2>1. pc' \in [Request -> Pc]
    BY <1>13, <1>r DEF AnswerResponse, Pc
  <2>2. EntryOf(r) \in Entry
    BY <1>13, <1>t, EntryOfType DEF AnswerResponse, Arrived
  <2>3. /\ sends' \in [Request -> Nat]
        /\ served' \in [Request -> Entry \cup {Error, None}]
        /\ started' \in BOOLEAN
    BY <1>13, <1>t, <2>2, ServeFileType DEF AnswerResponse
  <2> QED BY <1>13, <1>t, <2>1, <2>3 DEF AnswerResponse, TypeOK, Pc, rigid, recording
<1>14. ASSUME NEW r \in Request, Keep(r) PROVE TypeOK'
  <2>1. pc' \in [Request -> Pc]
    BY <1>14, <1>r DEF Keep, AfterResponse, Pc
  <2>2. url[r] \in Url /\ FromArchive(url[r]) \in Entry
    BY <1>14, <1>t, FromArchiveType DEF Keep, Begun, Arrived
  <2>3. /\ headerWriter' \in [Url -> Entry \cup {None}]
        /\ accepted' \in [File -> Origin \cup {None}]
        /\ UNCHANGED <<asked, answer, archive>>
    BY <1>14, <1>t, <2>2, AsyncWriteFileType DEF Keep
  <2> QED BY <1>14, <1>t, <2>1, <2>3 DEF Keep, TypeOK, Pc, rigid
<1>15. ASSUME NEW r \in Request, Record(r) PROVE TypeOK'
  <2>1. pc' \in [Request -> Pc]
    BY <1>15, <1>r DEF Record, AfterResponse, Pc
  <2>2. url[r] \in Url /\ EntryOf(r) \in Entry
    BY <1>15, <1>t, EntryOfType DEF Record, Begun, Arrived
  <2>3. /\ headerWriter' \in [Url -> Entry \cup {None}]
        /\ accepted' \in [File -> Origin \cup {None}]
        /\ UNCHANGED <<asked, answer, archive>>
    BY <1>15, <1>t, <2>2, AsyncWriteFileType DEF Record
  <2> QED BY <1>15, <1>t, <2>1, <2>3 DEF Record, TypeOK, Pc, rigid
<1>16. CASE UNCHANGED vars
  BY <1>16, <1>t DEF TypeOK, vars
<1> QED
  BY <1>1, <1>2, <1>3, <1>4, <1>5, <1>6, <1>7, <1>8, <1>9, <1>10, <1>11, <1>12, <1>13,
     <1>14, <1>15, <1>16
  DEF Next, Terminated, Handler, Worker

-----------------------------------------------------------------------------
(* The other parts of the invariant.                                       *)

\* Sending leaves the responses of all other requests alone.
LEMMA ServedOfOthers ==
  ASSUME NEW r \in Request, NEW e, TypeOK, Send(r, e) \/ ServeFile(r, e),
         NEW q \in Request, q # r
  PROVE  served'[q] = served[q]
BY DEF TypeOK, Send, ServeFile

\* Only sending changes what is served, and only a handler sends.
LEMMA BegunStep == Invariant /\ [Next]_vars => Begun'
<1> SUFFICES ASSUME Invariant, [Next]_vars PROVE Begun'
  OBVIOUS
<1>t. TypeOK /\ Begun /\ Replayed
  BY DEF Invariant
<1>s. ASSUME NEW r \in Request, pc[r] # "new",
             \E step \in Pc \ {"new", "received", "lookup"} : Goto(r, step),
             UNCHANGED <<url, asked, answer>>,
             \A q \in Request : q # r => served'[q] = served[q]
      PROVE  Begun'
  BY <1>t, <1>s DEF TypeOK, Begun, Goto
<1>1. ASSUME NEW r \in Request, NEW u \in Url, Receive(r, u) PROVE Begun'
  BY <1>1, <1>t DEF Receive, TypeOK, Begun, Goto, recording
<1>2. ASSUME NEW r \in Request, ServeBlocked(r) PROVE Begun'
  <2>1. \A q \in Request : q # r => served'[q] = served[q]
    BY <1>2, <1>t, ServedOfOthers DEF ServeBlocked, ServeError
  <2> QED BY <1>2, <2>1, <1>s DEF ServeBlocked, Pc, recording
<1>3. ASSUME NEW r \in Request, QueueReplay(r) PROVE Begun'
  <2>1. /\ asked' = [asked EXCEPT ![r] = fileOf[url[r]]]
        /\ UNCHANGED answer
    BY <1>3 DEF QueueReplay, Store!Ask
  <2> QED BY <1>3, <1>t, <2>1 DEF QueueReplay, TypeOK, Begun, Goto
<1>4. ASSUME NEW r \in Request, NotRecorded(r) PROVE Begun'
  BY <1>4, <1>t DEF NotRecorded, TypeOK, Begun, Goto, recording
<1>5. ASSUME NEW r \in Request, ReadReplay(r) PROVE Begun'
  <2>1. /\ answer' = [answer EXCEPT ![r] = accepted[asked[r]]]
        /\ UNCHANGED asked
    BY <1>5 DEF ReadReplay, Store!Reply
  <2> QED BY <1>5, <1>t, <2>1 DEF ReadReplay, TypeOK, Begun, Goto
<1>6. ASSUME NEW r \in Request, Replay(r) PROVE Begun'
  <2>1. \A q \in Request : q # r => served'[q] = served[q]
    BY <1>6, <1>t, ServedOfOthers DEF Replay
  <2> QED BY <1>6, <2>1, <1>s DEF Replay, Pc, recording
<1>7. ASSUME NEW r \in Request, HandleFileRequest(r) PROVE Begun'
  <2>1. \E step \in Pc \ {"new", "received", "lookup"} : Goto(r, step)
    BY <1>7 DEF HandleFileRequest, Pc
  <2>2. \/ ServeFromArchive(r)
        \/ UNCHANGED <<served, sends, started>>
        \/ ServeError(r)
    BY <1>7 DEF HandleFileRequest
  <2>3. \A q \in Request : q # r => served'[q] = served[q]
    BY <1>t, <2>2, ServedOfOthers DEF ServeFromArchive, ServeError
  <2> QED BY <1>7, <2>1, <2>3, <1>s DEF HandleFileRequest, recording
<1>8. ASSUME NEW r \in Request, Connect(r) PROVE Begun'
  BY <1>8, <1>s DEF Connect, Pc, recording
<1>9. ASSUME NEW r \in Request, ConnectFails(r) PROVE Begun'
  BY <1>9, <1>s DEF ConnectFails, Pc, recording
<1>10. ASSUME NEW r \in Request, NEW a \in Upstream, Respond(r, a) PROVE Begun'
  BY <1>10, <1>s DEF Respond, Pc, recording
<1>11. ASSUME NEW r \in Request,
              AnswerFromArchive(r) \/ AnswerError(r) \/ AnswerResponse(r)
       PROVE  Begun'
  <2>1. \A q \in Request : q # r => served'[q] = served[q]
    BY <1>11, <1>t, ServedOfOthers
    DEF AnswerFromArchive, AnswerError, AnswerResponse, ServeFromArchive, ServeError
  <2> QED
    BY <1>11, <2>1, <1>s DEF AnswerFromArchive, AnswerError, AnswerResponse, Pc, recording
<1>12. ASSUME NEW r \in Request, NEW u, NEW e, AsyncWriteFile(u, e)
       PROVE  UNCHANGED <<asked, answer, archive>>
  BY <1>12 DEF AsyncWriteFile, Store!Accept, recording
<1>13. ASSUME NEW r \in Request, Keep(r) \/ Record(r) PROVE Begun'
  BY <1>12, <1>13, <1>s DEF Keep, Record, AfterResponse, Pc
<1>14. CASE UNCHANGED vars
  BY <1>14, <1>t DEF Begun, vars
<1> QED
  BY <1>1, <1>2, <1>3, <1>4, <1>5, <1>6, <1>7, <1>8, <1>9, <1>10, <1>11, <1>13, <1>14
  DEF Next, Terminated, Handler, Worker

\* Responses are handled only after they arrived, and get_file_request_action
\* asks only for archived pages to be kept.
LEMMA ArrivedStep == Invariant /\ [Next]_vars => Arrived'
<1> SUFFICES ASSUME Invariant, [Next]_vars PROVE Arrived'
  OBVIOUS
<1>t. TypeOK /\ Begun /\ Arrived
  BY DEF Invariant
<1>s. ASSUME NEW r \in Request, UNCHANGED <<reader, resp>>, url' = url,
             \E step \in Pc \ {"answering", "recording", "keeping"} : Goto(r, step)
      PROVE  Arrived'
  BY <1>t, <1>s DEF TypeOK, Arrived, Goto
<1>1. ASSUME NEW r \in Request, NEW u \in Url, Receive(r, u) PROVE Arrived'
  BY <1>1, <1>t DEF Receive, TypeOK, Arrived, Goto, rigid
<1>2. ASSUME NEW r \in Request,
             \/ ServeBlocked(r) \/ QueueReplay(r) \/ NotRecorded(r) \/ ReadReplay(r)
             \/ Replay(r) \/ Connect(r) \/ AnswerError(r)
      PROVE  Arrived'
  BY <1>2, <1>s
  DEF ServeBlocked, QueueReplay, NotRecorded, ReadReplay, Replay, Connect, AnswerError,
      rigid, Pc
<1>3. ASSUME NEW r \in Request, HandleFileRequest(r) PROVE Arrived'
  <2>1. PICK expired \in BOOLEAN :
          LET known == reader[url[r]] # None
              action == FileRequestAction(known, ~known \/ expired)
          IN  Goto(r, IF action.download THEN "connecting"
                      ELSE IF action.write THEN "keeping" ELSE "done")
    BY <1>3 DEF HandleFileRequest
  <2> DEFINE known == reader[url[r]] # None
             action == FileRequestAction(known, ~known \/ expired)
  <2>2. action.write => known
    BY <1>t, RequestAssumption DEF TypeOK, FileRequestAction
  <2>3. UNCHANGED <<reader, url, resp>>
    BY <1>3 DEF HandleFileRequest, rigid
  <2>4. CASE ~action.download /\ action.write
    <3>1. Goto(r, "keeping") /\ known
      BY <2>1, <2>2, <2>4
    <3> QED BY <1>t, <2>3, <3>1 DEF TypeOK, Arrived, Goto
  <2>5. CASE action.download \/ ~action.write
    <3>1. \E step \in Pc \ {"answering", "recording", "keeping"} : Goto(r, step)
      BY <2>1, <2>5 DEF Pc
    <3> QED BY <2>3, <3>1, <1>s
  <2> QED BY <2>4, <2>5
<1>4. ASSUME NEW r \in Request, ConnectFails(r) PROVE Arrived'
  BY <1>4, <1>t DEF ConnectFails, TypeOK, Arrived, Goto, rigid
<1>5. ASSUME NEW r \in Request, NEW a \in Upstream, Respond(r, a) PROVE Arrived'
  BY <1>5, <1>t DEF Respond, TypeOK, Arrived, Goto, rigid
<1>6. ASSUME NEW r \in Request, AnswerFromArchive(r) \/ AnswerResponse(r) PROVE Arrived'
  BY <1>6, <1>t DEF AnswerFromArchive, AnswerResponse, TypeOK, Arrived, Goto, rigid
<1>7. ASSUME NEW r \in Request, Keep(r) \/ Record(r) PROVE Arrived'
  BY <1>7, <1>s DEF Keep, Record, AfterResponse, rigid, Pc
<1>8. CASE UNCHANGED vars
  BY <1>8, <1>t DEF Arrived, vars
<1> QED
  BY <1>1, <1>2, <1>3, <1>4, <1>5, <1>6, <1>7, <1>8 DEF Next, Terminated, Handler, Worker

\* async_write_file leaves a page alone whose file is in the archive.
LEMMA RecordedFrozen ==
  ASSUME TypeOK, NEW u \in Url, NEW e, AsyncWriteFile(u, e),
         NEW v \in Url, accepted[fileOf[v]] # None
  PROVE  /\ headerWriter'[v] = headerWriter[v]
         /\ accepted'[fileOf[v]] = accepted[fileOf[v]]
<1>1. CASE accepted[fileOf[u]] # None
  BY <1>1 DEF AsyncWriteFile, recording
<1>2. CASE accepted[fileOf[u]] = None
  <2>1. u # v /\ fileOf[u] # fileOf[v]
    BY <1>2
  <2>2. headerWriter' = [headerWriter EXCEPT ![u] = e]
    BY <1>2 DEF AsyncWriteFile
  <2>3. \/ accepted' = accepted
        \/ accepted' = [accepted EXCEPT ![fileOf[u]] = e.body]
    BY <1>2 DEF AsyncWriteFile, Store!Accept
  <2> QED BY <2>1, <2>2, <2>3 DEF TypeOK
<1> QED BY <1>1, <1>2

\* Once a page is recorded, queued replays find what they will be answered with.
LEMMA ReplayedStep == Invariant /\ [Next]_vars => Replayed'
<1> SUFFICES ASSUME Invariant, [Next]_vars PROVE Replayed'
  OBVIOUS
<1>t. TypeOK /\ Begun /\ Arrived /\ Replayed
  BY DEF Invariant
<1>s. ASSUME NEW r \in Request, pc[r] \notin {"queued", "replaying", "done"},
             \E step \in Pc \ {"queued", "replaying"} : Goto(r, step),
             \A q \in Request : q # r => url'[q] = url[q] /\ served'[q] = served[q],
             UNCHANGED <<fileOf, asked, answer>>,
             \A v \in Url : accepted[fileOf[v]] # None =>
               /\ headerWriter'[v] = headerWriter[v]
               /\ accepted'[fileOf[v]] = accepted[fileOf[v]]
      PROVE  Replayed'
  <2> SUFFICES ASSUME NEW q \in Request
               PROVE  /\ pc'[q] \in {"queued", "replaying"} => asked'[q] # None
                      /\ pc'[q] = "replaying" => answer'[q] # None
                      /\ asked'[q] # None =>
                           /\ pc'[q] \in {"queued", "replaying", "done"}
                           /\ url'[q] \in Url
                           /\ asked'[q] = fileOf'[url'[q]]
                           /\ headerWriter'[url'[q]] # None
                           /\ accepted'[fileOf'[url'[q]]] # None
                           /\ answer'[q] # None => answer'[q] = accepted'[fileOf'[url'[q]]]
                           /\ served'[q] # None => served'[q] = Recording(url[q])'
    BY DEF Replayed, Recording
  <2>1. CASE q = r
    BY <1>s, <1>t, <2>1 DEF Replayed, TypeOK, Goto
  <2>2. CASE q # r
    <3>1. pc'[q] = pc[q] /\ url'[q] = url[q] /\ served'[q] = served[q]
      BY <1>s, <1>t, <2>2 DEF TypeOK, Goto
    <3>2. CASE asked[q] = None
      BY <1>s, <1>t, <3>1, <3>2 DEF Replayed
    <3>3. CASE asked[q] # None
      <4>1. url[q] \in Url /\ accepted[fileOf[url[q]]] # None
        BY <1>t, <3>3 DEF Replayed
      <4>2. /\ headerWriter'[url[q]] = headerWriter[url[q]]
            /\ accepted'[fileOf[url[q]]] = accepted[fileOf[url[q]]]
        BY <1>s, <4>1
      <4>3. Recording(url[q])' = Recording(url[q])
        BY <1>s, <3>1, <4>2 DEF Recording
      <4> QED BY <1>s, <1>t, <3>1, <3>3, <4>1, <4>2, <4>3 DEF Replayed
    <3> QED BY <3>2, <3>3
  <2> QED BY <2>1, <2>2
<1>1. ASSUME NEW r \in Request, NEW u \in Url, Receive(r, u) PROVE Replayed'
  BY <1>1, <1>t, <1>s DEF Receive, TypeOK, Pc, rigid, recording
<1>2. ASSUME NEW r \in Request,
             \/ ServeBlocked(r) \/ NotRecorded(r) \/ Connect(r) \/ ConnectFails(r)
             \/ AnswerFromArchive(r) \/ AnswerError(r) \/ AnswerResponse(r)
             \/ \E a \in Upstream : Respond(r, a)
      PROVE  Replayed'
  <2>1. \/ UNCHANGED served \/ ServeError(r)
        \/ ServeFromArchive(r) \/ ServeFile(r, EntryOf(r))
    BY <1>2 DEF ServeBlocked, NotRecorded, Connect, ConnectFails, AnswerFromArchive,
                AnswerError, AnswerResponse, Respond
  <2>2. \A q \in Request : q # r => served'[q] = served[q]
    BY <1>t, <2>1, ServedOfOthers DEF ServeError, ServeFromArchive
  <2>3. /\ pc[r] \notin {"queued", "replaying", "done"}
        /\ \E step \in Pc \ {"queued", "replaying"} : Goto(r, step)
        /\ UNCHANGED <<url, fileOf, asked, answer, accepted, headerWriter>>
    BY <1>2 DEF ServeBlocked, NotRecorded, Connect, ConnectFails, AnswerFromArchive,
                AnswerError, AnswerResponse, Respond, Pc, rigid, recording
  <2> QED BY <1>s, <2>2, <2>3
<1>3. ASSUME NEW r \in Request, QueueReplay(r) PROVE Replayed'
  <2>1. /\ asked' = [asked EXCEPT ![r] = fileOf[url[r]]]
        /\ UNCHANGED <<fileOf, url, served, headerWriter, accepted, answer>>
        /\ pc' = [pc EXCEPT ![r] = "queued"]
    BY <1>3 DEF QueueReplay, Store!Ask, Goto, rigid
  <2>2. /\ url[r] \in Url /\ served[r] = None /\ answer[r] = None
        /\ accepted[fileOf[url[r]]] # None /\ headerWriter[url[r]] # None
    BY <1>3, <1>t DEF QueueReplay, Recorded, Begun
  <2>3. fileOf[url[r]] # None
    BY <1>t, <2>2, RequestAssumption DEF TypeOK
  <2> QED BY <1>t, <2>1, <2>2, <2>3 DEF Replayed, Recording, TypeOK
<1>4. ASSUME NEW r \in Request, ReadReplay(r) PROVE Replayed'
  <2>1. /\ answer' = [answer EXCEPT ![r] = accepted[asked[r]]]
        /\ UNCHANGED <<fileOf, url, served, headerWriter, accepted, asked>>
        /\ pc[r] = "queued"
        /\ pc' = [pc EXCEPT ![r] = "replaying"]
    BY <1>4 DEF ReadReplay, Store!Reply, Goto, rigid
  <2> QED BY <1>t, <2>1 DEF Replayed, Recording, TypeOK
<1>5. ASSUME NEW r \in Request, Replay(r) PROVE Replayed'
  <2>1. /\ UNCHANGED <<fileOf, url, headerWriter, accepted, asked, answer>>
        /\ pc[r] = "replaying"
        /\ pc' = [pc EXCEPT ![r] = "done"]
    BY <1>5 DEF Replay, Goto, rigid, recording
  <2>2. answer[r] = accepted[fileOf[url[r]]] /\ asked[r] # None
    BY <1>t, <2>1 DEF Replayed
  <2>3. \A q \in Request : q # r => served'[q] = served[q]
    BY <1>5, <1>t, ServedOfOthers DEF Replay
  <2>4. ServeFile(r, Recording(url[r]))
    BY <1>5, <2>2 DEF Replay, Recording
  <2>5. served'[r] # None => served'[r] = Recording(url[r])
    BY <1>t, <2>2, <2>4 DEF ServeFile, Send, TypeOK, Replayed
  <2>6. \A u : Recording(u)' = Recording(u)
    BY <2>1 DEF Recording
  <2> QED BY <1>t, <2>1, <2>2, <2>3, <2>5, <2>6 DEF Replayed, TypeOK
<1>6. ASSUME NEW r \in Request, HandleFileRequest(r) PROVE Replayed'
  <2>1. /\ pc[r] = "lookup"
        /\ \E step \in Pc \ {"queued", "replaying"} : Goto(r, step)
        /\ UNCHANGED <<url, fileOf, asked, answer, accepted, headerWriter>>
    BY <1>6 DEF HandleFileRequest, Pc, rigid, recording
  <2>2. ServeFromArchive(r) \/ UNCHANGED <<served, sends, started>> \/ ServeError(r)
    BY <1>6 DEF HandleFileRequest
  <2>3. \A q \in Request : q # r => served'[q] = served[q]
    BY <1>t, <2>2, ServedOfOthers DEF ServeFromArchive, ServeError
  <2> QED BY <1>s, <2>1, <2>3
<1>7. ASSUME NEW r \in Request, NEW e,
             pc[r] \notin {"new", "queued", "replaying", "done"},
             AsyncWriteFile(url[r], e), AfterResponse(r),
             UNCHANGED <<fileOf, url, served>>
      PROVE  Replayed'
  <2>1. url[r] \in Url
    BY <1>7, <1>t DEF Begun
  <2>2. UNCHANGED <<asked, answer>>
    BY <1>7 DEF AsyncWriteFile, Store!Accept, recording
  <2>3. \E step \in Pc \ {"queued", "replaying"} : Goto(r, step)
    BY <1>7 DEF AfterResponse, Pc
  <2>4. \A v \in Url : accepted[fileOf[v]] # None =>
           /\ headerWriter'[v] = headerWriter[v]
           /\ accepted'[fileOf[v]] = accepted[fileOf[v]]
    BY <1>7, <1>t, <2>1, RecordedFrozen
  <2> QED BY <1>7, <1>s, <2>2, <2>3, <2>4
<1>8. ASSUME NEW r \in Request, Keep(r) \/ Record(r) PROVE Replayed'
  BY <1>7, <1>8 DEF Keep, Record, rigid
<1>9. CASE UNCHANGED vars
  BY <1>9, <1>t DEF Replayed, Recording, vars
<1> QED
  BY <1>1, <1>2, <1>3, <1>4, <1>5, <1>6, <1>8, <1>9 DEF Next, Terminated, Handler, Worker

-----------------------------------------------------------------------------
(* Pairing of headers and bodies.                                          *)

\* async_write_file keeps headers and bodies paired: a file that is not in the
\* archive yet belongs to no entry with a body, whichever URL it is stored for.
LEMMA PairedByWriting ==
  ASSUME TypeOK, RecordedPairing, UNCHANGED fileOf,
         NEW u \in Url, NEW e \in Entry, AsyncWriteFile(u, e)
  PROVE  RecordedPairing'
<1>1. CASE accepted[fileOf[u]] # None
  BY <1>1 DEF AsyncWriteFile, recording, RecordedPairing
<1>2. CASE accepted[fileOf[u]] = None
  <2>1. headerWriter' = [headerWriter EXCEPT ![u] = e]
    BY <1>2 DEF AsyncWriteFile
  <2>2. CASE e.body = None
    <3>1. accepted' = accepted
      BY <1>2, <2>2 DEF AsyncWriteFile
    <3> QED BY <2>1, <2>2, <3>1 DEF TypeOK, RecordedPairing
  <2>3. CASE e.body # None
    <3>1. accepted' = [accepted EXCEPT ![fileOf[u]] = e.body]
      BY <1>2, <2>3 DEF AsyncWriteFile, Store!Accept
    <3> SUFFICES ASSUME NEW v \in Url, headerWriter'[v] # None, headerWriter'[v].body # None
                 PROVE  accepted'[fileOf[v]] = headerWriter'[v].body
      BY DEF RecordedPairing
    <3>2. CASE v = u
      BY <2>1, <3>1, <3>2 DEF TypeOK
    <3>3. CASE v # u
      <4>1. headerWriter'[v] = headerWriter[v]
        BY <2>1, <3>3 DEF TypeOK
      <4>2. accepted[fileOf[v]] = headerWriter[v].body
        BY <4>1 DEF RecordedPairing
      <4>3. fileOf[v] # fileOf[u]
        BY <1>2, <4>1, <4>2
      <4> QED BY <3>1, <4>1, <4>2, <4>3 DEF TypeOK
    <3> QED BY <3>2, <3>3
  <2> QED BY <2>2, <2>3
<1> QED BY <1>1, <1>2

\* Only Keep and Record change what is recorded, and by async_write_file alone.
LEMMA OnlyWritingRecords ==
  ASSUME Invariant, [Next]_vars
  PROVE  /\ UNCHANGED fileOf
         /\ \/ UNCHANGED <<headerWriter, accepted, archive>>
            \/ \E u \in Url, e \in Entry : AsyncWriteFile(u, e)
<1>t. TypeOK /\ Begun /\ Arrived
  BY DEF Invariant
<1>1. ASSUME NEW r \in Request, Keep(r) PROVE \E u \in Url, e \in Entry : AsyncWriteFile(u, e)
  <2>1. url[r] \in Url /\ FromArchive(url[r]) \in Entry
    BY <1>1, <1>t, FromArchiveType DEF Keep, Begun, Arrived
  <2> QED BY <1>1, <2>1 DEF Keep
<1>2. ASSUME NEW r \in Request, Record(r) PROVE \E u \in Url, e \in Entry : AsyncWriteFile(u, e)
  <2>1. url[r] \in Url /\ EntryOf(r) \in Entry
    BY <1>2, <1>t, EntryOfType DEF Record, Begun, Arrived
  <2> QED BY <1>2, <2>1 DEF Record
<1>3. ASSUME NEW r \in Request,
             \/ \E u \in Url : Receive(r, u)
             \/ \E a \in Upstream : Respond(r, a)
             \/ Connect(r) \/ ConnectFails(r) \/ Worker(r)
             \/ ServeBlocked(r) \/ QueueReplay(r) \/ NotRecorded(r)
             \/ HandleFileRequest(r)
             \/ AnswerFromArchive(r) \/ AnswerError(r) \/ AnswerResponse(r)
      PROVE  UNCHANGED <<headerWriter, accepted, archive>>
  BY <1>3
  DEF Receive, Respond, Connect, ConnectFails, Worker, ReadReplay, Replay, ServeBlocked,
      QueueReplay, NotRecorded, HandleFileRequest, AnswerFromArchive, AnswerError,
      AnswerResponse, recording, Store!Ask, Store!Reply
<1>4. UNCHANGED fileOf
  <2>1. UNCHANGED rigid
    BY DEF Next, Terminated, Handler, Receive, Respond, Connect, ConnectFails, Worker,
      ReadReplay, Replay, ServeBlocked, QueueReplay, NotRecorded, HandleFileRequest,
      AnswerFromArchive, AnswerError, AnswerResponse, Keep, Record, rigid, vars
  <2> QED BY <2>1 DEF rigid
<1>5. CASE UNCHANGED vars
  BY <1>4, <1>5 DEF vars
<1> QED BY <1>1, <1>2, <1>3, <1>4, <1>5 DEF Next, Terminated, Handler

\* The invariant is inductive.
LEMMA InvariantStep == Invariant /\ [Next]_vars => Invariant'
<1> SUFFICES ASSUME Invariant, [Next]_vars PROVE Invariant'
  OBVIOUS
<1>1. CASE UNCHANGED <<headerWriter, accepted, archive>>
  <2>1. RecordedPairing' /\ archive' = None
    BY <1>1, OnlyWritingRecords DEF Invariant, RecordedPairing
  <2> QED BY <2>1, TypeStep, BegunStep, ArrivedStep, ReplayedStep DEF Invariant
<1>2. ASSUME NEW u \in Url, NEW e \in Entry, AsyncWriteFile(u, e) PROVE Invariant'
  <2>1. RecordedPairing'
    BY <1>2, OnlyWritingRecords, PairedByWriting DEF Invariant
  <2>2. archive' = None
    BY <1>2 DEF AsyncWriteFile, Store!Accept, recording, Invariant
  <2> QED BY <2>1, <2>2, TypeStep, BegunStep, ArrivedStep, ReplayedStep DEF Invariant
<1> QED BY <1>1, <1>2, OnlyWritingRecords

\* What the input archive holds initially are entries.
LEMMA ArchivedEntriesType ==
  ASSUME NEW u \in Url PROVE ArchivedEntries(u) \subseteq Entry \cup {None}
BY RequestAssumption DEF ArchivedEntries, Entry, Origin

\* The invariant holds initially.
LEMMA InvariantInit == Init => Invariant
<1> SUFFICES ASSUME Init PROVE Invariant
  OBVIOUS
<1>1. /\ accepted = [f \in File |-> None]
      /\ asked = [r \in Request |-> None]
      /\ answer = [r \in Request |-> None]
      /\ archive = None
  BY DEF Init, Store!Init, Store!Nothing
<1>2. reader \in [Url -> Entry \cup {None}]
  <2>1. /\ reader \in [Url -> UNION {ArchivedEntries(u) : u \in Url}]
        /\ \A u \in Url : reader[u] \in ArchivedEntries(u)
    BY DEF Init
  <2>2. \A u \in Url : reader[u] \in Entry \cup {None}
    BY <2>1, ArchivedEntriesType
  <2> QED BY <2>1, <2>2
<1>3. TypeOK
  BY <1>1, <1>2 DEF Init, TypeOK
<1>4. Begun /\ Arrived /\ Replayed
  BY <1>1 DEF Init, Begun, Arrived, Replayed
<1>5. RecordedPairing
  BY DEF Init, RecordedPairing
<1> QED BY <1>1, <1>3, <1>4, <1>5 DEF Invariant

-----------------------------------------------------------------------------
(* Theorems.                                                               *)

\* The invariant holds in every state.
THEOREM Invariance == Spec => []Invariant
BY InvariantInit, InvariantStep, PTL DEF Spec

\* Every state of the requests and of the recording is well-formed, however
\* their handlers interleave.
THEOREM TypeCorrect == Spec => []TypeOK
<1>1. Invariant => TypeOK
  BY DEF Invariant
<1> QED BY <1>1, Invariance, PTL

\* An entry that was recorded with a body goes with that body for ever after
\* (async_write_file), whichever handlers raced and whichever URLs share a file.
THEOREM AlwaysPaired == Spec => []RecordedPairing
<1>1. Invariant => RecordedPairing
  BY DEF Invariant
<1> QED BY <1>1, Invariance, PTL

\* All replays of a URL agree (serve_previously_served).
THEOREM AlwaysAgree == Spec => []ReplaysAgree
<1>1. Invariant => ReplaysAgree
  BY DEF Invariant, Replayed, ReplaysAgree
<1> QED BY <1>1, Invariance, PTL

\* The entry that a queued replay points to is never changed, so the worker may
\* read it without holding m_write_mutex.
THEOREM NeverChanged == Spec => EntryFrozen
<1>1. ASSUME Invariant, [Next]_vars
      PROVE  [\A r \in Request : pc[r] \in {"queued", "replaying"} =>
                headerWriter'[url[r]] = headerWriter[url[r]]]_vars
  <2> SUFFICES ASSUME NEW r \in Request, pc[r] \in {"queued", "replaying"}
               PROVE  headerWriter'[url[r]] = headerWriter[url[r]]
    OBVIOUS
  <2>1. url[r] \in Url /\ accepted[fileOf[url[r]]] # None /\ TypeOK
    BY <1>1 DEF Invariant, Replayed
  <2> QED BY <1>1, <2>1, OnlyWritingRecords, RecordedFrozen
<1> QED BY <1>1, Invariance, PTL DEF Spec, EntryFrozen

-----------------------------------------------------------------------------
(* What is sent, and when.                                                  *)

\* A request that was not received has no URL.  A response arrives after the
\* connection was established, or could not be, and what was sent is counted.
Waiting(r) ==
  /\ pc[r] = "new" => url[r] = None
  /\ pc[r] \in {"new", "received", "lookup", "queued", "replaying", "connecting"} =>
       resp[r] = None
  /\ pc[r] = "connected" /\ resp[r] # None => \E a \in Upstream : a.more
  /\ sends[r] = 0 <=> served[r] = None
  /\ pc[r] \in {"new", "received", "lookup", "queued", "replaying"} => sends[r] = 0

\* What the input archive holds for a URL comes from it.
ReaderOwn ==
  \A u \in Url : reader[u] # None => reader[u].from = u /\ reader[u].body \in {None, u}

\* Only a policy that serves archived pages answers before the download does,
\* or an earlier event of a stream.
SentBefore(r) ==
  pc[r] \in {"connecting", "connected", "answering"} /\ sends[r] > 0 =>
    \/ settings.serve = "last" /\ reader[url[r]] # None
    \/ /\ pc[r] # "connecting"
       /\ \E a \in Upstream : a.more
       /\ pc[r] = "answering" => resp[r] \in Upstream

\* What was waited for is served.
ServedFresh(r) ==
  settings.serve # "last" =>
    /\ pc[r] \in {"connecting", "connected"} /\ resp[r] = None => served[r] = None
    /\ resp[r] # None /\ served[r] # None /\ resp[r].status \in Good
         /\ (pc[r] = "done" => ~resp[r].error) => served[r].from = r

\* Only what may replace the archived page is about to be recorded.
RecordingGood(r) ==
  pc[r] = "recording" => resp[r].status \in Good \/ reader[url[r]] = None

\* An entry that belongs together and to the URL u, while the requests are for
\* the URLs of.
Matched(e, u, of) ==
  /\ e.body \in {None, e.from}
  /\ e.from = u \/ (e.from \in Request /\ of[e.from] = u)

Injective == \A u, v \in Url : u # v => fileOf[u] # fileOf[v]

\* While every URL has its own file name, the recorded entries and bodies
\* belong together ...
RecordedMatched ==
  Injective => \A u \in Url :
    /\ headerWriter[u] # None => Matched(headerWriter[u], u, url)
    /\ accepted[fileOf[u]] # None =>
         headerWriter[u] # None /\ headerWriter[u].body = accepted[fileOf[u]]

\* ... and so does what is served.
ServedMatched ==
  Injective => \A r \in Request :
    served[r] \notin {None, Error} => Matched(served[r], url[r], url)

RequestInvariant ==
  /\ \A r \in Request :
       Waiting(r) /\ SentBefore(r) /\ ServedFresh(r) /\ RecordingGood(r)
  /\ ReaderOwn
  /\ PageNotReplacedByFailure
  /\ RecordedMatched
  /\ ServedMatched

-----------------------------------------------------------------------------
(* What a step leaves alone, and what sending does.                         *)

StepOf(r) ==
  \/ \E u \in Url : Receive(r, u)
  \/ Handler(r) \/ Worker(r) \/ Connect(r) \/ ConnectFails(r)
  \/ \E a \in Upstream : Respond(r, a)

\* Only one request goes on, and the settings and the input archive stay.
LEMMA Frame ==
  ASSUME TypeOK, NEW r \in Request, StepOf(r)
  PROVE  /\ UNCHANGED <<settings, fileOf, reader>>
         /\ \A q \in Request : q # r =>
              /\ pc'[q] = pc[q] /\ url'[q] = url[q] /\ resp'[q] = resp[q]
              /\ served'[q] = served[q] /\ sends'[q] = sends[q]
<1> USE DEF Goto, rigid, recording
<1>1. ASSUME NEW e, Send(r, e) \/ ServeFile(r, e)
      PROVE  \A q \in Request : q # r => served'[q] = served[q] /\ sends'[q] = sends[q]
  BY <1>1 DEF TypeOK, Send, ServeFile
<1>2. ASSUME NEW u \in Url, Receive(r, u) PROVE rigid' = rigid /\ \A q \in Request : q # r =>
              /\ pc'[q] = pc[q] /\ url'[q] = url[q] /\ resp'[q] = resp[q]
              /\ served'[q] = served[q] /\ sends'[q] = sends[q]
  BY <1>2 DEF Receive, TypeOK
<1>3. ASSUME NEW a \in Upstream, Respond(r, a) PROVE rigid' = rigid /\ \A q \in Request : q # r =>
              /\ pc'[q] = pc[q] /\ url'[q] = url[q] /\ resp'[q] = resp[q]
              /\ served'[q] = served[q] /\ sends'[q] = sends[q]
  BY <1>3 DEF Respond, TypeOK
<1>4. CASE ConnectFails(r)
  BY <1>4 DEF ConnectFails, TypeOK
<1>5. CASE QueueReplay(r) \/ NotRecorded(r) \/ ReadReplay(r) \/ Connect(r)
  BY <1>5 DEF QueueReplay, NotRecorded, ReadReplay, Connect, TypeOK
<1>6. CASE Keep(r) \/ Record(r)
  BY <1>6 DEF Keep, Record, AfterResponse, TypeOK
<1>7. CASE ServeBlocked(r) \/ AnswerError(r)
  BY <1>1, <1>7 DEF ServeBlocked, AnswerError, ServeError, TypeOK
<1>8. CASE AnswerFromArchive(r) \/ AnswerResponse(r)
  BY <1>1, <1>8 DEF AnswerFromArchive, AnswerResponse, ServeFromArchive, TypeOK
<1>9. CASE Replay(r)
  BY <1>1, <1>9 DEF Replay, TypeOK
<1>10. CASE HandleFileRequest(r)
  <2>1. \A q \in Request : q # r => served'[q] = served[q] /\ sends'[q] = sends[q]
    BY <1>1, <1>10 DEF HandleFileRequest, ServeFromArchive, ServeError
  <2>2. \A q \in Request : q # r => pc'[q] = pc[q]
    BY <1>10 DEF HandleFileRequest, TypeOK
  <2> QED BY <1>10, <2>1, <2>2 DEF HandleFileRequest
<1> QED
  BY <1>2, <1>3, <1>4, <1>5, <1>6, <1>7, <1>8, <1>9, <1>10 DEF StepOf, Handler, Worker

\* Sending counts, and only the first response is what was served.
LEMMA Sending ==
  ASSUME TypeOK, NEW r \in Request, NEW e, Send(r, e)
  PROVE  /\ sends'[r] = sends[r] + 1 /\ sends'[r] > 0
         /\ served'[r] = IF served[r] = None THEN e ELSE served[r]
BY DEF TypeOK, Send

LEMMA SendingFile ==
  ASSUME TypeOK, NEW r \in Request, Waiting(r), NEW e, ServeFile(r, e)
  PROVE  /\ sends'[r] = IF sends[r] > 0 THEN sends[r] ELSE 1
         /\ served'[r] = IF served[r] = None THEN e ELSE served[r]
BY DEF TypeOK, Waiting, ServeFile, ResponseSent, Send

\* Where a step may lead the request that takes it.
LEMMA Moves ==
  ASSUME TypeOK, NEW r \in Request, StepOf(r)
  PROVE  \/ \E u \in Url : Receive(r, u) /\ pc[r] = "new" /\ pc'[r] = "received"
         \/ ServeBlocked(r) /\ pc[r] = "received" /\ pc'[r] = "done"
         \/ QueueReplay(r) /\ pc[r] = "received" /\ pc'[r] = "queued"
         \/ NotRecorded(r) /\ pc[r] = "received" /\ pc'[r] = "lookup"
         \/ ReadReplay(r) /\ pc[r] = "queued" /\ pc'[r] = "replaying"
         \/ Replay(r) /\ pc[r] = "replaying" /\ pc'[r] = "done"
         \/ HandleFileRequest(r) /\ pc[r] = "lookup"
              /\ pc'[r] \in {"connecting", "keeping", "done"}
         \/ Connect(r) /\ pc[r] = "connecting" /\ pc'[r] = "connected"
         \/ ConnectFails(r) /\ pc[r] = "connecting" /\ pc'[r] = "answering"
         \/ \E a \in Upstream :
              Respond(r, a) /\ pc[r] = "connected" /\ pc'[r] = "answering"
         \/ AnswerFromArchive(r) /\ pc[r] = "answering" /\ pc'[r] = "keeping"
         \/ AnswerError(r) /\ pc[r] = "answering" /\ pc'[r] = "done"
         \/ AnswerResponse(r) /\ pc[r] = "answering" /\ pc'[r] = "recording"
         \/ /\ Keep(r) /\ pc[r] = "keeping"
            /\ pc'[r] = IF Ended(r) THEN "done" ELSE "connected"
         \/ /\ Record(r) /\ pc[r] = "recording"
            /\ pc'[r] = IF Ended(r) THEN "done" ELSE "connected"
<1> USE DEF TypeOK, Goto
<1>1. CASE \E u \in Url : Receive(r, u)
  BY <1>1 DEF Receive
<1>2. CASE ServeBlocked(r) \/ QueueReplay(r) \/ NotRecorded(r)
  BY <1>2 DEF ServeBlocked, QueueReplay, NotRecorded
<1>3. CASE ReadReplay(r) \/ Replay(r)
  BY <1>3 DEF ReadReplay, Replay
<1>4. CASE HandleFileRequest(r)
  BY <1>4 DEF HandleFileRequest
<1>5. CASE Connect(r) \/ ConnectFails(r) \/ \E a \in Upstream : Respond(r, a)
  BY <1>5 DEF Connect, ConnectFails, Respond
<1>6. CASE AnswerFromArchive(r) \/ AnswerError(r) \/ AnswerResponse(r)
  BY <1>6 DEF AnswerFromArchive, AnswerError, AnswerResponse
<1>7. CASE Keep(r) \/ Record(r)
  BY <1>7 DEF Keep, Record, AfterResponse
<1> QED BY <1>1, <1>2, <1>3, <1>4, <1>5, <1>6, <1>7 DEF StepOf, Handler, Worker

\* What handle_file_request does: to answer and then download, the page must be
\* archived and the policy ask for archived pages.
LEMMA Lookup ==
  ASSUME Invariant, NEW r \in Request, Waiting(r), HandleFileRequest(r)
  PROVE  /\ UNCHANGED <<url, resp>>
         /\ \/ reader[url[r]] # None /\ served'[r] = FromArchive(url[r]) /\ sends'[r] = 1
            \/ served'[r] = Error /\ sends'[r] = 1 /\ pc'[r] # "connecting"
            \/ served'[r] = None /\ sends'[r] = 0
         /\ pc'[r] = "connecting" =>
              served'[r] = None \/ (settings.serve = "last" /\ reader[url[r]] # None)
<1>1. TypeOK /\ served[r] = None /\ sends[r] = 0
  BY DEF Invariant, Waiting, HandleFileRequest
<1>2. PICK expired \in BOOLEAN :
        LET known == reader[url[r]] # None
            action == FileRequestAction(known, ~known \/ expired)
        IN  /\ IF action.serve THEN ServeFromArchive(r)
               ELSE IF action.download THEN UNCHANGED <<served, sends, started>>
               ELSE ServeError(r)
            /\ Goto(r, IF action.download THEN "connecting"
                       ELSE IF action.write THEN "keeping" ELSE "done")
  BY DEF HandleFileRequest
<1> DEFINE known == reader[url[r]] # None
           action == FileRequestAction(known, ~known \/ expired)
<1>3. /\ action.serve => known
      /\ action.serve /\ action.download => settings.serve = "last"
  BY <1>1, RequestAssumption DEF TypeOK, FileRequestAction
<1>4. pc'[r] = IF action.download THEN "connecting"
               ELSE IF action.write THEN "keeping" ELSE "done"
  BY <1>1, <1>2 DEF TypeOK, Goto
<1>5. UNCHANGED <<url, resp>>
  BY DEF HandleFileRequest
<1>6. CASE action.serve
  <2>1. ServeFile(r, FromArchive(url[r]))
    BY <1>2, <1>6 DEF ServeFromArchive
  <2>2. served'[r] = FromArchive(url[r]) /\ sends'[r] = 1
    BY <1>1, <2>1, SendingFile
  <2> QED BY <1>3, <1>4, <1>5, <1>6, <2>2
<1>7. CASE ~action.serve /\ action.download
  BY <1>1, <1>2, <1>5, <1>7
<1>8. CASE ~action.serve /\ ~action.download
  <2>1. Send(r, Error)
    BY <1>2, <1>8 DEF ServeError
  <2>2. served'[r] = Error /\ sends'[r] = 1
    BY <1>1, <2>1, Sending
  <2> QED BY <1>4, <1>5, <1>8, <2>2
<1> HIDE DEF action
<1> QED BY <1>6, <1>7, <1>8

\* What the other steps that send do.
LEMMA Answering ==
  ASSUME Invariant, NEW r \in Request, Waiting(r)
  PROVE  /\ ServeBlocked(r) => served'[r] = Error /\ sends'[r] = 1
         /\ AnswerError(r) =>
              /\ sends'[r] = sends[r] + 1 /\ sends'[r] > 0
              /\ served'[r] = IF served[r] = None THEN Error ELSE served[r]
         /\ AnswerFromArchive(r) =>
              /\ sends'[r] = IF sends[r] > 0 THEN sends[r] ELSE 1
              /\ served'[r] = IF served[r] = None THEN FromArchive(url[r]) ELSE served[r]
         /\ AnswerResponse(r) =>
              /\ sends'[r] = IF sends[r] > 0 THEN sends[r] ELSE 1
              /\ served'[r] = IF served[r] = None THEN EntryOf(r) ELSE served[r]
         /\ Replay(r) => served'[r] = Recording(url[r]) /\ sends'[r] = 1
<1>1. TypeOK /\ Replayed
  BY DEF Invariant
<1>2. ASSUME ServeBlocked(r) PROVE served'[r] = Error /\ sends'[r] = 1
  BY <1>1, <1>2, Sending DEF ServeBlocked, ServeError, Waiting
<1>3. ASSUME Replay(r) PROVE served'[r] = Recording(url[r]) /\ sends'[r] = 1
  <2>1. answer[r] = accepted[fileOf[url[r]]] /\ sends[r] = 0 /\ served[r] = None
    BY <1>1, <1>3 DEF Replay, Replayed, Waiting
  <2>2. ServeFile(r, Recording(url[r]))
    BY <1>3, <2>1 DEF Replay, Recording
  <2> QED BY <1>1, <2>1, <2>2, SendingFile
<1> QED
  BY <1>1, <1>2, <1>3, Sending, SendingFile
  DEF AnswerError, ServeError, AnswerFromArchive, ServeFromArchive, AnswerResponse

\* Every entry that is sent is one, or an error.
LEMMA SentIsSomething ==
  ASSUME Invariant, NEW r \in Request
  PROVE  /\ Error # None
         /\ pc[r] \in {"answering", "recording"} => EntryOf(r) # None
         /\ url[r] \in Url /\ reader[url[r]] # None => FromArchive(url[r]) # None
         /\ asked[r] # None => Recording(url[r]) # None
<1>1. TypeOK /\ Arrived /\ Replayed
  BY DEF Invariant
<1>2. pc[r] \in {"answering", "recording"} => EntryOf(r) \in Entry
  BY <1>1, EntryOfType DEF Arrived
<1>3. url[r] \in Url /\ reader[url[r]] # None => FromArchive(url[r]) \in Entry
  BY <1>1, FromArchiveType
<1>4. ASSUME asked[r] # None PROVE Recording(url[r]) \in Entry
  <2>1. /\ url[r] \in Url /\ headerWriter[url[r]] # None
        /\ fileOf[url[r]] \in File /\ accepted[fileOf[url[r]]] # None
    BY <1>1, <1>4 DEF Replayed, TypeOK
  <2>2. headerWriter[url[r]] \in Entry /\ accepted[fileOf[url[r]]] \in Origin
    BY <1>1, <2>1 DEF TypeOK
  <2> QED BY <2>2 DEF Recording, Entry
<1> QED BY <1>2, <1>3, <1>4, RequestAssumption

\* Responses are counted and arrive in order.
LEMMA WaitingStep ==
  ASSUME Invariant, NEW r \in Request, Waiting(r), StepOf(r)
  PROVE  Waiting(r)'
<1>1. TypeOK /\ Begun /\ Replayed
  BY DEF Invariant
<1> USE DEF Waiting
<1>2. ASSUME NEW u \in Url, Receive(r, u), pc'[r] = "received" PROVE Waiting(r)'
  BY <1>1, <1>2 DEF Receive
<1>3. ASSUME ServeBlocked(r), pc'[r] = "done" PROVE Waiting(r)'
  <2>1. served'[r] # None /\ sends'[r] = 1
    BY <1>3, Answering, SentIsSomething
  <2> QED BY <1>3, <2>1
<1>4. ASSUME NotRecorded(r), pc[r] = "received", pc'[r] = "lookup" PROVE Waiting(r)'
  BY <1>4 DEF NotRecorded
<1>5. ASSUME QueueReplay(r), pc[r] = "received", pc'[r] = "queued" PROVE Waiting(r)'
  BY <1>5 DEF QueueReplay
<1>6. ASSUME ReadReplay(r), pc[r] = "queued", pc'[r] = "replaying" PROVE Waiting(r)'
  BY <1>6 DEF ReadReplay
<1>7. ASSUME Replay(r), pc[r] = "replaying", pc'[r] = "done" PROVE Waiting(r)'
  <2>1. asked[r] # None
    BY <1>1, <1>7 DEF Replayed
  <2>2. served'[r] # None /\ sends'[r] = 1
    BY <1>7, <2>1, Answering, SentIsSomething
  <2> QED BY <1>7, <2>2
<1>8. ASSUME HandleFileRequest(r), pc[r] = "lookup",
             pc'[r] \in {"connecting", "keeping", "done"}
      PROVE  Waiting(r)'
  <2>1. url[r] \in Url
    BY <1>1, <1>8 DEF Begun
  <2>2. sends'[r] = 0 <=> served'[r] = None
    BY <1>8, <2>1, Lookup, SentIsSomething
  <2> QED BY <1>8, <2>2, Lookup
<1>9. ASSUME Connect(r), pc[r] = "connecting", pc'[r] = "connected" PROVE Waiting(r)'
  BY <1>9 DEF Connect
<1>10. ASSUME ConnectFails(r), pc[r] = "connecting", pc'[r] = "answering" PROVE Waiting(r)'
  BY <1>10 DEF ConnectFails
<1>11. ASSUME NEW a \in Upstream, Respond(r, a), pc'[r] = "answering" PROVE Waiting(r)'
  BY <1>11 DEF Respond
<1>12. ASSUME AnswerFromArchive(r), pc[r] = "answering", pc'[r] = "keeping" PROVE Waiting(r)'
  <2>1. FromArchive(url[r]) # None
    BY <1>1, <1>12, SentIsSomething DEF AnswerFromArchive, Begun
  <2>2. sends'[r] = 0 <=> served'[r] = None
    BY <1>12, <2>1, Answering
  <2> QED BY <1>12, <2>2
<1>13. ASSUME AnswerError(r), pc'[r] = "done" PROVE Waiting(r)'
  <2>1. sends'[r] > 0 /\ served'[r] # None
    BY <1>13, Answering, SentIsSomething
  <2>2. ~(sends'[r] = 0)
    BY <2>1
  <2> QED BY <1>13, <2>1, <2>2
<1>14. ASSUME AnswerResponse(r), pc[r] = "answering", pc'[r] = "recording" PROVE Waiting(r)'
  <2>1. EntryOf(r) # None
    BY <1>14, SentIsSomething
  <2>2. sends'[r] = 0 <=> served'[r] = None
    BY <1>14, <2>1, Answering
  <2> QED BY <1>14, <2>2
<1>15. ASSUME Keep(r) \/ Record(r), pc'[r] = IF Ended(r) THEN "done" ELSE "connected"
       PROVE  Waiting(r)'
  <2>1. UNCHANGED <<url, resp, served, sends>>
    BY <1>15 DEF Keep, Record
  <2>2. resp[r] # None /\ resp[r].more => \E a \in Upstream : a.more
    BY <1>1 DEF TypeOK, NoConnection
  <2> QED BY <1>15, <2>1, <2>2 DEF Ended
<1> QED
  BY <1>1, <1>2, <1>3, <1>4, <1>5, <1>6, <1>7, <1>8, <1>9, <1>10, <1>11, <1>12, <1>13,
     <1>14, <1>15, Moves

\* What was served before the download goes on was an archived page that the
\* policy asks for or an earlier event.
LEMMA SentBeforeStep ==
  ASSUME Invariant, NEW r \in Request, Waiting(r), SentBefore(r), StepOf(r)
  PROVE  SentBefore(r)'
<1>1. TypeOK
  BY DEF Invariant
<1>2. UNCHANGED <<settings, reader>>
  BY <1>1, Frame
<1> USE DEF SentBefore
<1>3. ASSUME HandleFileRequest(r), pc'[r] \in {"connecting", "keeping", "done"}
      PROVE  SentBefore(r)'
  <2>1. Waiting(r)'
    BY WaitingStep
  <2> QED BY <1>2, <1>3, <2>1, Lookup DEF Waiting
<1>4. ASSUME Connect(r), pc[r] = "connecting", pc'[r] = "connected" PROVE SentBefore(r)'
  BY <1>2, <1>4 DEF Connect
<1>5. ASSUME ConnectFails(r), pc[r] = "connecting" PROVE SentBefore(r)'
  BY <1>2, <1>5 DEF ConnectFails
<1>6. ASSUME NEW a \in Upstream, Respond(r, a), pc[r] = "connected" PROVE SentBefore(r)'
  <2>1. resp'[r] \in Upstream
    BY <1>1, <1>6 DEF Respond, TypeOK
  <2>2. UNCHANGED <<url, sends>> /\ pc'[r] # "connecting"
    BY <1>1, <1>6 DEF Respond, Goto, TypeOK
  <2> QED BY <1>2, <1>6, <2>1, <2>2
<1>7. ASSUME Keep(r) \/ Record(r), pc'[r] = IF Ended(r) THEN "done" ELSE "connected"
      PROVE  SentBefore(r)'
  <2>1. UNCHANGED <<url, resp, served, sends>>
    BY <1>7 DEF Keep, Record
  <2>2. resp[r] # None /\ resp[r].more => \E a \in Upstream : a.more
    BY <1>1 DEF TypeOK, NoConnection
  <2> QED BY <1>7, <2>1, <2>2 DEF Ended
<1>8. ASSUME pc'[r] \notin {"connecting", "connected", "answering"} PROVE SentBefore(r)'
  BY <1>8
<1> QED BY <1>1, <1>3, <1>4, <1>5, <1>6, <1>7, <1>8, Moves

\* What was waited for is served.
LEMMA ServedFreshStep ==
  ASSUME Invariant, NEW r \in Request, Waiting(r), ServedFresh(r), StepOf(r)
  PROVE  ServedFresh(r)'
<1>1. TypeOK
  BY DEF Invariant
<1>2. UNCHANGED <<settings, reader>>
  BY <1>1, Frame
<1>3. SUFFICES ASSUME settings.serve # "last" PROVE ServedFresh(r)'
  BY <1>2 DEF ServedFresh
<1> USE DEF ServedFresh
<1>4. ASSUME resp'[r] = None, pc'[r] \notin {"connecting", "connected"} PROVE ServedFresh(r)'
  BY <1>4
<1>5. ASSUME NEW u \in Url, Receive(r, u), pc[r] = "new", pc'[r] = "received"
      PROVE  ServedFresh(r)'
  BY <1>4, <1>5 DEF Receive, Waiting
<1>6. ASSUME \/ ServeBlocked(r) /\ pc[r] = "received" /\ pc'[r] = "done"
             \/ QueueReplay(r) /\ pc[r] = "received" /\ pc'[r] = "queued"
             \/ NotRecorded(r) /\ pc[r] = "received" /\ pc'[r] = "lookup"
             \/ ReadReplay(r) /\ pc[r] = "queued" /\ pc'[r] = "replaying"
             \/ Replay(r) /\ pc[r] = "replaying" /\ pc'[r] = "done"
      PROVE  ServedFresh(r)'
  BY <1>4, <1>6 DEF ServeBlocked, QueueReplay, NotRecorded, ReadReplay, Replay, Waiting
<1>7. ASSUME HandleFileRequest(r), pc[r] = "lookup" PROVE ServedFresh(r)'
  <2>1. resp'[r] = None
    BY <1>7 DEF HandleFileRequest, Waiting
  <2>2. pc'[r] # "connected"
    BY <1>1, <1>7 DEF HandleFileRequest, Goto, TypeOK
  <2>3. pc'[r] = "connecting" => served'[r] = None
    BY <1>3, <1>7, Lookup
  <2> QED BY <2>1, <2>2, <2>3
<1>8. ASSUME Connect(r), pc[r] = "connecting", pc'[r] = "connected" PROVE ServedFresh(r)'
  BY <1>2, <1>8 DEF Connect, Waiting
<1>9. ASSUME ConnectFails(r), pc'[r] = "answering" PROVE ServedFresh(r)'
  <2>1. resp'[r] = NoConnection /\ NoConnection.status \notin Good
    BY <1>1, <1>9 DEF ConnectFails, TypeOK, NoConnection, Good
  <2> QED BY <1>9, <2>1
<1>10. ASSUME NEW a \in Upstream, Respond(r, a), pc[r] = "connected", pc'[r] = "answering"
       PROVE  ServedFresh(r)'
  BY <1>1, <1>2, <1>3, <1>10 DEF Respond, TypeOK
<1>11. ASSUME AnswerFromArchive(r), pc'[r] = "keeping" PROVE ServedFresh(r)'
  BY <1>11 DEF AnswerFromArchive
<1>12. ASSUME AnswerError(r), pc'[r] = "done" PROVE ServedFresh(r)'
  BY <1>12 DEF AnswerError
<1>13. ASSUME AnswerResponse(r), pc[r] = "answering", pc'[r] = "recording"
       PROVE  ServedFresh(r)'
  <2>1. served'[r] = IF served[r] = None THEN EntryOf(r) ELSE served[r]
    BY <1>13, Answering
  <2>2. EntryOf(r).from = r
    BY DEF EntryOf
  <2> QED BY <1>3, <1>13, <2>1, <2>2 DEF AnswerResponse
<1>14. ASSUME Keep(r) \/ Record(r), pc[r] \in {"keeping", "recording"},
              pc'[r] = IF Ended(r) THEN "done" ELSE "connected"
       PROVE  ServedFresh(r)'
  <2>1. UNCHANGED <<resp, served>>
    BY <1>14 DEF Keep, Record
  <2> QED BY <1>3, <1>14, <2>1 DEF Ended
<1> QED
  BY <1>1, <1>5, <1>6, <1>7, <1>8, <1>9, <1>10, <1>11, <1>12, <1>13, <1>14, Moves

\* A failure that would replace an archived page is not recorded.
LEMMA RecordingGoodStep ==
  ASSUME Invariant, NEW r \in Request, StepOf(r)
  PROVE  RecordingGood(r)'
<1>1. TypeOK
  BY DEF Invariant
<1>2. UNCHANGED reader
  BY <1>1, Frame
<1>3. ASSUME AnswerResponse(r) PROVE RecordingGood(r)'
  BY <1>2, <1>3 DEF AnswerResponse, RecordingGood
<1>4. ASSUME pc'[r] # "recording" PROVE RecordingGood(r)'
  BY <1>4 DEF RecordingGood
<1> QED BY <1>1, <1>3, <1>4, Moves

-----------------------------------------------------------------------------
(* Headers and bodies while every URL has its own file name.                *)

\* An entry of the input archive and the body read for it belong together.
LEMMA FromArchiveMatched ==
  ASSUME TypeOK, ReaderOwn, NEW u \in Url, reader[u] # None
  PROVE  /\ FromArchive(u).from = u /\ FromArchive(u).status = reader[u].status
         /\ Injective => FromArchive(u).body \in {None, u}
<1>1. reader[u] \in Entry /\ reader[u].from = u
  BY DEF TypeOK, ReaderOwn
<1>2. /\ FromArchive(u).from = u /\ FromArchive(u).status = reader[u].status
      /\ FromArchive(u).body = ArchivedBody(fileOf[u])
  BY <1>1 DEF FromArchive, Entry
<1>3. ASSUME Injective PROVE ArchivedBody(fileOf[u]) \in {None, u}
  <2> DEFINE owners == {v \in Url : fileOf[v] = fileOf[u] /\ reader[v] # None
                                     /\ reader[v].body # None}
  <2>1. owners \subseteq {u}
    BY <1>3 DEF Injective
  <2>2. ArchivedBody(fileOf[u]) = IF owners = {} THEN None ELSE CHOOSE v \in owners : TRUE
    BY DEF ArchivedBody
  <2> HIDE DEF owners
  <2>3. owners # {} => (CHOOSE v \in owners : TRUE) \in owners
    OBVIOUS
  <2> QED BY <2>1, <2>2, <2>3
<1> QED BY <1>2, <1>3

\* What writes to the recording.
LEMMA RecordingSteps ==
  ASSUME Invariant, NEW r \in Request, StepOf(r)
  PROVE  \/ UNCHANGED <<headerWriter, accepted>>
         \/ /\ pc[r] = "keeping" /\ UNCHANGED <<url, served>>
            /\ AsyncWriteFile(url[r], FromArchive(url[r]))
         \/ /\ pc[r] = "recording" /\ UNCHANGED <<url, served>>
            /\ AsyncWriteFile(url[r], EntryOf(r))
BY DEF StepOf, Handler, Receive, Respond, Connect, ConnectFails, Worker, ReadReplay,
  Replay, ServeBlocked, QueueReplay, NotRecorded, HandleFileRequest, AnswerFromArchive,
  AnswerError, AnswerResponse, Keep, Record, recording, Store!Ask, Store!Reply

\* The header of a page is replaced by what is written, or not at all.
LEMMA WritingHeader ==
  ASSUME TypeOK, NEW u \in Url, NEW e \in Entry, AsyncWriteFile(u, e)
  PROVE  \/ UNCHANGED <<headerWriter, accepted>>
         \/ /\ accepted[fileOf[u]] = None
            /\ headerWriter' = [headerWriter EXCEPT ![u] = e]
            /\ headerWriter'[u] = e /\ e # None
            /\ \A v \in Url : v # u => headerWriter'[v] = headerWriter[v]
            /\ accepted' = [accepted EXCEPT ![fileOf[u]] = e.body]
            /\ accepted'[fileOf[u]] = e.body
<1>1. CASE accepted[fileOf[u]] # None
  BY <1>1 DEF AsyncWriteFile, recording
<1>2. CASE accepted[fileOf[u]] = None
  <2>1. headerWriter' = [headerWriter EXCEPT ![u] = e] /\ e # None
    BY <1>2, RequestAssumption DEF AsyncWriteFile
  <2>2. accepted' = [accepted EXCEPT ![fileOf[u]] = e.body]
    <3>1. CASE e.body = None
      BY <1>2, <3>1 DEF AsyncWriteFile, TypeOK
    <3>2. CASE e.body # None
      BY <1>2, <3>2 DEF AsyncWriteFile, Store!Accept
    <3> QED BY <3>1, <3>2
  <2>3. fileOf[u] \in File
    BY DEF TypeOK
  <2> QED BY <1>2, <2>1, <2>2, <2>3 DEF TypeOK
<1> QED BY <1>1, <1>2

\* An archived page is only replaced by itself or by something better.
LEMMA PageKept ==
  ASSUME Invariant, ReaderOwn, PageNotReplacedByFailure,
         NEW r \in Request, RecordingGood(r), StepOf(r)
  PROVE  PageNotReplacedByFailure'
<1>1. TypeOK /\ Begun /\ Arrived
  BY DEF Invariant
<1>2. UNCHANGED reader
  BY <1>1, Frame
<1>3. ASSUME NEW e \in Entry, url[r] \in Url, AsyncWriteFile(url[r], e),
             reader[url[r]] # None => e.from = url[r] \/ e.status \in Good
      PROVE  PageNotReplacedByFailure'
  <2>1. \/ UNCHANGED headerWriter
        \/ /\ headerWriter'[url[r]] = e
           /\ \A v \in Url : v # url[r] => headerWriter'[v] = headerWriter[v]
    BY <1>1, <1>3, WritingHeader
  <2> QED BY <1>2, <1>3, <2>1 DEF PageNotReplacedByFailure
<1>4. CASE UNCHANGED <<headerWriter, accepted>>
  BY <1>2, <1>4 DEF PageNotReplacedByFailure
<1>5. CASE pc[r] = "keeping" /\ AsyncWriteFile(url[r], FromArchive(url[r]))
  <2>1. url[r] \in Url /\ reader[url[r]] # None
    BY <1>1, <1>5 DEF Begun, Arrived
  <2> QED BY <1>1, <1>3, <1>5, <2>1, FromArchiveType, FromArchiveMatched
<1>6. CASE pc[r] = "recording" /\ AsyncWriteFile(url[r], EntryOf(r))
  <2>1. url[r] \in Url /\ EntryOf(r) \in Entry
    BY <1>1, <1>6, EntryOfType DEF Begun, Arrived
  <2>2. EntryOf(r).status = resp[r].status
    BY DEF EntryOf
  <2> QED BY <1>3, <1>6, <2>1, <2>2 DEF RecordingGood
<1> QED BY <1>4, <1>5, <1>6, RecordingSteps

\* An entry that belongs to a URL goes on belonging to it: the request it came
\* from was received.
LEMMA MatchedStays ==
  ASSUME Invariant, \A q \in Request : Waiting(q), NEW r \in Request, StepOf(r),
         NEW u \in Url, NEW e, Matched(e, u, url)
  PROVE  Matched(e, u, url')
<1>1. TypeOK
  BY DEF Invariant
<1>2. ASSUME NEW q \in Request, url[q] # None PROVE url'[q] = url[q]
  <2>1. CASE q # r
    BY <1>1, <2>1, Frame
  <2>2. CASE q = r
    <3>1. pc[r] # "new"
      BY <1>2, <2>2 DEF Waiting
    <3> QED BY <2>2, <3>1 DEF StepOf, Handler, Receive, Respond, Connect, ConnectFails,
      Worker, ReadReplay, Replay, ServeBlocked, QueueReplay, NotRecorded,
      HandleFileRequest, AnswerFromArchive, AnswerError, AnswerResponse, Keep, Record
  <2> QED BY <2>1, <2>2
<1>3. u # None
  BY RequestAssumption
<1> QED BY <1>2, <1>3 DEF Matched

\* A response belongs to the URL of its request.
LEMMA EntryOfMatched ==
  ASSUME NEW r \in Request
  PROVE  Matched(EntryOf(r), url[r], url)
BY DEF Matched, EntryOf

\* While every URL has its own file name, what is recorded belongs together.
LEMMA RecordedMatchedStep ==
  ASSUME Invariant, \A q \in Request : Waiting(q), ReaderOwn, RecordedMatched,
         NEW r \in Request, StepOf(r)
  PROVE  RecordedMatched'
<1>1. TypeOK /\ Begun /\ Arrived
  BY DEF Invariant
<1>2. UNCHANGED <<reader, fileOf>> /\ (Injective' <=> Injective)
  BY <1>1, Frame DEF Injective
<1>3. SUFFICES ASSUME Injective PROVE RecordedMatched'
  BY <1>2 DEF RecordedMatched
<1>4. CASE UNCHANGED <<headerWriter, accepted>>
  BY <1>2, <1>3, <1>4, MatchedStays DEF RecordedMatched
<1>5. ASSUME NEW e \in Entry, url[r] \in Url, AsyncWriteFile(url[r], e), UNCHANGED url,
             Matched(e, url[r], url)
      PROVE  RecordedMatched'
  <2>1. CASE UNCHANGED <<headerWriter, accepted>>
    BY <1>4, <2>1
  <2>2. CASE /\ accepted[fileOf[url[r]]] = None
             /\ headerWriter' = [headerWriter EXCEPT ![url[r]] = e]
             /\ headerWriter'[url[r]] = e /\ e # None
             /\ \A v \in Url : v # url[r] => headerWriter'[v] = headerWriter[v]
             /\ accepted' = [accepted EXCEPT ![fileOf[url[r]]] = e.body]
             /\ accepted'[fileOf[url[r]]] = e.body
    <3>1. SUFFICES ASSUME NEW u \in Url
                   PROVE  /\ headerWriter'[u] # None => Matched(headerWriter'[u], u, url')
                          /\ accepted'[fileOf[u]] # None =>
                               /\ headerWriter'[u] # None
                               /\ headerWriter'[u].body = accepted'[fileOf[u]]
      BY <1>2 DEF RecordedMatched
    <3>2. CASE u = url[r]
      BY <1>5, <2>2, <3>2, MatchedStays
    <3>3. CASE u # url[r]
      <4>1. fileOf[u] # fileOf[url[r]]
        BY <1>3, <1>5, <3>3 DEF Injective
      <4>2. accepted'[fileOf[u]] = accepted[fileOf[u]] /\ headerWriter'[u] = headerWriter[u]
        BY <1>1, <2>2, <3>3, <4>1 DEF TypeOK
      <4> QED BY <1>3, <4>2, MatchedStays DEF RecordedMatched
    <3> QED BY <3>2, <3>3
  <2> QED BY <1>1, <1>5, <2>1, <2>2, WritingHeader
<1>6. CASE /\ pc[r] = "keeping" /\ UNCHANGED <<url, served>>
           /\ AsyncWriteFile(url[r], FromArchive(url[r]))
  <2>1. url[r] \in Url /\ reader[url[r]] # None
    BY <1>1, <1>6 DEF Begun, Arrived
  <2>2. Matched(FromArchive(url[r]), url[r], url)
    BY <1>1, <1>3, <2>1, FromArchiveMatched DEF Matched
  <2> QED BY <1>1, <1>5, <1>6, <2>1, <2>2, FromArchiveType
<1>7. CASE /\ pc[r] = "recording" /\ UNCHANGED <<url, served>>
           /\ AsyncWriteFile(url[r], EntryOf(r))
  <2>1. url[r] \in Url /\ EntryOf(r) \in Entry
    BY <1>1, <1>7, EntryOfType DEF Begun, Arrived
  <2> QED BY <1>5, <1>7, <2>1, EntryOfMatched
<1> QED BY <1>4, <1>6, <1>7, RecordingSteps

\* A request that sends is past being received, and sends an error or an entry
\* that belongs to its URL.
LEMMA ServedMatchedStep ==
  ASSUME Invariant, \A q \in Request : Waiting(q), ReaderOwn, RecordedMatched,
         ServedMatched, NEW r \in Request, StepOf(r)
  PROVE  ServedMatched'
<1>1. TypeOK /\ Begun /\ Arrived /\ Replayed
  BY DEF Invariant
<1>2. UNCHANGED <<reader, fileOf>> /\ (Injective' <=> Injective)
  BY <1>1, Frame DEF Injective
<1>3. SUFFICES ASSUME Injective PROVE ServedMatched'
  BY <1>2 DEF ServedMatched
<1>4. ASSUME NEW q \in Request, served'[q] = served[q], served[q] \notin {None, Error},
             q # r \/ url'[q] = url[q]
      PROVE  Matched(served'[q], url'[q], url')
  <2>1. url[q] \in Url /\ Matched(served[q], url[q], url)
    BY <1>1, <1>3, <1>4 DEF Begun, ServedMatched
  <2>2. Matched(served[q], url[q], url')
    BY <2>1, MatchedStays
  <2>3. url'[q] = url[q]
    BY <1>1, <1>4, Frame
  <2> QED BY <1>4, <2>2, <2>3
<1>5. ASSUME UNCHANGED url, url[r] \in Url, NEW e,
             served'[r] = IF served[r] = None THEN e ELSE served[r],
             e = Error \/ Matched(e, url[r], url)
      PROVE  served'[r] \notin {None, Error} => Matched(served'[r], url'[r], url')
  <2>1. CASE served[r] = None
    BY <1>5, <2>1
  <2>2. CASE served[r] # None
    BY <1>4, <1>5, <2>2
  <2> QED BY <2>1, <2>2
<1>6. ASSUME UNCHANGED served, served[r] = None \/ UNCHANGED url
      PROVE  served'[r] \notin {None, Error} => Matched(served'[r], url'[r], url')
  BY <1>4, <1>6
<1>7. ASSUME NEW u \in Url, Receive(r, u)
      PROVE  served'[r] \notin {None, Error} => Matched(served'[r], url'[r], url')
  BY <1>1, <1>6, <1>7 DEF Receive, Begun
<1>8. ASSUME \/ QueueReplay(r) \/ NotRecorded(r) \/ ReadReplay(r) \/ Connect(r)
             \/ ConnectFails(r) \/ Keep(r) \/ Record(r)
             \/ \E a \in Upstream : Respond(r, a)
      PROVE  served'[r] \notin {None, Error} => Matched(served'[r], url'[r], url')
  <2>1. UNCHANGED <<served, url>>
    BY <1>8 DEF QueueReplay, NotRecorded, ReadReplay, Connect, ConnectFails, Keep,
      Record, Respond
  <2> QED BY <1>6, <2>1
<1>9. ASSUME ServeBlocked(r) \/ AnswerError(r)
      PROVE  served'[r] \notin {None, Error} => Matched(served'[r], url'[r], url')
  <2>1. UNCHANGED url /\ url[r] \in Url
    BY <1>1, <1>9 DEF ServeBlocked, AnswerError, Begun
  <2>2. served'[r] = Error \/ served'[r] = served[r]
    BY <1>9, Answering
  <2> QED BY <1>5, <2>1, <2>2
<1>10. ASSUME AnswerFromArchive(r)
       PROVE  served'[r] \notin {None, Error} => Matched(served'[r], url'[r], url')
  <2>1. UNCHANGED url /\ url[r] \in Url /\ reader[url[r]] # None
    BY <1>1, <1>10 DEF AnswerFromArchive, Begun
  <2>2. Matched(FromArchive(url[r]), url[r], url)
    BY <1>1, <1>3, <2>1, FromArchiveMatched DEF Matched
  <2> QED BY <1>5, <1>10, <2>1, <2>2, Answering
<1>11. ASSUME AnswerResponse(r)
       PROVE  served'[r] \notin {None, Error} => Matched(served'[r], url'[r], url')
  <2>1. UNCHANGED url /\ url[r] \in Url
    BY <1>1, <1>11 DEF AnswerResponse, Begun
  <2> QED BY <1>5, <1>11, <2>1, Answering, EntryOfMatched
<1>12. ASSUME Replay(r)
       PROVE  served'[r] \notin {None, Error} => Matched(served'[r], url'[r], url')
  <2>1. /\ UNCHANGED url /\ url[r] \in Url /\ headerWriter[url[r]] # None
        /\ accepted[fileOf[url[r]]] # None
    BY <1>1, <1>12 DEF Replay, Replayed
  <2>2. /\ headerWriter[url[r]] \in Entry
        /\ headerWriter[url[r]].body = accepted[fileOf[url[r]]]
        /\ Matched(headerWriter[url[r]], url[r], url)
    BY <1>1, <1>3, <2>1 DEF TypeOK, RecordedMatched
  <2>3. Recording(url[r]) = headerWriter[url[r]]
    BY <2>2 DEF Recording, Entry
  <2>4. Matched(Recording(url[r]), url[r], url)
    BY <2>2, <2>3
  <2>5. served'[r] = Recording(url[r])
    BY <1>12, Answering
  <2>6. served[r] = None
    BY <1>12 DEF Replay, Waiting
  <2> QED BY <1>5, <2>1, <2>4, <2>5, <2>6
<1>13. ASSUME HandleFileRequest(r)
       PROVE  served'[r] \notin {None, Error} => Matched(served'[r], url'[r], url')
  <2>1. url[r] \in Url
    BY <1>1, <1>13 DEF HandleFileRequest, Begun
  <2>2. /\ UNCHANGED url
        /\ \/ reader[url[r]] # None /\ served'[r] = FromArchive(url[r])
           \/ served'[r] = Error
           \/ served'[r] = None
    BY <1>13, Lookup
  <2>3. reader[url[r]] # None => Matched(FromArchive(url[r]), url[r], url)
    BY <1>1, <1>3, <2>1, FromArchiveMatched DEF Matched
  <2> QED BY <2>2, <2>3
<1>14. served'[r] \notin {None, Error} => Matched(served'[r], url'[r], url')
  BY <1>7, <1>8, <1>9, <1>10, <1>11, <1>12, <1>13 DEF StepOf, Handler, Worker
<1>15. ASSUME NEW q \in Request, q # r, served'[q] \notin {None, Error}
       PROVE  Matched(served'[q], url'[q], url')
  <2>1. served'[q] = served[q]
    BY <1>1, <1>15, Frame
  <2> QED BY <1>4, <1>15, <2>1
<1> QED BY <1>14, <1>15 DEF ServedMatched

-----------------------------------------------------------------------------
(* The second invariant holds.                                              *)

LEMMA RequestInvariantInit == Init => RequestInvariant
<1> SUFFICES ASSUME Init PROVE RequestInvariant
  OBVIOUS
<1>1. accepted = [f \in File |-> None]
  BY DEF Init, Store!Init, Store!Nothing
<1>2. ASSUME NEW r \in Request
      PROVE  Waiting(r) /\ SentBefore(r) /\ ServedFresh(r) /\ RecordingGood(r)
  <2>1. /\ pc[r] = "new" /\ url[r] = None /\ resp[r] = None /\ sends[r] = 0
        /\ served[r] = None
    BY DEF Init
  <2> QED BY <2>1 DEF Waiting, SentBefore, ServedFresh, RecordingGood
<1>3. ReaderOwn
  <2>1. \A u \in Url : reader[u] \in ArchivedEntries(u)
    BY DEF Init
  <2> QED BY <2>1 DEF ReaderOwn, ArchivedEntries
<1>4. PageNotReplacedByFailure
  BY DEF Init, PageNotReplacedByFailure
<1>5. RecordedMatched
  <2>1. fileOf \in [Url -> File] /\ \A u \in Url : headerWriter[u] = None
    BY DEF Init
  <2> QED BY <1>1, <2>1 DEF RecordedMatched
<1>6. ServedMatched
  BY DEF Init, ServedMatched
<1> QED BY <1>2, <1>3, <1>4, <1>5, <1>6 DEF RequestInvariant

LEMMA RequestInvariantStep ==
  Invariant /\ RequestInvariant /\ [Next]_vars => RequestInvariant'
<1> SUFFICES ASSUME Invariant, RequestInvariant, [Next]_vars PROVE RequestInvariant'
  OBVIOUS
<1>1. TypeOK
  BY DEF Invariant
<1>2. /\ \A r \in Request :
           Waiting(r) /\ SentBefore(r) /\ ServedFresh(r) /\ RecordingGood(r)
      /\ ReaderOwn /\ PageNotReplacedByFailure /\ RecordedMatched /\ ServedMatched
  BY DEF RequestInvariant
<1>3. CASE UNCHANGED vars
  BY <1>2, <1>3
  DEF vars, RequestInvariant, Waiting, SentBefore, ServedFresh, RecordingGood, ReaderOwn,
      PageNotReplacedByFailure, RecordedMatched, ServedMatched, Matched, Injective
<1>4. ASSUME NEW r \in Request, StepOf(r) PROVE RequestInvariant'
  <2>1. Waiting(r)' /\ SentBefore(r)' /\ ServedFresh(r)' /\ RecordingGood(r)'
    BY <1>2, <1>4, WaitingStep, SentBeforeStep, ServedFreshStep, RecordingGoodStep
  <2>2. ASSUME NEW q \in Request, q # r
        PROVE  Waiting(q)' /\ SentBefore(q)' /\ ServedFresh(q)' /\ RecordingGood(q)'
    <3>1. /\ UNCHANGED <<settings, reader>>
          /\ pc'[q] = pc[q] /\ url'[q] = url[q] /\ resp'[q] = resp[q]
          /\ served'[q] = served[q] /\ sends'[q] = sends[q]
      BY <1>1, <1>4, <2>2, Frame
    <3>2. Waiting(q) /\ SentBefore(q) /\ ServedFresh(q) /\ RecordingGood(q)
      BY <1>2
    <3> QED BY <3>1, <3>2 DEF Waiting, SentBefore, ServedFresh, RecordingGood
  <2>3. ReaderOwn'
    BY <1>1, <1>2, <1>4, Frame DEF ReaderOwn
  <2>4. PageNotReplacedByFailure' /\ RecordedMatched' /\ ServedMatched'
    BY <1>2, <1>4, PageKept, RecordedMatchedStep, ServedMatchedStep
  <2> QED BY <2>1, <2>2, <2>3, <2>4 DEF RequestInvariant
<1> QED BY <1>3, <1>4 DEF Next, Terminated, StepOf

\* What each request was answered with and what is recorded fit together, in
\* every state.
THEOREM RequestInvariance == Spec => [](Invariant /\ RequestInvariant)
<1>1. Init => Invariant /\ RequestInvariant
  BY InvariantInit, RequestInvariantInit
<1>2. (Invariant /\ RequestInvariant) /\ [Next]_vars => (Invariant /\ RequestInvariant)'
  BY InvariantStep, RequestInvariantStep
<1> QED BY <1>1, <1>2, PTL DEF Spec

\* An archived page is not replaced by an error page (handle_response), however
\* the download went and whichever requests for the page race.
THEOREM NeverReplacedByFailure == Spec => []PageNotReplacedByFailure
<1>1. RequestInvariant => PageNotReplacedByFailure
  BY DEF RequestInvariant
<1> QED BY <1>1, RequestInvariance, PTL

\* While every URL has its own file name, a header is sent with its own body and
\* for its own URL (serve_file), from whichever of the three sources.
THEOREM AlwaysBelongTogether == Spec => []AnswersArePaired
<1>1. RequestInvariant => AnswersArePaired
  <2> SUFFICES ASSUME RequestInvariant, Injective, NEW r \in Request,
                      served[r] \notin {None, Error}
               PROVE  /\ served[r].body \in {None, served[r].from}
                      /\ served[r].from = url[r] \/ url[served[r].from] = url[r]
    BY DEF AnswersArePaired, Injective
  <2> QED BY DEF RequestInvariant, ServedMatched, Matched
<1> QED BY <1>1, RequestInvariance, PTL

\* Unless the policy serves archived pages, a complete response that was waited
\* for is what the browser gets (handle_response), event streams included.
THEOREM AlwaysFresh == Spec => []FreshIsServed
<1>1. Invariant /\ RequestInvariant => FreshIsServed
  BY DEF RequestInvariant, ServedFresh, FreshIsServed
<1> QED BY <1>1, RequestInvariance, PTL

-----------------------------------------------------------------------------
(* Nothing is sent twice, where this can be said.                           *)

\* What keeps a second response from being sent: no response is incomplete, or
\* nothing is sent before the download has ended, because no policy serves
\* outdated pages first and no upstream server opens event streams.
Undisturbed ==
  \/ \A a \in Upstream : ~a.error
  \/ "last" \notin ServePolicies /\ \A a \in Upstream : ~a.more

LEMMA AnsweredOnceStep ==
  ASSUME Undisturbed, Invariant, RequestInvariant, AnsweredOnce, [Next]_vars
  PROVE  AnsweredOnce'
<1>1. /\ TypeOK /\ Begun /\ Arrived
      /\ \A r \in Request : Waiting(r) /\ SentBefore(r)
  BY DEF Invariant, RequestInvariant
<1>2. ASSUME NEW r \in Request, StepOf(r) PROVE sends'[r] <= 1
  <2>1. sends[r] \in Nat /\ sends[r] <= 1
    BY <1>1 DEF TypeOK, AnsweredOnce
  <2>2. ASSUME AnswerError(r) PROVE sends[r] = 0
    <3>1. /\ pc[r] = "answering" /\ resp[r].error
          /\ resp[r].status \in Good \/ reader[url[r]] = None
      BY <2>2 DEF AnswerError
    <3>2. resp[r] \in Upstream \/ resp[r] = NoConnection
      BY <1>1, <3>1 DEF Arrived
    <3>3. settings.serve \in ServePolicies
      BY <1>1 DEF TypeOK
    <3>4. NoConnection.status \notin Good
      BY DEF NoConnection, Good
    <3>5. CASE \A a \in Upstream : ~a.error
      BY <1>1, <2>1, <3>1, <3>2, <3>4, <3>5 DEF SentBefore
    <3>6. CASE "last" \notin ServePolicies /\ \A a \in Upstream : ~a.more
      BY <1>1, <2>1, <3>1, <3>3, <3>6 DEF SentBefore
    <3> QED BY <3>5, <3>6 DEF Undisturbed
  <2>3. ASSUME \/ ServeBlocked(r) \/ AnswerError(r) \/ AnswerFromArchive(r)
               \/ AnswerResponse(r) \/ Replay(r)
        PROVE  sends'[r] <= 1
    BY <1>1, <2>1, <2>2, <2>3, Answering
  <2>4. ASSUME HandleFileRequest(r) PROVE sends'[r] <= 1
    <3>1. sends'[r] \in {0, 1}
      BY <1>1, <2>4, Lookup
    <3> QED BY <3>1
  <2>5. ASSUME \/ \E u \in Url : Receive(r, u)
               \/ QueueReplay(r) \/ NotRecorded(r) \/ ReadReplay(r) \/ Connect(r)
               \/ ConnectFails(r) \/ Keep(r) \/ Record(r)
               \/ \E a \in Upstream : Respond(r, a)
        PROVE  sends'[r] <= 1
    BY <2>1, <2>5 DEF Receive, QueueReplay, NotRecorded, ReadReplay, Connect,
      ConnectFails, Keep, Record, Respond
  <2> QED BY <1>2, <2>3, <2>4, <2>5 DEF StepOf, Handler, Worker
<1>3. ASSUME NEW r \in Request, StepOf(r) PROVE AnsweredOnce'
  <2>1. \A q \in Request : q # r => sends'[q] = sends[q]
    BY <1>1, <1>3, Frame
  <2> QED BY <1>2, <1>3, <2>1 DEF AnsweredOnce
<1>4. CASE UNCHANGED vars
  BY <1>4 DEF vars, AnsweredOnce
<1> QED BY <1>3, <1>4 DEF Next, Terminated, StepOf

\* Nothing is sent twice for a request (assert in send_response) when nothing
\* disturbs it; with an incomplete response after an outdated page, or after an
\* event of a stream, the assertion fails.
THEOREM NeverTwice == Undisturbed => (Spec => []AnsweredOnce)
<1> SUFFICES ASSUME Undisturbed PROVE Spec => []AnsweredOnce
  OBVIOUS
<1>1. Init => AnsweredOnce
  BY DEF Init, AnsweredOnce
<1>2. (Invariant /\ RequestInvariant) /\ AnsweredOnce /\ [Next]_vars => AnsweredOnce'
  BY AnsweredOnceStep
<1> QED BY <1>1, <1>2, RequestInvariance, PTL DEF Spec
=============================================================================

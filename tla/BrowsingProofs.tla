----------------------------- MODULE BrowsingProofs -----------------------------
(***************************************************************************)
(* Theorems about Browsing for any requests, responses and block list, and *)
(* any number of requests.                                                 *)
(***************************************************************************)
EXTENDS Browsing, SequenceTheorems, WellFoundedInduction, TLAPS

-----------------------------------------------------------------------------
(* What a step notes.                                                      *)

\* Both histories are sequences, of whatever was noted.
Histories ==
  /\ journal \in Seq(Range(journal))
  /\ replayed \in Seq(Range(replayed))

\* A longer history has the same beginning.
LEMMA Longer ==
  ASSUME NEW history, history \in Seq(Range(history)), NEW note,
         NEW next, next = Append(history, note)
  PROVE  /\ Len(history) \in Nat /\ DOMAIN history = 1..Len(history)
         /\ next \in Seq(Range(next))
         /\ Len(next) = Len(history) + 1 /\ DOMAIN next = 1..Len(history) + 1
         /\ \A i \in 1..Len(history) : next[i] = history[i]
         /\ next[Len(history) + 1] = note
<1> DEFINE S == Range(history) \cup {note}
<1>1. history \in Seq(S) /\ note \in S
  BY SeqMonotonic
<1>2. /\ next \in Seq(S)
      /\ Len(next) = Len(history) + 1
      /\ \A i \in 1..Len(history) : next[i] = history[i]
      /\ next[Len(history) + 1] = note
  BY <1>1, AppendProperties
<1>3. Len(history) \in Nat /\ DOMAIN history = 1..Len(history) /\ DOMAIN next = 1..Len(next)
  BY <1>1, <1>2, LenProperties
<1>4. next \in Seq(Range(next))
  <2>1. next = [i \in 1..Len(next) |-> next[i]] /\ Len(next) \in Nat
    BY <1>2, <1>3, LenProperties
  <2>2. \A i \in 1..Len(next) : next[i] \in Range(next)
    BY <1>3, <1>2 DEF Range
  <2>3. next \in [1..Len(next) -> Range(next)]
    BY <2>1, <2>2
  <2> QED BY <2>1, <2>3, SeqDef
<1> QED BY <1>2, <1>3, <1>4

\* What is noted of a request.
Noted(r, url, answer, response) ==
  [request |-> r, url |-> url, answer |-> answer, response |-> response, known |-> Known']

\* A note is added to the history of the session.
LEMMA Noting ==
  ASSUME Histories, NEW r, NEW url, NEW answer, NEW response,
         Note(r, url, answer, response)
  PROVE  LET note == Noted(r, url, answer, response)
         IN /\ Histories'
            /\ \/ session = "recording" /\ replayed' = replayed /\ journal' = Append(journal, note)
               \/ session # "recording" /\ journal' = journal /\ replayed' = Append(replayed, note)
<1> DEFINE note == Noted(r, url, answer, response)
<1>1. \/ session = "recording" /\ replayed' = replayed /\ journal' = Append(journal, note)
      \/ session # "recording" /\ journal' = journal /\ replayed' = Append(replayed, note)
  BY DEF Note, Noted
<1> HIDE DEF note
<1>2. Histories'
  BY <1>1, Longer DEF Histories
<1> QED BY <1>1, <1>2 DEF note

\* An answer that comes with a response of a web site, now or from an archive.
Serves(r, url, response, body) ==
  /\ IsServable(r, url)
  /\ serve_file(r, url, response, body)
  /\ UNCHANGED <<settings, session, reader>>
  /\ \/ UNCHANGED writer
     \/ async_write_file(IdentityOf(r, url), response, body)

\* Web sites remain what they are.
LEMMA SitesAreFixed ==
  ASSUME TypeOK, [Next]_vars
  PROVE  /\ \A target \in DOMAIN site : target \in DOMAIN site' /\ site'[target] = site[target]
         /\ \A target \in DOMAIN site' : site'[target] \in Responses
<1>1. CASE UNCHANGED site
  BY <1>1 DEF TypeOK
<1>2. ASSUME NEW r, NEW url, handle_response(r, url)
      PROVE  /\ \A target \in DOMAIN site : target \in DOMAIN site' /\ site'[target] = site[target]
             /\ \A target \in DOMAIN site' : site'[target] \in Responses
  <2> DEFINE target == Target(r, url)
  <2>1. PICK response \in IF target \in DOMAIN site THEN {site[target]} ELSE Responses :
          site' = Assign(site, target, response)
    BY <1>2 DEF handle_response
  <2>2. /\ DOMAIN site' = DOMAIN site \cup {target}
        /\ \A t \in DOMAIN site' : site'[t] = IF t = target THEN response ELSE site[t]
    BY <2>1 DEF Assign
  <2> HIDE DEF target
  <2> QED BY <2>1, <2>2 DEF TypeOK
<1> QED
  BY <1>1, <1>2
  DEF Next, vars, send_cors_response, ServeScript, SetCookie, serve_blocked,
      serve_previously_served, handle_file_request, NotArchived, InvalidScheme, Reply, Shutdown

\* How a request is answered without a response, and whether one could be had.
OwnStatus(r) ==
  CASE r.method = "OPTIONS" -> "no content"
    [] r.method # "OPTIONS" /\ Last(r.path) = "__webrecorder.js" -> "script"
    [] r.method # "OPTIONS" /\ Last(r.path) = "__webrecorder_setcookie" -> "no content"
    [] OTHER -> "unavailable"
IsHttp(url) == get_scheme(url) \in {<<"http">>, <<"https">>}

\* An answer without a response.
Replies(r, url, status) ==
  /\ Reply(r, url, status)
  /\ ~IsServable(r, url) => status = OwnStatus(r)
  /\ IsServable(r, url) =>
       \/ status = "exception" /\ ~IsHttp(url)
       \/ status = "unavailable" /\ Offline /\ ~Archived(r, url)

\* An answer with a response.
Serving(r, url) ==
  serve_previously_served(r, url) \/ handle_file_request(r, url) \/ handle_response(r, url)

\* A step answers a request with a reply of the server or with a response, or ends the
\* session.
LEMMA AnswerKinds ==
  ASSUME [Next]_vars
  PROVE  \/ \E r \in NextRequests : \E status : Replies(r, UrlOf(r), status)
         \/ \E r \in NextRequests : Serving(r, UrlOf(r))
         \/ \E download \in {"standard", "never"} : Shutdown(download)
         \/ UNCHANGED vars
<1>1. ASSUME NEW r \in NextRequests, NEW url,
             \/ send_cors_response(r, url) \/ ServeScript(r, url) \/ SetCookie(r, url)
             \/ serve_blocked(r, url)
      PROVE  Replies(r, url, OwnStatus(r))
  <2>1. ~IsServable(r, url)
    BY <1>1 DEF send_cors_response, ServeScript, SetCookie, serve_blocked, IsServable, IsFile,
                IsSpecial
  <2>2. CASE send_cors_response(r, url)
    BY <2>1, <2>2 DEF send_cors_response, Replies, OwnStatus
  <2>3. CASE ServeScript(r, url)
    BY <2>1, <2>3 DEF ServeScript, Replies, OwnStatus
  <2>4. CASE SetCookie(r, url)
    BY <2>1, <2>4 DEF SetCookie, Replies, OwnStatus
  <2>5. CASE serve_blocked(r, url)
    <3>1. OwnStatus(r) = "unavailable"
      BY <2>5 DEF serve_blocked, IsFile, IsSpecial, OwnStatus
    <3> QED BY <2>1, <2>5, <3>1 DEF serve_blocked, Replies
  <2> QED BY <1>1, <2>2, <2>3, <2>4, <2>5
<1>2. ASSUME NEW r \in NextRequests, NEW url, NotArchived(r, url)
      PROVE  Replies(r, url, "unavailable")
  BY <1>2 DEF NotArchived, Replies
<1>3. ASSUME NEW r \in NextRequests, NEW url, InvalidScheme(r, url)
      PROVE  Replies(r, url, "exception")
  BY <1>3 DEF InvalidScheme, ForwardsRequest, Replies, IsHttp
<1> QED BY <1>1, <1>2, <1>3 DEF Next, Serving

\* Whoever serves, serves a response of a web site, and a body that one has sent.
LEMMA ServingServes ==
  ASSUME TypeOK, [Next]_vars, NEW r \in NextRequests, Serving(r, UrlOf(r))
  PROVE  \E response \in Responses, body \in DOMAIN site' \cup {None} :
           Serves(r, UrlOf(r), response, body)
<1>1. ASSUME NEW url, url = UrlOf(r), serve_previously_served(r, url)
      PROVE  \E response \in Responses, body \in DOMAIN site' \cup {None} : Serves(r, url, response, body)
  <2>1. /\ writer.headers[IdentityOf(r, url)] \in Responses
        /\ Contents(writer.files, IdentityOf(r, url)) \in DOMAIN site' \cup {None}
    BY <1>1, SitesAreFixed DEF serve_previously_served, Previously, TypeOK, Contents
  <2> QED BY <1>1, <2>1 DEF serve_previously_served, Serves
<1>2. ASSUME NEW url, Archived(r, url), IsServable(r, url),
             ServeFromArchive(r, url), UNCHANGED <<settings, session, reader>>
      PROVE  \E response \in Responses, body \in DOMAIN site' \cup {None} : Serves(r, url, response, body)
  <2>1. /\ reader.headers[IdentityOf(r, url)] \in Responses
        /\ Contents(reader.files, IdentityOf(r, url)) \in DOMAIN site' \cup {None}
    BY <1>2, SitesAreFixed DEF Archived, TypeOK, Contents
  <2> QED BY <1>2, <2>1 DEF ServeFromArchive, Serves
<1>3. ASSUME NEW url, url = UrlOf(r),
             handle_file_request(r, url)
      PROVE  \E response \in Responses, body \in DOMAIN site' \cup {None} : Serves(r, url, response, body)
  BY <1>2, <1>3 DEF handle_file_request
<1>4. ASSUME NEW url, url = UrlOf(r), handle_response(r, url)
      PROVE  \E response \in Responses, body \in DOMAIN site' \cup {None} : Serves(r, url, response, body)
  <2>1. IsServable(r, url) /\ UNCHANGED <<settings, session, reader>>
    BY <1>4 DEF handle_response, ForwardsRequest
  <2> DEFINE target == Target(r, url)
  <2>2. PICK response \in IF target \in DOMAIN site THEN {site[target]} ELSE Responses :
          /\ site' = Assign(site, target, response)
          /\ IF response.status \notin {"ok", "moved"} /\ Archived(r, url)
             THEN ServeFromArchive(r, url)
             ELSE LET body == IF response.empty THEN None ELSE target
                  IN /\ serve_file(r, url, response, body)
                     /\ async_write_file(IdentityOf(r, url), response, body)
    BY <1>4 DEF handle_response
  <2>3. response \in Responses /\ target \in DOMAIN site'
    BY <2>2 DEF TypeOK, Assign
  <2>4. CASE ServeFromArchive(r, url) /\ Archived(r, url)
    BY <1>2, <2>1, <2>4
  <2>5. CASE \E body \in {None, target} : /\ serve_file(r, url, response, body)
                                         /\ async_write_file(IdentityOf(r, url), response, body)
    BY <2>1, <2>3, <2>5 DEF Serves
  <2> QED BY <2>2, <2>4, <2>5
<1> QED BY <1>1, <1>3, <1>4 DEF Serving

\* Every step is an answer of one of the two kinds, or ends the session.
LEMMA StepKinds ==
  ASSUME TypeOK, [Next]_vars
  PROVE  \/ \E r \in NextRequests : \E status : Replies(r, UrlOf(r), status)
         \/ \E r \in NextRequests, response \in Responses, body \in DOMAIN site' \cup {None} :
              Serves(r, UrlOf(r), response, body)
         \/ \E download \in {"standard", "never"} : Shutdown(download)
         \/ UNCHANGED vars
BY AnswerKinds, ServingServes

\* A session never has more to answer than was bounded, or recorded.
LEMMA NextRequestsBounded ==
  ASSUME Histories, NEW r \in NextRequests
  PROVE  /\ session = "recording" => Len(journal) < MaxRequests
         /\ session # "recording" =>
              Len(replayed) < Len(journal) /\ r = journal[Len(replayed) + 1].request
<1>1. /\ DOMAIN journal = 1..Len(journal) /\ Len(journal) \in Nat
      /\ Len(replayed) \in Nat
  BY Longer DEF Histories
<1> QED BY <1>1 DEF NextRequests

-----------------------------------------------------------------------------
(* Types.                                                                  *)

\* The first session begins well-formed.
LEMMA TypeInit == Init => TypeOK /\ Histories
<1> SUFFICES ASSUME Init PROVE TypeOK /\ Histories
  OBVIOUS
<1>1. journal = <<>> /\ replayed = <<>> /\ Len(<<>>) = 0
  BY DEF Init
<1>2. Histories
  BY <1>1 DEF Histories
<1>3. settings \in [url : Starts, download : {"standard", "never"}]
  BY DEF Init
<1>4. /\ DOMAIN reader.headers = {} /\ DOMAIN reader.files = {}
      /\ DOMAIN writer.headers = {} /\ DOMAIN writer.files = {}
      /\ DOMAIN site = {} /\ DOMAIN transport_security = {}
  BY DEF Init, NoArchive, Empty
<1>5. /\ Len(journal) <= MaxRequests /\ Len(replayed) <= Len(journal)
      /\ session = "recording" /\ threads_started \in BOOLEAN
  <2>1. Len(journal) = 0 /\ Len(replayed) = 0 /\ MaxRequests \in Nat
    BY <1>1, BrowsingAssumption
  <2>2. session = "recording"
    BY DEF Init
  <2>3. threads_started \in BOOLEAN
    BY Zenon DEF Init
  <2>4. Len(journal) <= MaxRequests /\ Len(replayed) <= Len(journal)
    BY <2>1
  <2> QED BY <2>2, <2>3, <2>4
<1>6. TypeOK
  BY <1>3, <1>4, <1>5 DEF TypeOK
<1> QED BY <1>2, <1>6

\* The types of the archive that is written.
LEMMA WriterType ==
  ASSUME TypeOK, [Next]_vars, NEW identity, NEW response \in Responses,
         NEW body \in DOMAIN site' \cup {None},
         UNCHANGED writer \/ async_write_file(identity, response, body)
  PROVE  /\ \A i \in DOMAIN writer'.headers : writer'.headers[i] \in Responses
         /\ \A name \in DOMAIN writer'.files : writer'.files[name] \in DOMAIN site'
<1>1. CASE UNCHANGED writer
  BY <1>1, SitesAreFixed DEF TypeOK
<1>2. CASE /\ writer'.headers = Assign(writer.headers, identity, response)
           /\ writer'.files = IF body = None THEN writer.files
                              ELSE Assign(writer.files, to_local_filename(identity), body)
  <2>1. \A i \in DOMAIN writer'.headers : writer'.headers[i] \in Responses
    BY <1>2 DEF TypeOK, Assign
  <2>2. \A name \in DOMAIN writer'.files : writer'.files[name] \in DOMAIN site'
    <3>1. CASE body = None
      BY <1>2, <3>1, SitesAreFixed DEF TypeOK
    <3>2. CASE body # None
      BY <1>2, <3>2, SitesAreFixed DEF TypeOK, Assign
    <3> QED BY <3>1, <3>2
  <2> QED BY <2>1, <2>2
<1> QED BY <1>1, <1>2 DEF async_write_file

\* Steps leave the state of both sessions well-formed.
LEMMA TypeStep == TypeOK /\ Histories /\ [Next]_vars => TypeOK' /\ Histories'
<1> SUFFICES ASSUME TypeOK, Histories, [Next]_vars PROVE TypeOK' /\ Histories'
  OBVIOUS
<1>1. ASSUME Histories', UNCHANGED <<settings, session, reader>>,
             threads_started' \in BOOLEAN,
             \A host \in DOMAIN transport_security' : transport_security'[host] \in BOOLEAN,
             \A i \in DOMAIN writer'.headers : writer'.headers[i] \in Responses,
             \A name \in DOMAIN writer'.files : writer'.files[name] \in DOMAIN site',
             Len(journal') <= MaxRequests, Len(replayed') <= Len(journal')
      PROVE  TypeOK'
  BY <1>1, SitesAreFixed DEF TypeOK
<1>2. ASSUME NEW r \in NextRequests, NEW url, NEW answer, NEW response,
             Note(r, url, answer, response)
      PROVE  Histories' /\ Len(journal') <= MaxRequests /\ Len(replayed') <= Len(journal')
  <2>1. /\ Histories'
        /\ \/ session = "recording" /\ replayed' = replayed
              /\ journal' = Append(journal, Noted(r, url, answer, response))
           \/ session # "recording" /\ journal' = journal
              /\ replayed' = Append(replayed, Noted(r, url, answer, response))
    BY <1>2, Noting
  <2>2. Len(journal) \in Nat /\ Len(replayed) \in Nat
    BY Longer DEF Histories
  <2>3. /\ session = "recording" => Len(journal') = Len(journal) + 1
        /\ session # "recording" => Len(replayed') = Len(replayed) + 1
    BY <2>1, Longer DEF Histories
  <2> QED BY <2>1, <2>2, <2>3, NextRequestsBounded, BrowsingAssumption DEF TypeOK
<1>3. ASSUME NEW r \in NextRequests, NEW status, Replies(r, UrlOf(r), status)
      PROVE  TypeOK' /\ Histories'
  <2>1. Histories' /\ Len(journal') <= MaxRequests /\ Len(replayed') <= Len(journal')
    BY <1>2, <1>3 DEF Replies, Reply
  <2> QED BY <1>1, <1>3, <2>1, SitesAreFixed DEF Replies, Reply, TypeOK
<1>4. ASSUME NEW r \in NextRequests, NEW response \in Responses,
             NEW body \in DOMAIN site' \cup {None}, Serves(r, UrlOf(r), response, body)
      PROVE  TypeOK' /\ Histories'
  <2>1. serve_file(r, UrlOf(r), response, body)
    BY <1>4 DEF Serves
  <2>2. Histories' /\ Len(journal') <= MaxRequests /\ Len(replayed') <= Len(journal')
    BY <1>2, <2>1 DEF serve_file
  <2>3. threads_started' \in BOOLEAN
    BY <2>1 DEF serve_file, handle_initial_redirects, TypeOK
  <2>4. \A host \in DOMAIN transport_security' : transport_security'[host] \in BOOLEAN
    BY <2>1 DEF serve_file, set_strict_transport_security, Assign, TypeOK
  <2>5. /\ \A i \in DOMAIN writer'.headers : writer'.headers[i] \in Responses
        /\ \A name \in DOMAIN writer'.files : writer'.files[name] \in DOMAIN site'
    BY <1>4, WriterType DEF Serves
  <2> QED BY <1>1, <1>4, <2>2, <2>3, <2>4, <2>5 DEF Serves
<1>5. ASSUME NEW download \in {"standard", "never"}, Shutdown(download)
      PROVE  TypeOK' /\ Histories'
  <2>1. settings' \in [url : Starts, download : {"standard", "never"}]
    BY <1>5 DEF Shutdown, TypeOK
  <2>2. /\ DOMAIN writer'.headers = {} /\ DOMAIN writer'.files = {}
        /\ DOMAIN transport_security' = {} /\ reader' = writer
    BY <1>5 DEF Shutdown, NoArchive, Empty
  <2> QED BY <1>5, <2>1, <2>2 DEF Shutdown, TypeOK, Histories
<1>6. CASE UNCHANGED vars
  BY <1>6 DEF vars, base, TypeOK, Histories
<1> QED BY <1>3, <1>4, <1>5, <1>6, StepKinds

\* The state of both sessions is well-formed for any requests and responses,
\* and what is archived comes from a web site.
THEOREM TypeCorrect == Spec => [](TypeOK /\ Histories)
BY TypeInit, TypeStep, PTL DEF Spec

-----------------------------------------------------------------------------
(* What a session has learnt, and the answers that follow from it.          *)

\* The state in which both sessions begin.
Initially ==
  [server_base |-> get_scheme_hostname_port(settings.url),
   server_base_path |-> get_scheme_hostname_port_path(settings.url),
   threads_started |-> FALSE, transport_security |-> Empty]

\* The URL that a request means to a session (UrlOf).
Meaning(known, r) ==
  LET url == WithQuery(to_absolute_url(unpatch_url(r.path), known.server_base), r.query)
      security == known.transport_security
  IN IF get_scheme(url) = <<"http">>
          /\ \E host \in DOMAIN security : MatchesHost(url, host, security[host])
     THEN <<"https">> \o Tail(url) ELSE url

\* What a response teaches it (handle_initial_redirects,
\* set_strict_transport_security).
Redirects(known, url, response) ==
  /\ ~known.threads_started
  /\ response.status = "moved"
  /\ IsPrefix(known.server_base_path, url) /\ response.location # None
Taught(known, url, response) ==
  [server_base |-> IF Redirects(known, url, response)
                   THEN get_scheme_hostname_port(response.location) ELSE known.server_base,
   server_base_path |-> IF Redirects(known, url, response)
                        THEN get_scheme_hostname_port_path(response.location)
                        ELSE known.server_base_path,
   threads_started |-> known.threads_started \/ response.status # "moved",
   transport_security |->
     IF response.security = "none" \/ get_hostname_port(url) \in DOMAIN known.transport_security
     THEN known.transport_security
     ELSE Assign(known.transport_security, get_hostname_port(url),
                 response.security = "domains")]

Location(known, url, response) ==
  IF response.location = None THEN None
  ELSE to_relative_url(to_absolute_url(response.location, url), known.server_base)

\* A note follows from what the session knew before.
Follows(note, before) ==
  /\ note.url = Meaning(before, note.request)
  /\ \/ /\ note.response \in Responses
        /\ IsServable(note.request, note.url)
        /\ note.known = Taught(before, note.url, note.response)
        /\ note.answer = Answer(note.response.status,
                                Location(note.known, note.url, note.response),
                                note.answer.body)
     \/ /\ note.response = None
        /\ note.known = before
        /\ note.answer = Answer(note.answer.status, None, None)
        /\ ~IsServable(note.request, note.url) =>
             note.answer.status = OwnStatus(note.request)

KnownBefore(history, i) == IF i = 1 THEN Initially ELSE history[i - 1].known

Learning ==
  /\ \A i \in DOMAIN journal :
       /\ Follows(journal[i], KnownBefore(journal, i))
       /\ journal[i].response = None /\ IsServable(journal[i].request, journal[i].url) =>
            ~IsHttp(journal[i].url) /\ journal[i].answer.status = "exception"
  /\ \A i \in DOMAIN replayed : Follows(replayed[i], KnownBefore(replayed, i))
  /\ Known = KnownBefore(Done, Len(Done) + 1)

-----------------------------------------------------------------------------
(* What is archived.                                                       *)

Identity(note) == IdentityOf(note.request, note.url)
TargetOf(note) == Target(note.request, note.url)
BodyOf(response, target) == IF response.empty THEN None ELSE target

\* A request has its own file name among those of a history.
Own(history, r, url) ==
  \A i \in DOMAIN history :
    to_local_filename(Identity(history[i])) = to_local_filename(IdentityOf(r, url))
      => history[i].url = url /\ history[i].request.data = r.data

\* What was served in answer to a request of a history is in an archive.
Kept(sites, archive, note) ==
  LET target == TargetOf(note)
  IN /\ IsHttp(note.url)
     /\ target \in DOMAIN sites /\ sites[target] = note.response
     /\ note.answer.body = BodyOf(note.response, target)
     /\ Identity(note) \in DOMAIN archive.headers
     /\ archive.headers[Identity(note)] = note.response
     /\ Contents(archive.files, Identity(note)) = BodyOf(note.response, target)

\* An archive has what the web sites have answered the requests of a history,
\* and nothing else.
StoredOf(sites, archive, history) ==
  /\ \A i \in DOMAIN history : history[i].response # None => Kept(sites, archive, history[i])
  /\ \A identity \in DOMAIN archive.headers : \E i \in DOMAIN history :
       history[i].response # None /\ Identity(history[i]) = identity
  /\ \A name \in DOMAIN archive.files : \E i \in DOMAIN history :
       history[i].response # None /\ to_local_filename(Identity(history[i])) = name
Stored(archive, history) == StoredOf(site, archive, history)

\* The first session records, and the second does the same.
Recording ==
  session = "recording" =>
    /\ replayed = <<>> /\ reader = NoArchive /\ settings.download = "standard"
    /\ NamesAreDistinct => Stored(writer, journal)
Replaying ==
  session = "replaying" /\ NamesAreDistinct =>
    /\ Stored(reader, journal)
    /\ Stored(writer, replayed)
    /\ \A i \in DOMAIN replayed :
         /\ i \in DOMAIN journal
         /\ replayed[i].request = journal[i].request
         /\ replayed[i].url = journal[i].url
         /\ replayed[i].known = journal[i].known
         /\ replayed[i].response = journal[i].response

ReplayInvariant == Learning /\ Recording /\ Replaying

\* What a request means depends on what is known only.
LEMMA UrlIsMeaning == \A r : UrlOf(r) = Meaning(Known, r)
BY DEF UrlOf, Meaning, Known, apply_strict_transport_security

\* And so does what is learnt from the answer.
LEMMA ServingTeaches ==
  ASSUME TypeOK, NEW r, NEW url, NEW response, NEW body, serve_file(r, url, response, body)
  PROVE  /\ Known' = Taught(Known, url, response)
         /\ Note(r, url, Answer(response.status, Location(Known', url, response), body),
                 response)
<1>1. server_base' = Taught(Known, url, response).server_base
  BY DEF serve_file, handle_initial_redirects, set_server_base, Taught, Redirects, Known, base
<1>2. server_base_path' = Taught(Known, url, response).server_base_path
  BY DEF serve_file, handle_initial_redirects, set_server_base, Taught, Redirects, Known, base
<1>3. threads_started' = Taught(Known, url, response).threads_started
  BY DEF serve_file, handle_initial_redirects, Taught, Known, TypeOK
<1>4. transport_security' = Taught(Known, url, response).transport_security
  BY DEF serve_file, set_strict_transport_security, Taught, Known
<1>5. Known' = Taught(Known, url, response)
  BY <1>1, <1>2, <1>3, <1>4 DEF Known, Taught
<1>6. LocationOf(url, response) = Location(Known', url, response)
  BY DEF LocationOf, Location, Known
<1> QED BY <1>5, <1>6 DEF serve_file

\* A session learns nothing from a reply of the server itself.
LEMMA ReplyTeachesNothing ==
  ASSUME NEW r, NEW url, NEW status, Reply(r, url, status)
  PROVE  Known' = Known
BY DEF Reply, Known, base

\* Both sessions begin alike: only --download may differ.
LEMMA InitiallyRemains ==
  ASSUME TypeOK, [Next]_vars PROVE Initially' = Initially
<1>1. settings'.url = settings.url
  <2>1. CASE UNCHANGED settings
    BY <2>1
  <2>2. ASSUME NEW download \in {"standard", "never"}, Shutdown(download)
        PROVE  settings'.url = settings.url
    BY <2>2 DEF Shutdown, TypeOK
  <2> QED
    BY <2>1, <2>2, AnswerKinds
    DEF Replies, Reply, Serving, serve_previously_served, handle_file_request, handle_response,
        vars
<1> QED BY <1>1 DEF Initially

\* A note that follows from what is known continues a history.
LEMMA HistoryFollows ==
  ASSUME NEW history, history \in Seq(Range(history)), NEW first,
         \A i \in DOMAIN history :
           Follows(history[i], IF i = 1 THEN first ELSE history[i - 1].known),
         NEW note,
         Follows(note, IF Len(history) + 1 = 1 THEN first ELSE history[Len(history)].known),
         NEW next, next = Append(history, note)
  PROVE  /\ \A i \in DOMAIN next :
              Follows(next[i], IF i = 1 THEN first ELSE next[i - 1].known)
         /\ note.known = IF Len(next) + 1 = 1 THEN first ELSE next[Len(next)].known
<1>1. /\ Len(history) \in Nat /\ DOMAIN history = 1..Len(history)
      /\ Len(next) = Len(history) + 1 /\ DOMAIN next = 1..Len(history) + 1
      /\ \A i \in 1..Len(history) : next[i] = history[i]
      /\ next[Len(history) + 1] = note
  BY Longer
<1>2. ASSUME NEW i \in 1..Len(history)
      PROVE  Follows(next[i], IF i = 1 THEN first ELSE next[i - 1].known)
  <2>1. next[i] = history[i] /\ (i # 1 => next[i - 1] = history[i - 1])
    BY <1>1
  <2> QED BY <1>1, <2>1
<1>3. Follows(next[Len(history) + 1],
              IF Len(history) + 1 = 1 THEN first ELSE next[Len(history) + 1 - 1].known)
  <2>1. Len(history) + 1 - 1 = Len(history)
    BY <1>1
  <2>2. Len(history) + 1 # 1 => Len(history) \in 1..Len(history)
    BY <1>1
  <2>3. Len(history) + 1 # 1 => next[Len(history)] = history[Len(history)]
    BY <1>1, <2>2
  <2> QED BY <1>1, <2>1, <2>3
<1>4. \A i \in 1..Len(history) + 1 : i \in 1..Len(history) \/ i = Len(history) + 1
  BY <1>1
<1>5. \A i \in DOMAIN next : Follows(next[i], IF i = 1 THEN first ELSE next[i - 1].known)
  <2> SUFFICES ASSUME NEW i \in 1..Len(history) + 1
               PROVE  Follows(next[i], IF i = 1 THEN first ELSE next[i - 1].known)
    BY <1>1
  <2>1. CASE i \in 1..Len(history)
    BY <1>2, <2>1
  <2>2. CASE i = Len(history) + 1
    BY <1>3, <2>2
  <2> QED BY <1>4, <2>1, <2>2
<1>6. Len(next) + 1 # 1 /\ next[Len(next)] = note
  BY <1>1
<1> QED BY <1>5, <1>6

\* What the session knows follows from its notes after a step, if it did before.
LEMMA LearningStep ==
  ASSUME TypeOK, Histories, Learning, Recording, [Next]_vars
  PROVE  Learning'
<1> USE DEF Histories
<1>0. Initially' = Initially
  BY InitiallyRemains
<1>1. ASSUME NEW r \in NextRequests, NEW answer, NEW response,
             Note(r, UrlOf(r), answer, response), session' = session,
             Follows(Noted(r, UrlOf(r), answer, response), Known),
             session = "recording" /\ response = None /\ IsServable(r, UrlOf(r)) =>
               ~IsHttp(UrlOf(r)) /\ answer.status = "exception"
      PROVE  Learning'
  <2> DEFINE note == Noted(r, UrlOf(r), answer, response)
  <2>1. \/ session = "recording" /\ replayed' = replayed /\ journal' = Append(journal, note)
        \/ session # "recording" /\ journal' = journal /\ replayed' = Append(replayed, note)
    BY <1>1, Noting
  <2>2. /\ note.known = Known' /\ note.response = response /\ note.request = r
        /\ note.url = UrlOf(r) /\ note.answer = answer
    BY DEF Noted
  <2> HIDE DEF note
  <2>3. CASE session = "recording"
    <3>1. replayed' = replayed /\ journal' = Append(journal, note) /\ Done = journal
      BY <2>1, <2>3 DEF Done
    <3>2. Follows(note, IF Len(journal) + 1 = 1 THEN Initially ELSE journal[Len(journal)].known)
      <4>1. Known = KnownBefore(journal, Len(journal) + 1) /\ Len(journal) \in Nat
        BY <3>1, Longer DEF Learning
      <4> QED BY <1>1, <4>1 DEF KnownBefore, note
    <3>3. /\ \A i \in DOMAIN journal' :
               Follows(journal'[i], IF i = 1 THEN Initially ELSE journal'[i - 1].known)
          /\ note.known =
               IF Len(journal') + 1 = 1 THEN Initially ELSE journal'[Len(journal')].known
      BY <3>1, <3>2, HistoryFollows DEF Learning, KnownBefore
    <3>4. \A i \in DOMAIN journal' :
            journal'[i].response = None /\ IsServable(journal'[i].request, journal'[i].url) =>
              ~IsHttp(journal'[i].url) /\ journal'[i].answer.status = "exception"
      <4>1. /\ Len(journal) \in Nat /\ DOMAIN journal = 1..Len(journal)
            /\ DOMAIN journal' = 1..Len(journal) + 1
            /\ \A i \in 1..Len(journal) : journal'[i] = journal[i]
            /\ journal'[Len(journal) + 1] = note
        BY <3>1, Longer
      <4>2. ASSUME NEW i \in 1..Len(journal)
            PROVE  journal'[i].response = None
                     /\ IsServable(journal'[i].request, journal'[i].url) =>
                   ~IsHttp(journal'[i].url) /\ journal'[i].answer.status = "exception"
        BY <4>1 DEF Learning
      <4>3. note.response = None /\ IsServable(note.request, note.url) =>
              ~IsHttp(note.url) /\ note.answer.status = "exception"
        BY <1>1, <2>2, <2>3
      <4> QED BY <4>1, <4>2, <4>3
    <3>5. Done' = journal' /\ Len(journal') \in Nat
      BY <1>1, <2>3, <3>1, Longer DEF Done
    <3>6. \A i \in DOMAIN replayed' :
            Follows(replayed'[i], IF i = 1 THEN Initially ELSE replayed'[i - 1].known)
      BY <3>1 DEF Learning, KnownBefore
    <3> QED BY <1>0, <2>2, <3>3, <3>4, <3>5, <3>6 DEF Learning, KnownBefore
  <2>4. CASE session # "recording"
    <3>1. journal' = journal /\ replayed' = Append(replayed, note) /\ Done = replayed
      BY <2>1, <2>4 DEF Done
    <3>2. Follows(note,
                  IF Len(replayed) + 1 = 1 THEN Initially ELSE replayed[Len(replayed)].known)
      <4>1. Known = KnownBefore(replayed, Len(replayed) + 1) /\ Len(replayed) \in Nat
        BY <3>1, Longer DEF Learning
      <4> QED BY <1>1, <4>1 DEF KnownBefore, note
    <3>3. /\ \A i \in DOMAIN replayed' :
               Follows(replayed'[i], IF i = 1 THEN Initially ELSE replayed'[i - 1].known)
          /\ note.known =
               IF Len(replayed') + 1 = 1 THEN Initially ELSE replayed'[Len(replayed')].known
      BY <3>1, <3>2, HistoryFollows DEF Learning, KnownBefore
    <3>4. Done' = replayed' /\ Len(replayed') \in Nat
      BY <1>1, <2>4, <3>1, Longer DEF Done
    <3>5. \A i \in DOMAIN journal' :
            /\ Follows(journal'[i], IF i = 1 THEN Initially ELSE journal'[i - 1].known)
            /\ journal'[i].response = None /\ IsServable(journal'[i].request, journal'[i].url) =>
                 ~IsHttp(journal'[i].url) /\ journal'[i].answer.status = "exception"
      BY <3>1 DEF Learning, KnownBefore
    <3> QED BY <1>0, <2>2, <3>3, <3>4, <3>5 DEF Learning, KnownBefore
  <2> QED BY <2>3, <2>4
<1>2. ASSUME NEW r \in NextRequests, NEW status, Replies(r, UrlOf(r), status)
      PROVE  Learning'
  <2> DEFINE url == UrlOf(r)
             answer == Answer(status, None, None)
  <2>1. Reply(r, url, status) /\ Known' = Known
    BY <1>2, ReplyTeachesNothing DEF Replies
  <2>2. Note(r, url, answer, None) /\ session' = session
    BY <2>1 DEF Reply
  <2>3. session = "recording" /\ IsServable(r, url) => ~IsHttp(url) /\ status = "exception"
    BY <1>2 DEF Replies, Recording, Offline
  <2>4. Follows(Noted(r, url, answer, None), Known)
    BY <1>2, <2>1, UrlIsMeaning DEF Follows, Noted, Replies, Answer
  <2> QED BY <1>1, <2>2, <2>3, <2>4 DEF Answer
<1>3. ASSUME NEW r \in NextRequests, NEW response \in Responses,
             NEW body, Serves(r, UrlOf(r), response, body)
      PROVE  Learning'
  <2> DEFINE url == UrlOf(r)
             answer == Answer(response.status, Location(Known', url, response), body)
  <2>1. serve_file(r, url, response, body) /\ IsServable(r, url) /\ session' = session
    BY <1>3 DEF Serves
  <2>2. Known' = Taught(Known, url, response) /\ Note(r, url, answer, response)
    BY <2>1, ServingTeaches
  <2>3. Follows(Noted(r, url, answer, response), Known)
    BY <2>1, <2>2, UrlIsMeaning DEF Follows, Noted, Answer
  <2> QED BY <1>1, <2>1, <2>2, <2>3, BrowsingAssumption
<1>4. ASSUME NEW download \in {"standard", "never"}, Shutdown(download)
      PROVE  Learning'
  <2>1. Known' = Initially' /\ Initially' = Initially
    BY <1>0, <1>4 DEF Shutdown, Known, Initially
  <2>2. Done' = <<>> /\ replayed' = <<>> /\ journal' = journal
    BY <1>4 DEF Shutdown, Done, Recording
  <2>3. Known' = KnownBefore(Done, Len(Done) + 1)'
    BY <2>1, <2>2 DEF KnownBefore
  <2>4. \A i \in DOMAIN journal' :
          /\ Follows(journal'[i], IF i = 1 THEN Initially ELSE journal'[i - 1].known)
          /\ journal'[i].response = None /\ IsServable(journal'[i].request, journal'[i].url) =>
               ~IsHttp(journal'[i].url) /\ journal'[i].answer.status = "exception"
    BY <2>2 DEF Learning, KnownBefore
  <2> QED BY <1>0, <2>2, <2>3, <2>4 DEF Learning, KnownBefore
<1>5. CASE UNCHANGED vars
  <2>1. journal' = journal /\ replayed' = replayed /\ Known' = Known /\ Done' = Done
    BY <1>5 DEF vars, base, Known, Done
  <2> QED BY <1>0, <2>1 DEF Learning, KnownBefore
<1> QED BY <1>2, <1>3, <1>4, <1>5, StepKinds

-----------------------------------------------------------------------------
(* What is served is what the web site has answered.                       *)

\* An archive that has an entry for a request got it from the same one.
LEMMA Found ==
  ASSUME NEW archive, NEW history, Stored(archive, history), NEW r, NEW url,
         Own(history, r, url), IdentityOf(r, url) \in DOMAIN archive.headers
  PROVE  LET target == Target(r, url)
         IN /\ IsHttp(url)
            /\ target \in DOMAIN site /\ archive.headers[IdentityOf(r, url)] = site[target]
            /\ Contents(archive.files, IdentityOf(r, url)) = BodyOf(site[target], target)
            /\ \E i \in DOMAIN history :
                 history[i].response # None /\ Identity(history[i]) = IdentityOf(r, url)
<1>1. PICK i \in DOMAIN history :
        history[i].response # None /\ Identity(history[i]) = IdentityOf(r, url)
  BY DEF Stored, StoredOf
<1>2. history[i].url = url /\ history[i].request.data = r.data
  BY <1>1 DEF Own
<1>3. TargetOf(history[i]) = Target(r, url)
  BY <1>2 DEF TargetOf, Target
<1> QED BY <1>1, <1>2, <1>3 DEF Stored, StoredOf, Kept

\* A request whose file was written has an entry, too.
LEMMA FilesHaveEntries ==
  ASSUME NEW archive, NEW history, Stored(archive, history), NEW r, NEW url,
         Own(history, r, url),
         to_local_filename(IdentityOf(r, url)) \in DOMAIN archive.files
  PROVE  IdentityOf(r, url) \in DOMAIN archive.headers
<1>1. PICK i \in DOMAIN history :
        /\ history[i].response # None
        /\ to_local_filename(Identity(history[i])) = to_local_filename(IdentityOf(r, url))
  BY DEF Stored, StoredOf
<1>2. Identity(history[i]) = IdentityOf(r, url)
  BY <1>1 DEF Own, Identity, IdentityOf
<1> QED BY <1>1, <1>2 DEF Stored, StoredOf, Kept

\* What is recorded when a request is served: nothing if it was before.
Records(history, r, url, response, body) ==
  \/ /\ UNCHANGED writer
     /\ \E i \in DOMAIN history :
          history[i].response # None /\ Identity(history[i]) = IdentityOf(r, url)
     /\ writer.headers[IdentityOf(r, url)] = response
     /\ Contents(writer.files, IdentityOf(r, url)) = body
     /\ IdentityOf(r, url) \in DOMAIN writer.headers
  \/ /\ to_local_filename(IdentityOf(r, url)) \notin DOMAIN writer.files
     /\ async_write_file(IdentityOf(r, url), response, body)

\* While requests have file names of their own, one is always served what the
\* web site has answered it, from whichever source.
LEMMA ServedFromSite ==
  ASSUME TypeOK, [Next]_vars, NEW r, NEW url, Serving(r, url),
         NEW history, Stored(writer, history), Own(history, r, url),
         NEW older, Stored(reader, older), Own(older, r, url)
  PROVE  \E response \in Responses : LET target == Target(r, url)
                                         body == BodyOf(response, target)
         IN /\ IsHttp(url)
            /\ target \in DOMAIN site' /\ site'[target] = response
            /\ Serves(r, url, response, body)
            /\ Records(history, r, url, response, body)
<1> DEFINE identity == IdentityOf(r, url)
           target == Target(r, url)
<1>1. CASE serve_previously_served(r, url)
  <2>1. identity \in DOMAIN writer.headers
    BY <1>1 DEF serve_previously_served, Previously
  <2>2. /\ IsHttp(url) /\ target \in DOMAIN site
        /\ writer.headers[identity] = site[target]
        /\ Contents(writer.files, identity) = BodyOf(site[target], target)
        /\ \E i \in DOMAIN history : history[i].response # None /\ Identity(history[i]) = identity
    BY <2>1, Found
  <2>3. target \in DOMAIN site' /\ site'[target] = site[target] /\ site[target] \in Responses
    BY <2>2, SitesAreFixed DEF TypeOK
  <2>4. Serves(r, url, site[target], BodyOf(site[target], target))
    BY <1>1, <2>2 DEF serve_previously_served, Serves
  <2>5. Records(history, r, url, site[target], BodyOf(site[target], target))
    BY <1>1, <2>1, <2>2 DEF serve_previously_served, Records
  <2> QED BY <2>2, <2>3, <2>4, <2>5
<1>2. ASSUME ~Previously(r, url)
      PROVE  to_local_filename(identity) \notin DOMAIN writer.files
  BY <1>2, FilesHaveEntries DEF Previously
<1>3. ASSUME ~Previously(r, url), IsServable(r, url), Archived(r, url),
             ServeFromArchive(r, url), UNCHANGED <<settings, session, reader>>
      PROVE  /\ IsHttp(url)
             /\ target \in DOMAIN site' /\ site'[target] = site[target] /\ site[target] \in Responses
             /\ Serves(r, url, site[target], BodyOf(site[target], target))
             /\ Records(history, r, url, site[target], BodyOf(site[target], target))
  <2>1. /\ IsHttp(url) /\ target \in DOMAIN site
        /\ reader.headers[identity] = site[target]
        /\ Contents(reader.files, identity) = BodyOf(site[target], target)
    BY <1>3, Found DEF Archived
  <2>2. target \in DOMAIN site' /\ site'[target] = site[target] /\ site[target] \in Responses
    BY <2>1, SitesAreFixed DEF TypeOK
  <2>3. /\ serve_file(r, url, site[target], BodyOf(site[target], target))
        /\ async_write_file(identity, site[target], BodyOf(site[target], target))
    BY <1>3, <2>1 DEF ServeFromArchive
  <2> QED BY <1>2, <1>3, <2>1, <2>2, <2>3 DEF Serves, Records
<1>4. CASE handle_file_request(r, url)
  BY <1>3, <1>4 DEF handle_file_request
<1>5. CASE handle_response(r, url)
  <2>1. /\ IsServable(r, url) /\ ~Previously(r, url) /\ IsHttp(url)
        /\ UNCHANGED <<settings, session, reader>>
    BY <1>5 DEF handle_response, ForwardsRequest, IsHttp
  <2>2. PICK response \in IF target \in DOMAIN site THEN {site[target]} ELSE Responses :
          /\ site' = Assign(site, target, response)
          /\ IF response.status \notin {"ok", "moved"} /\ Archived(r, url)
             THEN ServeFromArchive(r, url)
             ELSE LET body == IF response.empty THEN None ELSE target
                  IN /\ serve_file(r, url, response, body)
                     /\ async_write_file(identity, response, body)
    BY <1>5 DEF handle_response
  <2>3. response \in Responses /\ target \in DOMAIN site' /\ site'[target] = response
    BY <2>2 DEF TypeOK, Assign
  <2>4. CASE Archived(r, url) /\ ServeFromArchive(r, url)
    BY <1>3, <2>1, <2>4
  <2>5. CASE /\ serve_file(r, url, response, BodyOf(response, target))
             /\ async_write_file(identity, response, BodyOf(response, target))
    BY <1>2, <2>1, <2>3, <2>5 DEF Serves, Records
  <2> QED BY <2>2, <2>4, <2>5 DEF BodyOf
<1> QED BY <1>1, <1>4, <1>5 DEF Serving

\* Sites that have answered more do not change what is stored.
LEMMA StoredGrows ==
  ASSUME NEW sites, NEW more,
         \A target \in DOMAIN sites : target \in DOMAIN more /\ more[target] = sites[target],
         NEW archive, NEW history, StoredOf(sites, archive, history)
  PROVE  StoredOf(more, archive, history)
BY DEF StoredOf, Kept

\* A note without response changes nothing either.
LEMMA StoredReply ==
  ASSUME NEW sites, NEW archive, NEW history, history \in Seq(Range(history)),
         StoredOf(sites, archive, history),
         NEW note, note.response = None, NEW next, next = Append(history, note)
  PROVE  StoredOf(sites, archive, next)
<1>1. /\ DOMAIN history = 1..Len(history) /\ Len(history) \in Nat
      /\ DOMAIN next = 1..Len(history) + 1
      /\ \A i \in 1..Len(history) : next[i] = history[i]
      /\ next[Len(history) + 1] = note
  BY Longer
<1>2. \A i \in DOMAIN history : i \in DOMAIN next /\ next[i] = history[i]
  BY <1>1
<1>3. \A i \in DOMAIN next : i \in DOMAIN history \/ next[i].response = None
  BY <1>1
<1>4. \A i \in DOMAIN next : next[i].response # None => Kept(sites, archive, next[i])
  BY <1>2, <1>3 DEF StoredOf
<1> QED BY <1>2, <1>4 DEF StoredOf

\* What is recorded of a response keeps what was stored before.
LEMMA StoredResponse ==
  ASSUME NEW sites, NEW archive, NEW history, history \in Seq(Range(history)),
         StoredOf(sites, archive, history),
         NEW note, note.response # None, IsHttp(note.url),
         Own(history, note.request, note.url),
         TargetOf(note) \in DOMAIN sites, sites[TargetOf(note)] = note.response,
         note.answer.body = BodyOf(note.response, TargetOf(note)),
         NEW next, next = Append(history, note), NEW grown,
         \/ /\ grown = archive
            /\ Identity(note) \in DOMAIN archive.headers
            /\ archive.headers[Identity(note)] = note.response
            /\ Contents(archive.files, Identity(note)) = note.answer.body
         \/ /\ to_local_filename(Identity(note)) \notin DOMAIN archive.files
            /\ grown = [headers |-> Assign(archive.headers, Identity(note), note.response),
                        files |-> IF note.answer.body = None THEN archive.files
                                  ELSE Assign(archive.files, to_local_filename(Identity(note)),
                                              note.answer.body)]
  PROVE  StoredOf(sites, grown, next)
<1> DEFINE identity == Identity(note)
           name == to_local_filename(identity)
           body == note.answer.body
<1>1. /\ DOMAIN history = 1..Len(history) /\ Len(history) \in Nat
      /\ DOMAIN next = 1..Len(history) + 1
      /\ \A i \in 1..Len(history) : next[i] = history[i]
      /\ next[Len(history) + 1] = note
  BY Longer
<1>2. \A i \in DOMAIN history : i \in DOMAIN next /\ next[i] = history[i]
  BY <1>1
<1>3. /\ \A i \in DOMAIN next : i \in DOMAIN history \/ next[i] = note
      /\ \E i \in DOMAIN next : next[i] = note
  BY <1>1
<1>4. CASE /\ grown = archive
           /\ identity \in DOMAIN archive.headers
           /\ archive.headers[identity] = note.response
           /\ Contents(archive.files, identity) = body
  <2>1. Kept(sites, grown, note)
    BY <1>4 DEF Kept
  <2>2. \A i \in DOMAIN next : next[i].response # None => Kept(sites, grown, next[i])
    BY <1>2, <1>3, <1>4, <2>1 DEF StoredOf
  <2> QED BY <1>2, <1>4, <2>2 DEF StoredOf
<1>5. CASE /\ name \notin DOMAIN archive.files
           /\ grown = [headers |-> Assign(archive.headers, identity, note.response),
                       files |-> IF body = None THEN archive.files
                                 ELSE Assign(archive.files, name, body)]
  <2>1. /\ DOMAIN grown.headers = DOMAIN archive.headers \cup {identity}
        /\ grown.headers[identity] = note.response
        /\ \A i \in DOMAIN archive.headers : i # identity => grown.headers[i] = archive.headers[i]
    BY <1>5 DEF Assign
  <2>2. /\ body = None => grown.files = archive.files
        /\ body # None => /\ DOMAIN grown.files = DOMAIN archive.files \cup {name}
                          /\ grown.files[name] = body
        /\ \A n \in DOMAIN archive.files : n \in DOMAIN grown.files /\ grown.files[n] = archive.files[n]
    BY <1>5 DEF Assign
  <2>3. Contents(grown.files, identity) = body
    BY <1>5, <2>2 DEF Contents
  <2>4. Kept(sites, grown, note)
    BY <2>1, <2>3 DEF Kept
  <2>5. ASSUME NEW i \in DOMAIN history, history[i].response # None
        PROVE  Kept(sites, grown, history[i])
    <3>1. Kept(sites, archive, history[i])
      BY <2>5 DEF StoredOf
    <3>2. CASE to_local_filename(Identity(history[i])) = name
      <4>1. history[i].url = note.url /\ history[i].request.data = note.request.data
        BY <3>2 DEF Own, Identity
      <4>2. Identity(history[i]) = identity /\ TargetOf(history[i]) = TargetOf(note)
        BY <4>1 DEF Identity, IdentityOf, TargetOf, Target
      <4> QED BY <2>1, <2>3, <3>1, <4>2 DEF Kept
    <3>3. CASE to_local_filename(Identity(history[i])) # name
      <4>1. Identity(history[i]) # identity
        BY <3>3
      <4>2. Contents(grown.files, Identity(history[i])) = Contents(archive.files, Identity(history[i]))
        BY <2>2, <3>3 DEF Contents
      <4> QED BY <2>1, <3>1, <4>1, <4>2 DEF Kept
    <3> QED BY <3>2, <3>3
  <2>6. \A i \in DOMAIN next : next[i].response # None => Kept(sites, grown, next[i])
    BY <1>2, <1>3, <2>4, <2>5
  <2>7. \A i \in DOMAIN grown.headers : \E k \in DOMAIN next :
          next[k].response # None /\ Identity(next[k]) = i
    BY <1>2, <1>3, <2>1 DEF StoredOf
  <2>8. \A n \in DOMAIN grown.files : \E k \in DOMAIN next :
          next[k].response # None /\ to_local_filename(Identity(next[k])) = n
    BY <1>2, <1>3, <2>2 DEF StoredOf
  <2> QED BY <2>6, <2>7, <2>8 DEF StoredOf
<1> QED BY <1>4, <1>5

\* Serving a request that has its own file name teaches the session what the
\* response says, and records it.
LEMMA Served ==
  ASSUME TypeOK, [Next]_vars, NEW r, NEW url, Serving(r, url),
         NEW history, history \in Seq(Range(history)),
         Stored(writer, history), Own(history, r, url),
         NEW older, Stored(reader, older), Own(older, r, url)
  PROVE  \E response, answer :
           /\ response \in Responses
           /\ IsHttp(url) /\ IsServable(r, url)
           /\ Target(r, url) \in DOMAIN site' /\ site'[Target(r, url)] = response
           /\ Known' = Taught(Known, url, response)
           /\ Note(r, url, answer, response)
           /\ UNCHANGED <<settings, session, reader>>
           /\ StoredOf(site', writer', Append(history, Noted(r, url, answer, response)))
<1> DEFINE target == Target(r, url)
<1>1. PICK response \in Responses :
        /\ IsHttp(url)
        /\ target \in DOMAIN site' /\ site'[target] = response
        /\ Serves(r, url, response, BodyOf(response, target))
        /\ Records(history, r, url, response, BodyOf(response, target))
  BY ServedFromSite
<1> DEFINE body == BodyOf(response, target)
           answer == Answer(response.status, Location(Known', url, response), body)
           note == Noted(r, url, answer, response)
<1>2. /\ IsServable(r, url) /\ serve_file(r, url, response, body)
      /\ UNCHANGED <<settings, session, reader>>
  BY <1>1 DEF Serves
<1>3. Known' = Taught(Known, url, response) /\ Note(r, url, answer, response)
  BY <1>2, ServingTeaches
<1>4. /\ note.request = r /\ note.url = url /\ note.response = response
      /\ note.answer.body = body
  BY DEF Noted, Answer
<1>5. Identity(note) = IdentityOf(r, url) /\ TargetOf(note) = target
  BY <1>4 DEF Identity, TargetOf
<1>6. StoredOf(site', writer, history)
  BY SitesAreFixed, StoredGrows DEF Stored
<1>7. \/ /\ writer' = writer
         /\ Identity(note) \in DOMAIN writer.headers
         /\ writer.headers[Identity(note)] = note.response
         /\ Contents(writer.files, Identity(note)) = note.answer.body
      \/ /\ to_local_filename(Identity(note)) \notin DOMAIN writer.files
         /\ writer' = [headers |-> Assign(writer.headers, Identity(note), note.response),
                       files |-> IF note.answer.body = None THEN writer.files
                                 ELSE Assign(writer.files, to_local_filename(Identity(note)),
                                             note.answer.body)]
  BY <1>1, <1>4, <1>5 DEF Records, async_write_file
<1>8. note.response # None
  BY <1>4, BrowsingAssumption
<1> HIDE DEF note, answer, body
<1>9. StoredOf(site', writer', Append(history, note))
  BY <1>1, <1>4, <1>5, <1>6, <1>7, <1>8, StoredResponse DEF body
<1> QED BY <1>1, <1>2, <1>3, <1>9 DEF note

-----------------------------------------------------------------------------
(* Both sessions.                                                          *)

Distinct(history) ==
  \A i, j \in DOMAIN history :
    to_local_filename(Identity(history[i])) = to_local_filename(Identity(history[j]))
      => /\ history[i].url = history[j].url
         /\ history[i].request.data = history[j].request.data

\* The condition of the property, in terms of one history.
LEMMA DistinctNames == NamesAreDistinct <=> Distinct(journal)
BY DEF NamesAreDistinct, Distinct, Identity

\* If names are distinct after a request, it has its own.
LEMMA DistinctBefore ==
  ASSUME NEW history, history \in Seq(Range(history)), NEW note, NEW next,
         next = Append(history, note), Distinct(next)
  PROVE  Distinct(history) /\ Own(history, note.request, note.url)
<1>1. /\ \A i \in DOMAIN history : i \in DOMAIN next /\ next[i] = history[i]
      /\ \E k \in DOMAIN next : next[k] = note
  <2>1. /\ DOMAIN history = 1..Len(history) /\ Len(history) \in Nat
        /\ DOMAIN next = 1..Len(history) + 1
        /\ \A i \in 1..Len(history) : next[i] = history[i]
        /\ next[Len(history) + 1] = note
    BY Longer
  <2> QED BY <2>1
<1>2. Distinct(history)
  BY <1>1 DEF Distinct
<1>3. Own(history, note.request, note.url)
  BY <1>1 DEF Distinct, Own, Identity
<1> QED BY <1>2, <1>3

\* Without notes, an empty archive holds what was recorded.
LEMMA NothingStored == /\ StoredOf(site, NoArchive, <<>>)
                       /\ \A r, url : Own(<<>>, r, url)
BY DEF StoredOf, NoArchive, Empty, Own

\* The first session records what it has served.
LEMMA RecordingStep ==
  ASSUME TypeOK, Histories, Recording, [Next]_vars
  PROVE  Recording'
<1> SUFFICES ASSUME session' = "recording" PROVE Recording'
  BY DEF Recording
<1>1. ASSUME session = "recording", NEW r, NEW url, NEW answer, NEW response,
             Note(r, url, answer, response)
      PROVE  /\ replayed' = replayed
             /\ journal' = Append(journal, Noted(r, url, answer, response))
             /\ NamesAreDistinct' => NamesAreDistinct /\ Own(journal, r, url)
  <2>1. replayed' = replayed /\ journal' = Append(journal, Noted(r, url, answer, response))
    BY <1>1, Noting
  <2>2. NamesAreDistinct' => Distinct(journal')
    BY DEF NamesAreDistinct, Distinct, Identity
  <2>3. Distinct(journal') => Distinct(journal) /\ Own(journal, r, url)
    <3> DEFINE note == Noted(r, url, answer, response)
    <3>1. note.request = r /\ note.url = url /\ journal' = Append(journal, note)
      BY <2>1 DEF Noted
    <3> HIDE DEF note
    <3> QED BY <3>1, DistinctBefore DEF Histories
  <2> QED BY <2>1, <2>2, <2>3, DistinctNames
<1>2. ASSUME NEW r \in NextRequests, NEW status, Replies(r, UrlOf(r), status)
      PROVE  Recording'
  <2> DEFINE note == Noted(r, UrlOf(r), Answer(status, None, None), None)
  <2>1. /\ Note(r, UrlOf(r), Answer(status, None, None), None)
        /\ UNCHANGED <<settings, session, reader, writer, site>>
    BY <1>2 DEF Replies, Reply
  <2>2. /\ replayed' = replayed
        /\ journal' = Append(journal, note)
        /\ NamesAreDistinct' => NamesAreDistinct
    BY <1>1, <2>1
  <2>3. note.response = None
    BY DEF Noted
  <2> HIDE DEF note
  <2>4. NamesAreDistinct' => StoredOf(site, writer, journal')
    BY <2>1, <2>2, <2>3, StoredReply DEF Recording, Stored, Histories
  <2> QED BY <2>1, <2>2, <2>4 DEF Recording, Stored
<1>3. ASSUME NEW r \in NextRequests, Serving(r, UrlOf(r))
      PROVE  Recording'
  <2>1. PICK response \in Responses, body \in DOMAIN site' \cup {None} :
          Serves(r, UrlOf(r), response, body)
    BY <1>3, ServingServes
  <2>2. /\ UNCHANGED <<settings, session, reader>>
        /\ \E answer : Note(r, UrlOf(r), answer, response)
    BY <2>1 DEF Serves, serve_file
  <2>3. /\ replayed' = replayed
        /\ NamesAreDistinct' => NamesAreDistinct /\ Own(journal, r, UrlOf(r))
    BY <1>1, <2>2
  <2>4. ASSUME NamesAreDistinct' PROVE StoredOf(site', writer', journal')
    <3>1. /\ Stored(writer, journal) /\ Own(journal, r, UrlOf(r))
          /\ Stored(reader, <<>>) /\ Own(<<>>, r, UrlOf(r))
      BY <2>2, <2>3, <2>4, NothingStored DEF Recording, Stored
    <3>2. PICK response1, answer :
            /\ response1 \in Responses
            /\ Note(r, UrlOf(r), answer, response1)
            /\ StoredOf(site', writer', Append(journal, Noted(r, UrlOf(r), answer, response1)))
      BY <1>3, <3>1, Served DEF Histories
    <3> QED BY <1>1, <2>2, <3>2
  <2> QED BY <2>2, <2>3, <2>4 DEF Recording, Stored
<1>4. CASE UNCHANGED vars
  BY <1>4 DEF vars, Recording, Stored, NamesAreDistinct
<1>5. ASSUME NEW download \in {"standard", "never"}, Shutdown(download)
      PROVE  Recording'
  BY <1>5 DEF Shutdown
<1> QED BY <1>2, <1>3, <1>4, <1>5, AnswerKinds

\* The second session knows what the first knew before the same request, and
\* takes the request for the same URL.
LEMMA MeansTheSame ==
  ASSUME Histories, Learning, Replaying, session = "replaying", NamesAreDistinct,
         NEW r \in NextRequests
  PROVE  LET n == Len(replayed) + 1
         IN /\ n \in DOMAIN journal /\ r = journal[n].request
            /\ UrlOf(r) = journal[n].url
            /\ Follows(journal[n], Known)
            /\ Own(journal, r, UrlOf(r)) /\ Own(replayed, r, UrlOf(r))
<1> DEFINE n == Len(replayed) + 1
<1>1. /\ Len(replayed) \in Nat /\ DOMAIN replayed = 1..Len(replayed)
      /\ Len(journal) \in Nat /\ DOMAIN journal = 1..Len(journal)
  BY Longer DEF Histories
<1>2. Len(replayed) < Len(journal) /\ r = journal[n].request
  BY NextRequestsBounded
<1>3. n \in DOMAIN journal
  BY <1>1, <1>2
<1>4. Known = KnownBefore(journal, n)
  <2>1. Known = KnownBefore(replayed, n)
    BY DEF Learning, Done
  <2>2. n # 1 => n - 1 \in DOMAIN replayed
    BY <1>1
  <2>3. n # 1 => replayed[n - 1].known = journal[n - 1].known
    BY <2>2 DEF Replaying
  <2> QED BY <2>1, <2>3 DEF KnownBefore
<1>5. Follows(journal[n], Known)
  BY <1>3, <1>4 DEF Learning
<1>6. UrlOf(r) = journal[n].url
  BY <1>2, <1>5, UrlIsMeaning DEF Follows
<1>7. Own(journal, r, UrlOf(r))
  BY <1>2, <1>3, <1>6, DistinctNames DEF Distinct, Own, Identity
<1>8. Own(replayed, r, UrlOf(r))
  <2>1. \A i \in DOMAIN replayed :
          /\ i \in DOMAIN journal
          /\ Identity(replayed[i]) = Identity(journal[i])
          /\ replayed[i].url = journal[i].url
          /\ replayed[i].request.data = journal[i].request.data
    BY DEF Replaying, Identity
  <2> QED BY <1>7, <2>1 DEF Own
<1> QED BY <1>2, <1>3, <1>5, <1>6, <1>7, <1>8

\* The second session does what the first did.
LEMMA ReplayingStep ==
  ASSUME TypeOK, Histories, Learning, Recording, Replaying, [Next]_vars
  PROVE  Replaying'
<1> SUFFICES ASSUME session' = "replaying", NamesAreDistinct' PROVE Replaying'
  BY DEF Replaying
<1>1. ASSUME session = "replaying", NEW r \in NextRequests, NEW answer, NEW response,
             Note(r, UrlOf(r), answer, response), UNCHANGED reader,
             NamesAreDistinct,
             response = journal[Len(replayed) + 1].response,
             Known' = journal[Len(replayed) + 1].known,
             StoredOf(site', writer',
                      Append(replayed, Noted(r, UrlOf(r), answer, response)))
      PROVE  Replaying'
  <2> DEFINE note == Noted(r, UrlOf(r), answer, response)
             n == Len(replayed) + 1
  <2>1. journal' = journal /\ replayed' = Append(replayed, note)
    BY <1>1, Noting
  <2>2. /\ note.request = r /\ note.url = UrlOf(r) /\ note.response = response
        /\ note.known = Known'
    BY DEF Noted
  <2> HIDE DEF note
  <2>3. /\ Len(replayed) \in Nat /\ DOMAIN replayed = 1..Len(replayed)
        /\ DOMAIN replayed' = 1..Len(replayed) + 1
        /\ \A i \in 1..Len(replayed) : replayed'[i] = replayed[i]
        /\ replayed'[Len(replayed) + 1] = note
    BY <2>1, Longer DEF Histories
  <2>4. /\ n \in DOMAIN journal /\ note.request = journal[n].request
        /\ note.url = journal[n].url /\ note.known = journal[n].known
        /\ note.response = journal[n].response
    BY <1>1, <2>2, MeansTheSame
  <2>5. ASSUME NEW i \in DOMAIN replayed'
        PROVE  /\ i \in DOMAIN journal'
               /\ replayed'[i].request = journal'[i].request
               /\ replayed'[i].url = journal'[i].url
               /\ replayed'[i].known = journal'[i].known
               /\ replayed'[i].response = journal'[i].response
    <3>1. CASE i = n
      BY <2>1, <2>3, <2>4, <3>1
    <3>2. CASE i \in DOMAIN replayed
      BY <1>1, <2>1, <2>3, <3>2 DEF Replaying
    <3> QED BY <2>3, <3>1, <3>2
  <2>6. StoredOf(site', reader', journal')
    BY <1>1, <2>1, SitesAreFixed, StoredGrows DEF Replaying, Stored
  <2>7. StoredOf(site', writer', replayed')
    BY <1>1, <2>1 DEF note
  <2> QED BY <2>5, <2>6, <2>7 DEF Replaying, Stored
<1>2. ASSUME NEW r \in NextRequests, NEW answer, NEW response,
             Note(r, UrlOf(r), answer, response), session' = session
      PROVE  session = "replaying" /\ NamesAreDistinct
  <2>1. session = "replaying" /\ journal' = journal
    BY <1>2, Noting
  <2> QED BY <2>1 DEF NamesAreDistinct
<1>3. ASSUME NEW r \in NextRequests, NEW status, Replies(r, UrlOf(r), status)
      PROVE  Replaying'
  <2> DEFINE n == Len(replayed) + 1
             url == UrlOf(r)
             answer == Answer(status, None, None)
  <2>1. /\ Note(r, url, answer, None)
        /\ UNCHANGED <<settings, session, reader, writer, site>>
    BY <1>3 DEF Replies, Reply
  <2>2. session = "replaying" /\ NamesAreDistinct
    BY <1>2, <2>1
  <2>3. /\ n \in DOMAIN journal /\ r = journal[n].request /\ url = journal[n].url
        /\ Follows(journal[n], Known)
    BY <2>2, MeansTheSame
  <2>4. journal[n].response = None
    <3> SUFFICES ASSUME journal[n].response # None PROVE FALSE
      OBVIOUS
    <3>1. IsServable(r, url)
      BY <2>3 DEF Follows
    <3>2. Kept(site, reader, journal[n])
      BY <2>2, <2>3 DEF Replaying, Stored, StoredOf
    <3>3. IsHttp(url) /\ Archived(r, url)
      BY <2>3, <3>2 DEF Kept, Archived, Identity
    <3> QED BY <1>3, <3>1, <3>3 DEF Replies
  <2>5. Known' = Known /\ journal[n].known = Known
    BY <1>3, <2>3, <2>4, ReplyTeachesNothing, BrowsingAssumption DEF Replies, Follows
  <2>6. StoredOf(site', writer', Append(replayed, Noted(r, url, answer, None)))
    <3> DEFINE note == Noted(r, url, answer, None)
    <3>1. note.response = None
      BY DEF Noted
    <3> HIDE DEF note
    <3>2. StoredOf(site, writer, Append(replayed, note))
      BY <2>2, <3>1, StoredReply DEF Replaying, Stored, Histories
    <3> QED BY <2>1, <3>2 DEF note
  <2> QED BY <1>1, <2>1, <2>2, <2>4, <2>5, <2>6
<1>4. ASSUME NEW r \in NextRequests, Serving(r, UrlOf(r))
      PROVE  Replaying'
  <2> DEFINE n == Len(replayed) + 1
             url == UrlOf(r)
  <2>1. session = "replaying" /\ NamesAreDistinct
    <3>1. PICK response \in Responses, body \in DOMAIN site' \cup {None} :
            Serves(r, url, response, body)
      BY <1>4, ServingServes
    <3>2. session' = session /\ \E answer : Note(r, url, answer, response)
      BY <3>1 DEF Serves, serve_file
    <3> QED BY <1>2, <3>2
  <2>2. /\ n \in DOMAIN journal /\ r = journal[n].request /\ url = journal[n].url
        /\ Follows(journal[n], Known)
        /\ Own(journal, r, url) /\ Own(replayed, r, url)
    BY <2>1, MeansTheSame
  <2>3. PICK response, answer :
          /\ response \in Responses
          /\ IsHttp(url) /\ IsServable(r, url)
          /\ Target(r, url) \in DOMAIN site' /\ site'[Target(r, url)] = response
          /\ Known' = Taught(Known, url, response)
          /\ Note(r, url, answer, response)
          /\ UNCHANGED <<settings, session, reader>>
          /\ StoredOf(site', writer', Append(replayed, Noted(r, url, answer, response)))
    <3>1. Stored(writer, replayed) /\ Stored(reader, journal)
      BY <2>1 DEF Replaying
    <3> QED BY <1>4, <2>2, <3>1, Served DEF Histories
  <2>4. journal[n].response # None
    BY <2>2, <2>3 DEF Learning
  <2>5. Kept(site, reader, journal[n])
    BY <2>1, <2>2, <2>4 DEF Replaying, Stored, StoredOf
  <2>6. journal[n].response = response
    <3>1. TargetOf(journal[n]) = Target(r, url)
      BY <2>2 DEF TargetOf
    <3> QED BY <2>3, <2>5, <3>1, SitesAreFixed DEF Kept
  <2>7. Known' = journal[n].known
    BY <2>2, <2>3, <2>4, <2>6 DEF Follows
  <2> QED BY <1>1, <2>1, <2>3, <2>6, <2>7
<1>5. ASSUME NEW download \in {"standard", "never"}, Shutdown(download)
      PROVE  Replaying'
  <2>1. /\ session = "recording" /\ reader' = writer /\ writer' = NoArchive
        /\ UNCHANGED <<site, journal, replayed>>
    BY <1>5 DEF Shutdown
  <2>2. replayed = <<>> /\ NamesAreDistinct
    BY <2>1 DEF Recording, NamesAreDistinct
  <2>3. StoredOf(site', reader', journal')
    BY <2>1, <2>2 DEF Recording, Stored
  <2>4. StoredOf(site', writer', replayed')
    BY <2>1, <2>2, NothingStored
  <2> QED BY <2>1, <2>2, <2>3, <2>4 DEF Replaying, Stored
<1>6. CASE UNCHANGED vars
  BY <1>6 DEF vars, Replaying, Stored, NamesAreDistinct
<1> QED BY <1>3, <1>4, <1>5, <1>6, AnswerKinds

\* The invariant holds in the beginning.
LEMMA ReplayInit == Init => ReplayInvariant
<1> SUFFICES ASSUME Init PROVE ReplayInvariant
  OBVIOUS
<1>1. journal = <<>> /\ replayed = <<>> /\ session = "recording"
  BY DEF Init
<1>2. Known = Initially
  BY DEF Init, Known, Initially
<1>3. Learning
  BY <1>1, <1>2 DEF Learning, Done, KnownBefore
<1>4. reader = NoArchive /\ writer = NoArchive /\ settings.download = "standard"
  BY DEF Init
<1>5. Recording
  BY <1>1, <1>4, NothingStored DEF Recording, Stored
<1> QED BY <1>1, <1>3, <1>5 DEF ReplayInvariant, Replaying

\* What both sessions know and have stored follows from what they have noted.
THEOREM ReplayInvariance == Spec => [](TypeOK /\ Histories /\ ReplayInvariant)
<1>1. Init => TypeOK /\ Histories /\ ReplayInvariant
  BY TypeInit, ReplayInit
<1>2. TypeOK /\ Histories /\ ReplayInvariant /\ [Next]_vars
        => (TypeOK /\ Histories /\ ReplayInvariant)'
  BY TypeStep, LearningStep, RecordingStep, ReplayingStep DEF ReplayInvariant
<1> QED BY <1>1, <1>2, PTL DEF Spec

\* A session that is restarted with its archive takes the same requests for the
\* same URLs, answers them alike and learns the same from the answers
\* (Logic::initialize restores nothing but the archive), for any web sites,
\* redirects and hosts that demand transport security, off line or not.
THEOREM AlwaysReplaysLikeRecorded == Spec => []ReplaysLikeRecorded
<1>1. TypeOK /\ Histories /\ ReplayInvariant => ReplaysLikeRecorded
  <2> SUFFICES ASSUME TypeOK, Histories, ReplayInvariant, NamesAreDistinct,
                      NEW i \in DOMAIN replayed
               PROVE  /\ replayed[i].url = journal[i].url
                      /\ replayed[i].known = journal[i].known
                      /\ journal[i].answer.status # "exception" =>
                           replayed[i].answer = journal[i].answer
    BY DEF ReplaysLikeRecorded
  <2>1. session = "replaying" /\ Learning
    BY DEF ReplayInvariant, Recording, TypeOK
  <2>2. /\ i \in DOMAIN journal
        /\ replayed[i].request = journal[i].request
        /\ replayed[i].url = journal[i].url
        /\ replayed[i].known = journal[i].known
        /\ replayed[i].response = journal[i].response
        /\ Stored(reader, journal) /\ Stored(writer, replayed)
    BY <2>1 DEF ReplayInvariant, Replaying
  <2>3. Follows(journal[i], KnownBefore(journal, i)) /\ Follows(replayed[i], KnownBefore(replayed, i))
    BY <2>1, <2>2 DEF Learning
  <2>4. CASE journal[i].response # None
    <3>1. Kept(site, reader, journal[i]) /\ Kept(site, writer, replayed[i])
      BY <2>2, <2>4 DEF Stored, StoredOf
    <3>2. replayed[i].answer.body = journal[i].answer.body
      BY <2>2, <3>1 DEF Kept, TargetOf
    <3> QED BY <2>2, <2>3, <2>4, <3>2 DEF Follows
  <2>5. CASE journal[i].response = None
    <3>1. journal[i].answer.status # "exception" => ~IsServable(journal[i].request, journal[i].url)
      BY <2>1, <2>2, <2>5 DEF Learning
    <3> QED BY <2>2, <2>3, <2>5, <3>1, BrowsingAssumption DEF Follows
  <2> QED BY <2>2, <2>4, <2>5
<1> QED BY <1>1, ReplayInvariance, PTL
-----------------------------------------------------------------------------
(* Texts: what the functions on URLs return is one.                        *)

\* The tokens; the provers do not know what strings there are.
Token == STRING \cup {":", "/", ".", "?", "#", "&", "http", "https", "localhost",
                     " ", "\n", "0.0.0.0"}
Text == Seq(Token)

\* A sequence of strings is a text.
LEMMA TextOfStrings == Seq(STRING) \subseteq Text
<1>1. STRING \subseteq Token
  BY DEF Token
<1> QED BY <1>1, SeqMonotonic DEF Text

\* A set of numbers has a least element: the numbers are well-founded.
LEMMA MinIsLeast ==
  ASSUME NEW S \in SUBSET Nat, S # {}
  PROVE  Min(S) \in S /\ \A n \in S : Min(S) <= n
<1> DEFINE Less == {p \in Nat \X Nat : p[1] < p[2]}
<1>1. IsWellFoundedOn(Less, Nat)
  BY NatLessThanWellFounded, Zenon DEF OpToRel
<1>2. \A m, n \in Nat : <<n, m>> \notin Less => m <= n
  OBVIOUS
<1> HIDE DEF Less
<1>3. PICK m \in S : \A n \in S : ~(<<n, m>> \in Less)
  BY <1>1, WFMin
<1>4. \A n \in S : m <= n
  BY <1>2, <1>3
<1> QED BY <1>4 DEF Min

\* The greatest of them is the one that is nearest to a bound.
LEMMA MaxIsGreatest ==
  ASSUME NEW n \in Nat, NEW S \in SUBSET (1..n), S # {}
  PROVE  Max(S) \in S /\ \A i \in S : i <= Max(S)
<1> DEFINE D == {n - i : i \in S}
<1>1. D \in SUBSET Nat /\ D # {}
  <2>1. \A i \in S : n - i \in Nat
    OBVIOUS
  <2> QED BY <2>1
<1>2. Min(D) \in D /\ \A d \in D : Min(D) <= d
  BY <1>1, MinIsLeast
<1>3. PICK m \in S : Min(D) = n - m
  BY <1>2
<1>4. \A i \in S : n - m <= n - i
  BY <1>2, <1>3
<1> HIDE DEF D
<1>5. \A i \in S : i <= m
  BY <1>4
<1> QED BY <1>5 DEF Max

\* A part of a text.
LEMMA Cut ==
  ASSUME NEW s \in Text, NEW m \in Nat \ {0}, NEW n \in Int, n <= Len(s)
  PROVE  /\ SubSeq(s, m, n) \in Text
         /\ Len(SubSeq(s, m, n)) = IF m <= n THEN n - m + 1 ELSE 0
         /\ \A i \in 1..n - m + 1 : SubSeq(s, m, n)[i] = s[m + i - 1]
<1>1. Len(s) \in Nat
  BY LenProperties DEF Text
<1>2. \A i \in m..n : s[i] \in Token
  <2> SUFFICES ASSUME NEW i \in m..n PROVE s[i] \in Token
    OBVIOUS
  <2>1. i \in 1..Len(s)
    BY <1>1
  <2> QED BY <2>1, ElementOfSeq DEF Text
<1> QED BY <1>2, SubSeqProperties DEF Text

\* The length and the places of a text.
LEMMA TextLength == \A s \in Text : Len(s) \in Nat /\ DOMAIN s = 1..Len(s)
BY LenProperties DEF Text

\* A token is a text.
LEMMA One == \A t \in Token : <<t>> \in Text /\ Len(<<t>>) = 1 /\ <<t>>[1] = t
BY DEF Text

\* What is found is the first match at or behind a position.
LEMMA Finding ==
  ASSUME NEW s \in Text, NEW part \in Text, part # <<>>, NEW from \in Int
  PROVE  LET i == Find(s, part, from)
         IN /\ i \in 0..Len(s)
            /\ i # 0 => i \in Matches(s, part) /\ from <= i
            /\ \A j \in Matches(s, part) : from <= j => i # 0 /\ i <= j
<1> DEFINE found == {i \in Matches(s, part) : i >= from}
<1>1. Len(s) \in Nat /\ Len(part) \in Nat \ {0}
  BY TextLength, EmptySeq DEF Text
<1>2. Matches(s, part) \subseteq 1..Len(s)
  BY <1>1 DEF Matches
<1>3. found \in SUBSET Nat
  BY <1>1, <1>2
<1>4. Find(s, part, from) = IF found = {} THEN 0 ELSE Min(found)
  BY DEF Find
<1>5. CASE found = {}
  BY <1>1, <1>2, <1>4, <1>5
<1>6. CASE found # {}
  <2>1. Min(found) \in found /\ \A j \in found : Min(found) <= j
    BY <1>3, <1>6, MinIsLeast
  <2>2. Min(found) \in Matches(s, part) /\ from <= Min(found)
    BY <1>2, <2>1
  <2>3. Min(found) \in 1..Len(s)
    BY <1>2, <2>2
  <2>4. \A j \in Matches(s, part) : from <= j => Min(found) <= j
    BY <1>1, <1>2, <2>1
  <2> HIDE DEF found
  <2> QED BY <1>1, <1>4, <1>6, <2>2, <2>3, <2>4
<1> QED BY <1>5, <1>6

\* And the last one at or before it.
LEMMA FindingBack ==
  ASSUME NEW s \in Text, NEW part \in Text, part # <<>>, NEW from \in Int
  PROVE  LET i == RFind(s, part, from)
         IN i \in 0..Len(s) /\ (i # 0 => i \in Matches(s, part) /\ i <= from)
<1> DEFINE found == {i \in Matches(s, part) : i <= from}
<1>1. Len(s) \in Nat /\ Len(part) \in Nat \ {0}
  BY TextLength, EmptySeq DEF Text
<1>2. Matches(s, part) \subseteq 1..Len(s)
  BY <1>1 DEF Matches
<1>3. found \in SUBSET (1..Len(s))
  BY <1>1, <1>2
<1>4. RFind(s, part, from) = IF found = {} THEN 0 ELSE Max(found)
  BY DEF RFind
<1>5. CASE found = {}
  BY <1>1, <1>4, <1>5
<1>6. CASE found # {}
  <2>1. Max(found) \in found
    BY <1>1, <1>3, <1>6, MaxIsGreatest
  <2>2. Max(found) \in Matches(s, part) /\ Max(found) <= from /\ Max(found) \in 1..Len(s)
    BY <1>3, <2>1
  <2> HIDE DEF found
  <2> QED BY <1>1, <1>4, <1>6, <2>2
<1> QED BY <1>5, <1>6

\* A match of a token is a place where it stands.
LEMMA TokenMatches ==
  ASSUME NEW s \in Text, NEW t \in Token
  PROVE  Matches(s, <<t>>) = {i \in 1..Len(s) : s[i] = t}
<1>1. Len(s) \in Nat /\ Len(<<t>>) = 1 /\ <<t>>[1] = t /\ <<t>> \in Text
  BY TextLength, One
<1>2. 1..Len(s) + 1 - Len(<<t>>) = 1..Len(s)
  BY <1>1
<1>3. ASSUME NEW i \in 1..Len(s), s[i] = t
      PROVE  SubSeq(s, i, i + Len(<<t>>) - 1) = <<t>>
  <2> DEFINE part == SubSeq(s, i, i)
  <2>1. part \in Text /\ Len(part) = 1 /\ \A k \in 1..1 : part[k] = s[i + k - 1]
    <3>1. i \in Nat \ {0} /\ i \in Int /\ i <= Len(s) /\ i - i + 1 = 1
      BY <1>1
    <3> QED BY <3>1, Cut
  <2> HIDE DEF part
  <2>2. \A k \in 1..1 : part[k] = <<t>>[k]
    <3> SUFFICES part[1] = t
      BY <1>1
    <3>1. part[1] = s[i + 1 - 1] /\ i + 1 - 1 = i
      BY <1>1, <2>1
    <3> QED BY <1>3, <3>1
  <2>3. part = <<t>>
    BY <1>1, <2>1, <2>2, SeqEqual DEF Text
  <2>4. i + Len(<<t>>) - 1 = i
    BY <1>1
  <2> QED BY <2>3, <2>4 DEF part
<1> QED BY <1>1, <1>2, <1>3 DEF Matches

\* What is in front of a position is a text ...
LEMMA UptoIsText ==
  ASSUME NEW s \in Text, NEW i \in 0..Len(s)
  PROVE  Upto(s, i) \in Text
<1>1. Len(s) \in Nat
  BY TextLength
<1>2. CASE i = 0
  BY <1>2 DEF Upto
<1>3. CASE i # 0
  <2>1. i - 1 \in Int /\ i - 1 <= Len(s)
    BY <1>1
  <2> QED BY <1>3, <2>1, Cut DEF Upto
<1> QED BY <1>2, <1>3

\* ... and so is what is behind it.
LEMMA FromIsText ==
  ASSUME NEW s \in Text, NEW i \in Nat \ {0}
  PROVE  From(s, i) \in Text
BY TextLength, Cut DEF From

\* A function that is defined by steps.
Defines(f, n, x, step) == f = [i \in 0..n |-> IF i = 0 THEN x ELSE step[<<i, f[i - 1]>>]]

\* What it means that a function follows a step from each place to the next.
LEMMA DefinesValues ==
  ASSUME NEW n \in Nat, NEW x, NEW step, NEW f
  PROVE  /\ Defines(f, n, x, step) =>
              \A i \in 0..n : f[i] = IF i = 0 THEN x ELSE step[<<i, f[i - 1]>>]
         /\ \A S : f \in [0..n -> S] /\ (\A i \in 0..n : f[i] = IF i = 0 THEN x ELSE step[<<i, f[i - 1]>>])
              => Defines(f, n, x, step)
BY Zenon DEF Defines

\* There is one ...
LEMMA SomeIsDefined ==
  ASSUME NEW S, NEW x \in S, NEW n \in Nat, NEW step \in [(1..n) \X S -> S]
  PROVE  \E f \in [0..n -> S] : Defines(f, n, x, step)
<1> DEFINE Defined(m) == \E f \in [0..m -> S] : Defines(f, m, x, step)
           without == {m \in 0..n : ~Defined(m)}
<1>1. Defined(0)
  <2> DEFINE g == [i \in 0..0 |-> x]
  <2>1. g \in [0..0 -> S] /\ \A i \in 0..0 : g[i] = x /\ i = 0
    OBVIOUS
  <2> HIDE DEF g
  <2>2. Defines(g, 0, x, step)
    BY <2>1, DefinesValues
  <2> QED BY <2>1, <2>2
<1>2. ASSUME NEW m \in 1..n, Defined(m - 1)
      PROVE  Defined(m)
  <2>1. PICK f \in [0..m - 1 -> S] : Defines(f, m - 1, x, step)
    BY <1>2
  <2> DEFINE g == [i \in 0..m |-> IF i = m THEN step[<<m, f[m - 1]>>] ELSE f[i]]
  <2>2. m \in Nat /\ m - 1 \in Nat /\ m - 1 \in 0..m - 1 /\ m # 0
    OBVIOUS
  <2>3. f[m - 1] \in S /\ <<m, f[m - 1]>> \in (1..n) \X S
    BY <2>1, <2>2
  <2>4. step[<<m, f[m - 1]>>] \in S
    BY <2>3
  <2>5. \A i \in 0..m : i # m => i \in 0..m - 1
    BY <2>2
  <2>6. g \in [0..m -> S]
    BY <2>1, <2>4, <2>5
  <2>7. \A i \in 0..m - 1 : f[i] = IF i = 0 THEN x ELSE step[<<i, f[i - 1]>>]
    BY <2>1, <2>2, DefinesValues
  <2>8. ASSUME NEW i \in 0..m
        PROVE  g[i] = IF i = 0 THEN x ELSE step[<<i, g[i - 1]>>]
    <3>1. i # 0 => i - 1 \in 0..m /\ i - 1 # m
      BY <2>2
    <3>2. i # 0 => g[i - 1] = f[i - 1]
      BY <3>1
    <3>3. CASE i = m
      BY <2>2, <3>2, <3>3
    <3>4. CASE i # m
      <4>1. g[i] = f[i] /\ i \in 0..m - 1
        BY <2>5, <3>4
      <4> HIDE DEF g
      <4> QED BY <2>7, <3>2, <4>1
    <3> QED BY <3>3, <3>4
  <2> HIDE DEF g
  <2>9. Defines(g, m, x, step)
    BY <2>2, <2>6, <2>8, DefinesValues
  <2> QED BY <2>6, <2>9
<1> HIDE DEF Defined
<1>3. without = {}
  <2> SUFFICES ASSUME without # {} PROVE FALSE
    OBVIOUS
  <2>1. without \in SUBSET Nat
    OBVIOUS
  <2>2. PICK m \in without : \A k \in without : m <= k
    BY <2>1, MinIsLeast
  <2>3. m \in 0..n /\ ~Defined(m)
    OBVIOUS
  <2>4. m \in 1..n /\ m - 1 \in 0..n /\ m - 1 < m
    BY <1>1, <2>3
  <2>5. Defined(m - 1)
    BY <2>2, <2>4
  <2> QED BY <1>2, <2>3, <2>4, <2>5
<1>4. n \in 0..n
  OBVIOUS
<1> QED BY <1>3, <1>4 DEF Defined

\* ... and what each step preserves all of its values have.
LEMMA Stepping ==
  ASSUME NEW S, NEW n \in Nat, NEW f, f[0] \in S,
         \A i \in 1..n : f[i - 1] \in S => f[i] \in S
  PROVE  \A i \in 0..n : f[i] \in S
<1> DEFINE outside == {i \in 0..n : f[i] \notin S}
<1> SUFFICES ASSUME outside # {} PROVE FALSE
  OBVIOUS
<1>1. outside \in SUBSET Nat
  OBVIOUS
<1>2. PICK m \in outside : \A k \in outside : m <= k
  BY <1>1, MinIsLeast
<1>3. m \in 0..n /\ f[m] \notin S
  OBVIOUS
<1>4. m \in 1..n /\ m - 1 \in 0..n /\ m - 1 < m
  BY <1>3
<1>5. f[m - 1] \in S
  BY <1>2, <1>4
<1> QED BY <1>3, <1>4, <1>5

-----------------------------------------------------------------------------
(* The functions on URLs return texts.                                     *)

\* The marks that URLs are taken apart at are texts.
LEMMA Marks == /\ <<":">> \in Text /\ <<"/">> \in Text /\ <<"#">> \in Text /\ SchemeMark \in Text
               /\ <<":">> # <<>> /\ <<"/">> # <<>> /\ <<"#">> # <<>> /\ SchemeMark # <<>>
               /\ <<"?">> \in Text /\ <<"&">> \in Text
               /\ <<"https">> \in Text /\ Local \in Text /\ <<>> \in Text
               /\ 1 \in Int
BY DEF Text, Token, SchemeMark, Local

\* The scheme of a text is a text.
LEMMA SchemeIsText == \A s \in Text : get_scheme(s) \in Text
<1> SUFFICES ASSUME NEW s \in Text PROVE get_scheme(s) \in Text
  OBVIOUS
<1>1. Find(s, <<":">>, 1) \in 0..Len(s)
  BY Marks, Finding, Zenon
<1> QED BY <1>1, Marks, UptoIsText DEF get_scheme

\* Where the parts of a URL begin.
LEMMA HostPosition ==
  ASSUME NEW url \in Text
  PROVE  /\ HostBegin(url) \in Nat /\ HostBegin(url) >= 3
         /\ Find(url, SchemeMark, 1) > 0 => HostBegin(url) \in 4..Len(url) + 1
         /\ PathBegin(url) \in 0..Len(url) /\ (PathBegin(url) # 0 => PathBegin(url) >= HostBegin(url))
<1>1. Len(url) \in Nat /\ Len(SchemeMark) = 3
  BY TextLength DEF SchemeMark
<1>2. /\ Find(url, SchemeMark, 1) \in 0..Len(url)
      /\ Find(url, SchemeMark, 1) # 0 => Find(url, SchemeMark, 1) \in Matches(url, SchemeMark)
  BY Marks, Finding
<1>3. Find(url, SchemeMark, 1) # 0 => Find(url, SchemeMark, 1) \in 1..Len(url) + 1 - 3
  BY <1>1, <1>2 DEF Matches
<1>4. HostBegin(url) \in Nat /\ HostBegin(url) >= 3
  BY <1>1, <1>2 DEF HostBegin
<1>5. Find(url, SchemeMark, 1) > 0 => HostBegin(url) \in 4..Len(url) + 1
  BY <1>1, <1>2, <1>3 DEF HostBegin
<1>6. PathBegin(url) \in 0..Len(url) /\ (PathBegin(url) # 0 => HostBegin(url) <= PathBegin(url))
  <2>1. HostBegin(url) \in Int
    BY <1>4
  <2> QED BY <2>1, Marks, Finding DEF PathBegin
<1> QED BY <1>1, <1>4, <1>5, <1>6

\* So are the other parts of a URL.
LEMMA PartsAreTexts ==
  ASSUME NEW url \in Text
  PROVE  /\ get_hostname_port(url) \in Text /\ get_hostname(url) \in Text
         /\ get_scheme_hostname_port(url) \in Text
         /\ get_scheme_hostname_port_path(url) \in Text
<1>1. Upto(url, PathBegin(url)) \in Text /\ HostBegin(url) \in Nat \ {0}
  BY HostPosition, UptoIsText
<1>2. get_hostname_port(url) \in Text
  <2>1. From(Upto(url, PathBegin(url)), HostBegin(url)) \in Text
    BY <1>1, FromIsText
  <2> QED BY <2>1, Marks DEF get_hostname_port
<1>3. get_hostname(url) \in Text
  <2>1. Find(get_hostname_port(url), <<":">>, 1) \in 0..Len(get_hostname_port(url))
    BY <1>2, Marks, Finding, Zenon
  <2> QED BY <1>2, <2>1, UptoIsText DEF get_hostname
<1>4. get_scheme_hostname_port(url) \in Text
  BY <1>1, Marks DEF get_scheme_hostname_port
<1>5. get_scheme_hostname_port_path(url) \in Text
  <2> DEFINE marks == {i \in DOMAIN url : url[i] \in {"?", "#"}}
             end == IF marks = {} THEN 0 ELSE Min(marks)
  <2>1. Len(url) \in Nat /\ marks \in SUBSET (1..Len(url))
    BY TextLength
  <2>2. marks \in SUBSET Nat
    BY <2>1
  <2>3. end \in 0..Len(url)
    <3>1. CASE marks = {}
      BY <2>1, <3>1
    <3>2. CASE marks # {}
      <4>1. Min(marks) \in marks
        BY <2>2, <3>2, MinIsLeast
      <4> HIDE DEF marks
      <4>2. Min(marks) \in 1..Len(url)
        BY <2>1, <4>1
      <4> QED BY <2>1, <3>2, <4>2
    <3> QED BY <3>1, <3>2
  <2>4. get_scheme_hostname_port_path(url) = Upto(url, end)
    BY DEF get_scheme_hostname_port_path
  <2> HIDE DEF end
  <2> QED BY <2>3, <2>4, UptoIsText
<1> QED BY <1>2, <1>3, <1>4, <1>5

\* The tokens of a path that are looked for.
LEMMA SlashAndDot == "/" \in Token /\ "." \in Token
  BY DEF Token

\* Removing one "/./" leaves a text, ...
LEMMA DotRemoved ==
  LET States == [path : Text, from : Nat]
  IN \A state \in States : RemoveDot(state) \in States
<1> DEFINE States == [path : Text, from : Nat]
<1> SUFFICES ASSUME NEW state \in States PROVE RemoveDot(state) \in States
  OBVIOUS
<1> DEFINE path == state.path
           i == Find(path, <<"/", ".", "/">>, state.from)
<1>1. path \in Text /\ state.from \in Int /\ Len(path) \in Nat
  BY TextLength
<1>2. <<"/", ".", "/">> \in Text /\ <<"/", ".", "/">> # <<>>
  BY SlashAndDot DEF Text
<1>3. i \in 0..Len(path)
  BY <1>1, <1>2, Finding, Zenon
<1>4. RemoveDot(state) =
        IF i = 0 THEN state
        ELSE [path |-> SubSeq(path, 1, i) \o From(path, i + 3), from |-> i + 1]
  BY DEF RemoveDot
<1> HIDE DEF i, path
<1>5. CASE i # 0
  <2>1. SubSeq(path, 1, i) \in Text
    BY <1>1, <1>3, Cut
  <2>2. i + 3 \in Nat \ {0} /\ i + 1 \in Nat
    BY <1>1, <1>3
  <2>3. From(path, i + 3) \in Text
    BY <1>1, <2>2, FromIsText
  <2>4. SubSeq(path, 1, i) \o From(path, i + 3) \in Text
    BY <2>1, <2>3, ConcatProperties DEF Text
  <2> QED BY <1>4, <1>5, <2>2, <2>4
<1> QED BY <1>4, <1>5

\* ... and so does removing one segment with the ".." behind it.
LEMMA ParentRemoved == \A path \in Text : RemoveParent(path) \in Text
<1> SUFFICES ASSUME NEW path \in Text PROVE RemoveParent(path) \in Text
  OBVIOUS
<1> DEFINE i == Find(path, <<"/", ".", ".">>, 1)
           slash == IF i > 1 THEN RFind(path, <<"/">>, i - 1) ELSE 1
<1>1. <<"/", ".", ".">> \in Text /\ <<"/", ".", ".">> # <<>> /\ Len(path) \in Nat
  BY SlashAndDot, TextLength DEF Text
<1>2. i \in 0..Len(path)
  BY <1>1, Marks, Finding, Zenon
<1>3. i - 1 \in Int
  BY <1>1, <1>2
<1>4. RFind(path, <<"/">>, i - 1) \in 0..Len(path)
  BY <1>3, Marks, FindingBack, Zenon
<1>5. RemoveParent(path) =
        IF i = 0 THEN path ELSE SubSeq(path, 1, slash - 1) \o From(path, i + 3)
  BY DEF RemoveParent
<1>6. i # 0 => slash - 1 \in Int /\ slash - 1 <= Len(path)
  BY <1>1, <1>2, <1>4
<1> HIDE DEF i, slash
<1>7. CASE i # 0
  <2>1. SubSeq(path, 1, slash - 1) \in Text
    BY <1>1, <1>6, <1>7, Cut
  <2>2. i + 3 \in Nat \ {0}
    BY <1>1, <1>2
  <2>3. From(path, i + 3) \in Text
    BY <2>2, FromIsText
  <2> QED BY <1>5, <1>7, <2>1, <2>3, ConcatProperties DEF Text
<1> QED BY <1>5, <1>7

\* All of the "/./" are removed one after the other, in the steps of the recursive
\* function, ...
LEMMA DotsSteps ==
  ASSUME NEW path \in Text
  PROVE  \E after : /\ after[0] = [path |-> path, from |-> 1]
                    /\ \A n \in 1..Len(path) : after[n] = RemoveDot(after[n - 1])
                    /\ RemoveDots(path) = after[Len(path)].path
<1> DEFINE States == [path : Text, from : Nat]
           first == [path |-> path, from |-> 1]
           Good(f) == f = [n \in 0..Len(path) |-> IF n = 0 THEN first ELSE RemoveDot(f[n - 1])]
           step == [p \in (1..Len(path)) \X States |-> RemoveDot(p[2])]
<1>1. Len(path) \in Nat /\ first \in States
  BY TextLength
<1>2. step \in [(1..Len(path)) \X States -> States]
  BY DotRemoved
<1>3. \A n \in 1..Len(path), state \in States : step[<<n, state>>] = RemoveDot(state)
  OBVIOUS
<1> HIDE DEF step, first
<1>4. PICK g \in [0..Len(path) -> States] : Defines(g, Len(path), first, step)
  BY <1>1, <1>2, SomeIsDefined
<1>5. \A n \in 0..Len(path) : g[n] = IF n = 0 THEN first ELSE RemoveDot(g[n - 1])
  <2> SUFFICES ASSUME NEW n \in 0..Len(path)
               PROVE  g[n] = IF n = 0 THEN first ELSE RemoveDot(g[n - 1])
    OBVIOUS
  <2>1. g[n] = IF n = 0 THEN first ELSE step[<<n, g[n - 1]>>]
    BY <1>1, <1>4, DefinesValues
  <2>2. n # 0 => n \in 1..Len(path) /\ n - 1 \in 0..Len(path)
    BY <1>1
  <2>3. n # 0 => g[n - 1] \in States
    BY <2>2
  <2> QED BY <1>3, <2>1, <2>2, <2>3
<1>6. Good(g)
  BY <1>5, Zenon
<1> DEFINE after == CHOOSE f : Good(f)
<1>7. Good(after)
  BY <1>6, Zenon
<1>8. RemoveDots(path) = after[Len(path)].path
  BY Zenon DEF RemoveDots, first
<1> HIDE DEF after
<1>9. \A n \in 0..Len(path) : after[n] = IF n = 0 THEN first ELSE RemoveDot(after[n - 1])
  BY <1>7, Zenon
<1>10. after[0] = first /\ \A n \in 1..Len(path) : after[n] = RemoveDot(after[n - 1])
  <2>1. 0 \in 0..Len(path) /\ \A n \in 1..Len(path) : n \in 0..Len(path) /\ n # 0
    BY <1>1
  <2> HIDE DEF Good
  <2> QED BY <1>9, <2>1
<1> QED BY <1>8, <1>10 DEF first

\* ... each of which leaves a text.
LEMMA DotsRemoved == \A path \in Text : RemoveDots(path) \in Text
<1> SUFFICES ASSUME NEW path \in Text PROVE RemoveDots(path) \in Text
  OBVIOUS
<1> DEFINE States == [path : Text, from : Nat]
<1>1. Len(path) \in Nat /\ Len(path) \in 0..Len(path)
  BY TextLength
<1>2. PICK after : /\ after[0] = [path |-> path, from |-> 1]
                   /\ \A n \in 1..Len(path) : after[n] = RemoveDot(after[n - 1])
                   /\ RemoveDots(path) = after[Len(path)].path
  BY DotsSteps
<1>3. after[0] \in States /\ \A n \in 1..Len(path) : after[n - 1] \in States => after[n] \in States
  BY <1>2, DotRemoved
<1>4. after[Len(path)] \in States
  BY <1>1, <1>3, Stepping
<1> QED BY <1>2, <1>4

\* All of the ".." are removed likewise, ...
LEMMA ParentsSteps ==
  ASSUME NEW path \in Text
  PROVE  \E after : /\ after[0] = path
                    /\ \A n \in 1..Len(path) : after[n] = RemoveParent(after[n - 1])
                    /\ RemoveParents(path) = after[Len(path)]
<1> DEFINE Good(f) == f = [n \in 0..Len(path) |-> IF n = 0 THEN path ELSE RemoveParent(f[n - 1])]
           step == [p \in (1..Len(path)) \X Text |-> RemoveParent(p[2])]
<1>1. Len(path) \in Nat
  BY TextLength
<1>2. step \in [(1..Len(path)) \X Text -> Text]
  BY ParentRemoved
<1>3. \A n \in 1..Len(path), text \in Text : step[<<n, text>>] = RemoveParent(text)
  OBVIOUS
<1> HIDE DEF step
<1>4. PICK g \in [0..Len(path) -> Text] : Defines(g, Len(path), path, step)
  BY <1>1, <1>2, SomeIsDefined
<1>5. \A n \in 0..Len(path) : g[n] = IF n = 0 THEN path ELSE RemoveParent(g[n - 1])
  <2> SUFFICES ASSUME NEW n \in 0..Len(path)
               PROVE  g[n] = IF n = 0 THEN path ELSE RemoveParent(g[n - 1])
    OBVIOUS
  <2>1. g[n] = IF n = 0 THEN path ELSE step[<<n, g[n - 1]>>]
    BY <1>1, <1>4, DefinesValues
  <2>2. n # 0 => n \in 1..Len(path) /\ n - 1 \in 0..Len(path)
    BY <1>1
  <2>3. n # 0 => g[n - 1] \in Text
    BY <2>2
  <2> QED BY <1>3, <2>1, <2>2, <2>3
<1>6. Good(g)
  BY <1>5, Zenon
<1> DEFINE after == CHOOSE f : Good(f)
<1>7. Good(after)
  BY <1>6, Zenon
<1>8. RemoveParents(path) = after[Len(path)]
  BY Zenon DEF RemoveParents
<1> HIDE DEF after
<1>9. \A n \in 0..Len(path) : after[n] = IF n = 0 THEN path ELSE RemoveParent(after[n - 1])
  BY <1>7, Zenon
<1>10. after[0] = path /\ \A n \in 1..Len(path) : after[n] = RemoveParent(after[n - 1])
  <2>1. 0 \in 0..Len(path) /\ \A n \in 1..Len(path) : n \in 0..Len(path) /\ n # 0
    BY <1>1
  <2> HIDE DEF Good
  <2> QED BY <1>9, <2>1
<1> QED BY <1>8, <1>10

\* ... which leaves a text.
LEMMA ParentsRemoved == \A path \in Text : RemoveParents(path) \in Text
<1> SUFFICES ASSUME NEW path \in Text PROVE RemoveParents(path) \in Text
  OBVIOUS
<1>1. Len(path) \in Nat /\ Len(path) \in 0..Len(path)
  BY TextLength
<1>2. PICK after : /\ after[0] = path
                   /\ \A n \in 1..Len(path) : after[n] = RemoveParent(after[n - 1])
                   /\ RemoveParents(path) = after[Len(path)]
  BY ParentsSteps
<1>3. after[0] \in Text /\ \A n \in 1..Len(path) : after[n - 1] \in Text => after[n] \in Text
  BY <1>2, ParentRemoved
<1>4. after[Len(path)] \in Text
  BY <1>1, <1>3, Stepping
<1> QED BY <1>2, <1>4

\* Texts are joined to texts.
LEMMA Joined == \A s, t \in Text : s \o t \in Text
BY ConcatProperties DEF Text

\* A URL is made absolute, relative, or freed of the local server's path.
LEMMA AbsoluteIsText ==
  ASSUME NEW url \in Text, NEW relative_to \in Text
  PROVE  to_absolute_url(url, relative_to) \in Text
<1> DEFINE origin == get_scheme_hostname_port(relative_to)
           with_scheme == get_scheme(relative_to) \o <<":">> \o url
           whole == get_scheme_hostname_port_path(relative_to)
           path == From(whole, Len(origin) + 1)
           directory == IF Has(path, "/") THEN SubSeq(path, 1, RFind(path, <<"/">>, Len(path)))
                                          ELSE path \o <<"/">>
<1>1. origin \in Text /\ whole \in Text /\ get_scheme(relative_to) \in Text
  BY PartsAreTexts, SchemeIsText
<1>2. with_scheme \in Text
  BY <1>1, Marks, Joined
<1>3. Len(origin) + 1 \in Nat \ {0}
  BY <1>1, TextLength
<1>4. path \in Text
  BY <1>1, <1>3, FromIsText
<1>5. to_absolute_url(url, relative_to) =
        CASE ~is_relative_url(url) -> url
          [] IsPrefix(<<"/", "/">>, url) /\ Has(get_hostname(with_scheme), ".") -> with_scheme
          [] OTHER -> IF IsPrefix(<<"/">>, url) THEN origin \o url
                      ELSE origin \o normalize_path(directory \o url)
  BY Zenon DEF to_absolute_url
<1> HIDE DEF origin, whole, path, with_scheme
<1>6. directory \in Text
  <2>1. Len(path) \in Nat /\ Len(path) \in Int
    BY <1>4, TextLength
  <2>2. RFind(path, <<"/">>, Len(path)) \in 0..Len(path)
    BY <1>4, <2>1, Marks, FindingBack, Zenon
  <2>3. SubSeq(path, 1, RFind(path, <<"/">>, Len(path))) \in Text
    BY <1>4, <2>1, <2>2, Cut
  <2> QED BY <1>4, <2>3, Marks, Joined
<1> HIDE DEF directory
<1>7. normalize_path(directory \o url) \in Text
  <2>1. directory \o url \in Text
    BY <1>6, Joined
  <2> QED BY <2>1, DotsRemoved, ParentsRemoved DEF normalize_path
<1>8. origin \o url \in Text /\ origin \o normalize_path(directory \o url) \in Text
  BY <1>1, <1>7, Joined
<1> QED BY <1>2, <1>5, <1>8

\* What is made relative to a base is a text ...
LEMMA RelativeIsText ==
  ASSUME NEW url \in Text, NEW base_url \in Text
  PROVE  to_relative_url(url, base_url) \in Text
<1>1. Len(base_url) + 1 \in Nat \ {0}
  BY TextLength
<1>2. From(url, Len(base_url) + 1) \in Text
  BY <1>1, FromIsText
<1> QED BY <1>2, Marks DEF to_relative_url

\* ... and so is what is unpatched.
LEMMA UnpatchedIsText ==
  ASSUME NEW url \in Text, url # <<>>
  PROVE  unpatch_url(url) \in Text
BY HeadTailProperties DEF unpatch_url, Text

\* A URL begins with its scheme.
LEMMA SchemeBegins ==
  ASSUME NEW url \in Text, NEW t, get_scheme(url) = <<t>>
  PROVE  url # <<>> /\ url[1] = t /\ Tail(url) \in Text
<1> DEFINE colon == Find(url, <<":">>, 1)
           part == SubSeq(url, 1, colon - 1)
<1>1. colon > 0 /\ <<t>> = Upto(url, colon)
  BY DEF get_scheme
<1>2. colon \in 0..Len(url)
  BY Marks, Finding, Zenon
<1> HIDE DEF colon
<1>3. <<t>> = part
  <2>1. colon # 0
    BY <1>1
  <2> QED BY <1>1, <2>1, Zenon DEF Upto
<1>4. colon - 1 \in Int /\ colon - 1 <= Len(url) /\ Len(url) \in Nat /\ 1 \in Nat \ {0}
  BY <1>2, TextLength
<1>5. /\ Len(part) = IF 1 <= colon - 1 THEN colon - 1 - 1 + 1 ELSE 0
      /\ \A k \in 1..colon - 1 - 1 + 1 : part[k] = url[1 + k - 1]
  BY <1>4, Cut
<1> HIDE DEF part
<1>6. Len(part) = 1 /\ part[1] = t
  BY <1>3
<1>7. 1 \in 1..colon - 1 - 1 + 1 /\ 1 + 1 - 1 = 1
  BY <1>2, <1>5, <1>6
<1>8. url[1] = t
  BY <1>5, <1>6, <1>7
<1>9. url # <<>>
  BY <1>4, <1>2, <1>1
<1> QED BY <1>8, <1>9, HeadTailProperties DEF Text

\* A URL with a query is one.
LEMMA QueriedIsText ==
  ASSUME NEW url \in Text, NEW query \in Text
  PROVE  WithQuery(url, query) \in Text
BY Marks, Joined DEF WithQuery

\* What a request means if no host demands security is a URL ...
Plain(known, r) ==
  WithQuery(to_absolute_url(unpatch_url(r.path), known.server_base), r.query)
Matched(known, r) ==
  \E host \in DOMAIN known.transport_security :
    MatchesHost(Plain(known, r), host, known.transport_security[host])

\* A request has a path, and texts.
ProperRequest(r) == r.path \in Text \ {<<>>} /\ r.query \in Text

\* What a plain http URL becomes is a text.
LEMMA PlainIsText ==
  ASSUME NEW known, known.server_base \in Text, NEW r, ProperRequest(r)
  PROVE  Plain(known, r) \in Text
<1>1. to_absolute_url(unpatch_url(r.path), known.server_base) \in Text
  BY UnpatchedIsText, AbsoluteIsText DEF ProperRequest
<1> QED BY <1>1, QueriedIsText DEF Plain, ProperRequest

\* ... and so is what it means.
LEMMA MeaningIsText ==
  ASSUME NEW known, known.server_base \in Text, NEW r, ProperRequest(r)
  PROVE  /\ Meaning(known, r) =
              IF get_scheme(Plain(known, r)) = <<"http">> /\ Matched(known, r)
              THEN <<"https">> \o Tail(Plain(known, r)) ELSE Plain(known, r)
         /\ Meaning(known, r) \in Text
<1>1. Meaning(known, r) = IF get_scheme(Plain(known, r)) = <<"http">> /\ Matched(known, r)
                          THEN <<"https">> \o Tail(Plain(known, r)) ELSE Plain(known, r)
  BY Zenon DEF Meaning, Plain, Matched
<1>2. CASE get_scheme(Plain(known, r)) = <<"http">>
  <2>1. Tail(Plain(known, r)) \in Text
    BY <1>2, PlainIsText, SchemeBegins
  <2> QED BY <1>1, <2>1, PlainIsText, Marks, Joined
<1> QED BY <1>1, <1>2, PlainIsText

-----------------------------------------------------------------------------
(* References that the browser resolves.                                   *)

\* The browser's way to resolve a path leaves a text, segment by segment, ...
LEMMA Entered == \A done, segment \in Text : Enter(done, segment) \in Text
<1> SUFFICES ASSUME NEW done \in Text, NEW segment \in Text PROVE Enter(done, segment) \in Text
  OBVIOUS
<1>1. Len(done) \in Nat /\ Len(done) \in Int
  BY TextLength
<1>2. RFind(done, <<"/">>, Len(done)) \in 0..Len(done)
  BY <1>1, Marks, FindingBack, Zenon
<1>3. RFind(done, <<"/">>, Len(done)) - 1 \in Int /\ RFind(done, <<"/">>, Len(done)) - 1 <= Len(done)
  BY <1>1, <1>2
<1>4. SubSeq(done, 1, RFind(done, <<"/">>, Len(done)) - 1) \in Text
  BY <1>1, <1>3, Cut
<1>5. done \o <<"/">> \o segment \in Text
  BY Marks, Joined
<1> QED BY <1>4, <1>5 DEF Enter

\* The segment behind a slash.
Segment(path, i) == From(Upto(path, Find(path, <<"/">>, i + 1)), i + 1)
IsDots(segment) == segment \in {<<".">>, <<".", ".">>}

\* A segment of a path is a text.
LEMMA SegmentIsText ==
  ASSUME NEW path \in Text, NEW i \in Nat
  PROVE  Segment(path, i) \in Text
<1>1. i + 1 \in Int /\ i + 1 \in Nat \ {0}
  OBVIOUS
<1>2. Find(path, <<"/">>, i + 1) \in 0..Len(path)
  BY <1>1, Marks, Finding, Zenon
<1>3. Upto(path, Find(path, <<"/">>, i + 1)) \in Text
  BY <1>2, UptoIsText
<1> QED BY <1>1, <1>3, FromIsText DEF Segment

\* A path is resolved in steps, from one segment to the next.
Resolves(path, upto) ==
  /\ upto[0] = <<>>
  /\ \A i \in 1..Len(path) :
       upto[i] = IF path[i] = "/" THEN Enter(upto[i - 1], Segment(path, i)) ELSE upto[i - 1]

\* The segments of a path are entered one after the other.
LEMMA SimplifiedSteps ==
  ASSUME NEW path \in Text
  PROVE  \E upto : /\ Resolves(path, upto)
                   /\ Simplified(path) =
                        upto[Len(path)] \o IF IsDots(Segment(path, RFind(path, <<"/">>, Len(path))))
                                           THEN <<"/">> ELSE <<>>
<1> DEFINE segment(i) == From(Upto(path, Find(path, <<"/">>, i + 1)), i + 1)
           next(i, done) == IF path[i] = "/" THEN Enter(done, Segment(path, i)) ELSE done
           Good(f) == f = [i \in 0..Len(path) |->
                             CASE i = 0 -> <<>>
                               [] i > 0 /\ path[i] = "/" -> Enter(f[i - 1], segment(i))
                               [] OTHER -> f[i - 1]]
           step == [p \in (1..Len(path)) \X Text |-> next(p[1], p[2])]
<1>1. Len(path) \in Nat
  BY TextLength
<1>0. \A i : segment(i) = Segment(path, i)
  BY DEF Segment
<1>2. \A i \in 1..Len(path), done \in Text : next(i, done) \in Text
  <2> SUFFICES ASSUME NEW i \in 1..Len(path), NEW done \in Text PROVE next(i, done) \in Text
    OBVIOUS
  <2>1. i \in Nat
    OBVIOUS
  <2>2. Segment(path, i) \in Text
    BY <2>1, SegmentIsText
  <2> QED BY <2>2, Entered
<1>3. step \in [(1..Len(path)) \X Text -> Text]
  <2> HIDE DEF next
  <2> QED BY <1>2
<1>4. \A i \in 1..Len(path), done \in Text : step[<<i, done>>] = next(i, done)
  <2> HIDE DEF next
  <2> QED OBVIOUS
<1> HIDE DEF step
<1>5. PICK g \in [0..Len(path) -> Text] : Defines(g, Len(path), <<>>, step)
  BY <1>1, <1>3, Marks, SomeIsDefined
<1> HIDE DEF segment
<1>6. \A i \in 0..Len(path) :
        g[i] = CASE i = 0 -> <<>>
                 [] i > 0 /\ path[i] = "/" -> Enter(g[i - 1], segment(i))
                 [] OTHER -> g[i - 1]
  <2> SUFFICES ASSUME NEW i \in 0..Len(path)
               PROVE  g[i] = CASE i = 0 -> <<>>
                               [] i > 0 /\ path[i] = "/" -> Enter(g[i - 1], segment(i))
                               [] OTHER -> g[i - 1]
    OBVIOUS
  <2>1. g[i] = IF i = 0 THEN <<>> ELSE step[<<i, g[i - 1]>>]
    BY <1>1, <1>5, DefinesValues
  <2>2. i # 0 => i \in 1..Len(path) /\ i - 1 \in 0..Len(path) /\ i > 0
    BY <1>1
  <2>3. i # 0 => g[i - 1] \in Text
    BY <2>2
  <2>4. i # 0 => g[i] = next(i, g[i - 1])
    BY <1>4, <2>1, <2>2, <2>3
  <2> QED BY <1>0, <2>1, <2>2, <2>4
<1>7. Good(g)
  BY <1>6, Zenon
<1> DEFINE upto == CHOOSE f : Good(f)
<1>8. Good(upto)
  BY <1>7, Zenon
<1> DEFINE last == Segment(path, RFind(path, <<"/">>, Len(path)))
<1>9. Simplified(path) = upto[Len(path)] \o IF IsDots(last) THEN <<"/">> ELSE <<>>
  BY Zenon DEF Simplified, segment, Segment, IsDots
<1> HIDE DEF upto, last
<1>10. \A i \in 0..Len(path) :
        upto[i] = CASE i = 0 -> <<>>
                    [] i > 0 /\ path[i] = "/" -> Enter(upto[i - 1], segment(i))
                    [] OTHER -> upto[i - 1]
  BY <1>8, Zenon
<1> HIDE DEF Good
<1>11. upto[0] = <<>>
  <2>1. 0 \in 0..Len(path)
    BY <1>1
  <2> QED BY <1>10, <2>1
<1>12. \A i \in 1..Len(path) :
         upto[i] = IF path[i] = "/" THEN Enter(upto[i - 1], Segment(path, i)) ELSE upto[i - 1]
  <2> SUFFICES ASSUME NEW i \in 1..Len(path)
               PROVE  upto[i] = IF path[i] = "/" THEN Enter(upto[i - 1], Segment(path, i))
                                ELSE upto[i - 1]
    OBVIOUS
  <2>1. i \in 0..Len(path) /\ i # 0 /\ i > 0
    BY <1>1
  <2> QED BY <1>0, <1>10, <2>1
<1>13. Resolves(path, upto)
  BY <1>11, <1>12 DEF Resolves
<1> QED BY <1>9, <1>13 DEF last

\* ... and so does all of it.
LEMMA SimplifiedIsText == \A path \in Text : Simplified(path) \in Text
<1> SUFFICES ASSUME NEW path \in Text PROVE Simplified(path) \in Text
  OBVIOUS
<1>1. PICK upto :
        /\ Resolves(path, upto)
        /\ Simplified(path) =
             upto[Len(path)] \o IF IsDots(Segment(path, RFind(path, <<"/">>, Len(path))))
                                THEN <<"/">> ELSE <<>>
  BY SimplifiedSteps
<1>2. Len(path) \in Nat
  BY TextLength
<1>3. upto[0] \in Text
  BY <1>1, Marks DEF Resolves
<1>4. \A i \in 1..Len(path) : upto[i - 1] \in Text => upto[i] \in Text
  <2> SUFFICES ASSUME NEW i \in 1..Len(path), upto[i - 1] \in Text PROVE upto[i] \in Text
    OBVIOUS
  <2>1. i \in Nat
    OBVIOUS
  <2>2. Segment(path, i) \in Text
    BY <2>1, SegmentIsText
  <2> QED BY <1>1, <2>2, Entered DEF Resolves
<1>5. Len(path) \in 0..Len(path)
  BY <1>2
<1>6. upto[Len(path)] \in Text
  BY <1>2, <1>3, <1>4, <1>5, Stepping
<1> QED BY <1>1, <1>6, Marks, Joined

\* The path that a browser asks for is a text.
LEMMA PathIsText ==
  ASSUME NEW url \in Text
  PROVE  PathOf(url) \in Text \ {<<>>} /\ Query(url) \in Text
<1>1. PathOf(url) \in Text \ {<<>>}
  <2>1. Len(Origin(url)) + 1 \in Nat \ {0} /\ get_scheme_hostname_port_path(url) \in Text
    BY PartsAreTexts, TextLength DEF Origin
  <2>2. From(get_scheme_hostname_port_path(url), Len(Origin(url)) + 1) \in Text
    BY <2>1, FromIsText
  <2>3. <<"/">> # <<>>
    BY Marks
  <2> QED BY <2>2, <2>3, Marks DEF PathOf
<1>2. Query(url) \in Text
  <2>1. Find(url, <<"#">>, 1) \in 0..Len(url)
    BY Marks, Finding, Zenon
  <2>2. Upto(url, Find(url, <<"#">>, 1)) \in Text
    BY <2>1, UptoIsText
  <2>3. Len(get_scheme_hostname_port_path(url)) + 1 \in Nat \ {0}
    BY PartsAreTexts, TextLength
  <2> QED BY <2>2, <2>3, FromIsText DEF Query
<1> QED BY <1>1, <1>2

\* The origin of a URL is a text, and so is what it is without dots.
LEMMA OriginIsText == \A url \in Text : Origin(url) \in Text
BY PartsAreTexts DEF Origin

\* A URL without dot segments is a text.
LEMMA WithoutDotsIsText == \A url \in Text : Absolute(url) \in Text
<1> SUFFICES ASSUME NEW url \in Text PROVE Absolute(url) \in Text
  OBVIOUS
<1> DEFINE path == get_scheme_hostname_port_path(url)
           part == From(path, Len(Origin(url)) + 1)
           rest == From(url, Len(path) + 1)
<1>1. path \in Text /\ Origin(url) \in Text
  BY PartsAreTexts, OriginIsText
<1>2. Absolute(url) = IF HasHost(url) THEN Origin(url) \o Simplified(part) \o rest ELSE url
  BY Zenon DEF Absolute
<1> HIDE DEF path
<1>3. Len(path) + 1 \in Nat \ {0} /\ Len(Origin(url)) + 1 \in Nat \ {0}
  BY <1>1, TextLength
<1>4. part \in Text /\ rest \in Text
  BY <1>1, <1>3, FromIsText
<1> HIDE DEF part, rest
<1>5. Origin(url) \o Simplified(part) \o rest \in Text
  BY <1>1, <1>4, SimplifiedIsText, Joined
<1> QED BY <1>2, <1>5

\* A browser resolves references to texts.
LEMMA ResolvedIsText ==
  ASSUME NEW reference \in Text, NEW url \in Text
  PROVE  Resolve(reference, url) \in Text
<1> DEFINE path == get_scheme_hostname_port_path(reference)
           rest == From(reference, Len(path) + 1)
           directory == SubSeq(PathOf(url), 1, RFind(PathOf(url), <<"/">>, Len(PathOf(url))))
           whole == IF Head(path) = "/" THEN path ELSE directory \o path
           query == IF Has(reference, "?") THEN <<>> ELSE Query(url)
           network == get_scheme(url) \o <<":">> \o reference
<1>1. path \in Text /\ Origin(url) \in Text /\ PathOf(url) \in Text /\ Query(url) \in Text
  BY PartsAreTexts, PathIsText, OriginIsText
<1>2. Len(path) + 1 \in Nat \ {0} /\ Len(PathOf(url)) \in Nat /\ Len(PathOf(url)) \in Int
  BY <1>1, TextLength
<1>3. rest \in Text
  BY <1>2, FromIsText
<1>4. directory \in Text
  <2> DEFINE p == PathOf(url)
             n == RFind(p, <<"/">>, Len(p))
  <2>1. n \in 0..Len(p)
    BY <1>1, <1>2, Marks, FindingBack, Zenon
  <2>2. p \in Text /\ Len(p) \in Nat
    BY <1>1, <1>2
  <2> HIDE DEF p, n
  <2>3. 1 \in Nat \ {0} /\ n \in Int /\ n <= Len(p)
    BY <2>1, <2>2
  <2>4. SubSeq(p, 1, n) \in Text
    BY <2>2, <2>3, Cut
  <2> QED BY <2>4 DEF p, n
<1>5. \/ Resolve(reference, url) = Absolute(reference)
      \/ Resolve(reference, url) = Absolute(network)
      \/ Resolve(reference, url) = Origin(url) \o PathOf(url) \o query \o rest
      \/ Resolve(reference, url) = Origin(url) \o Simplified(whole) \o rest
  <2>1. Resolve(reference, url) =
          CASE ~is_relative_url(reference) -> Absolute(reference)
            [] IsPrefix(<<"/", "/">>, reference) -> Absolute(network)
            [] path = <<>> -> Origin(url) \o PathOf(url) \o query \o rest
            [] OTHER -> Origin(url) \o Simplified(whole) \o rest
    BY Zenon DEF Resolve
  <2> HIDE DEF path, rest, directory, whole, query, network
  <2> QED BY <2>1
<1>6. network \in Text
  BY SchemeIsText, Marks, Joined
<1>7. whole \in Text /\ query \in Text
  <2> HIDE DEF path, directory
  <2> QED BY <1>1, <1>4, Marks, Joined
<1> HIDE DEF path, rest, directory, whole, query, network
<1>8. Origin(url) \o PathOf(url) \o query \o rest \in Text
  BY <1>1, <1>3, <1>7, Joined
<1>9. Origin(url) \o Simplified(whole) \o rest \in Text
  BY <1>1, <1>3, <1>7, Joined, SimplifiedIsText
<1> QED BY <1>5, <1>6, <1>8, <1>9, WithoutDotsIsText

\* What the browser requests when it is redirected is one.
LEMMA FollowingIsProper ==
  ASSUME NEW url \in Text, NEW location \in Text
  PROVE  LET target == Resolve(location, url)
         IN /\ PathOf(target) \in Text \ {<<>>}
            /\ (IF Query(target) = <<>> THEN <<>> ELSE Tail(Query(target))) \in Text
<1> DEFINE target == Resolve(location, url)
<1>1. target \in Text
  BY ResolvedIsText
<1> HIDE DEF target
<1>2. PathOf(target) \in Text \ {<<>>} /\ Query(target) \in Text
  BY <1>1, PathIsText
<1>3. Query(target) # <<>> => Tail(Query(target)) \in Text
  BY <1>2, HeadTailProperties DEF Text
<1> QED BY <1>2, <1>3, Marks DEF target

-----------------------------------------------------------------------------
(* Hosts and their domains.                                                *)

\* A function on 1 to n is a sequence of length n.
LEMMA FunctionIsText ==
  ASSUME NEW n \in Nat, NEW f \in [1..n -> Token]
  PROVE  f \in Text /\ Len(f) = n
<1>1. f \in Seq(Token)
  BY SeqDef
<1>2. Len(f) \in Nat /\ DOMAIN f = 1..Len(f)
  BY <1>1, LenProperties
<1>3. 1..Len(f) = 1..n
  BY <1>2
<1>4. Len(f) = n
  BY <1>2, <1>3
<1> QED BY <1>1, <1>4 DEF Text

\* The end of a text behind its beginning.
LEMMA Suffix ==
  ASSUME NEW host \in Text, NEW of \in Text, IsSuffix(<<".">> \o of, host)
  PROVE  LET i == Len(host) - Len(of)
         IN /\ i \in 1..Len(host) /\ host[i] = "."
            /\ From(host, i + 1) = of
<1> DEFINE s == <<".">> \o of
           i == Len(host) - Len(of)
<1>1. Len(host) \in Nat /\ Len(of) \in Nat
  BY TextLength
<1>2. <<".">> \in Text /\ Len(<<".">>) = 1 /\ <<".">>[1] = "."
  BY One DEF Token
<1>3. /\ s \in Text /\ Len(s) = Len(of) + 1
      /\ s[1] = "." /\ \A k \in 1..Len(of) : s[k + 1] = of[k]
  <2>1. /\ s \in Seq(Token) /\ Len(s) = 1 + Len(of)
        /\ \A k \in 1..1 + Len(of) : s[k] = IF k <= 1 THEN <<".">>[k] ELSE of[k - 1]
    BY <1>2, ConcatProperties DEF Text
  <2> HIDE DEF s
  <2>2. s[1] = "."
    BY <1>1, <1>2, <2>1
  <2>3. ASSUME NEW k \in 1..Len(of) PROVE s[k + 1] = of[k]
    <3>1. k + 1 \in 1..1 + Len(of) /\ ~(k + 1 <= 1) /\ k + 1 - 1 = k
      BY <1>1
    <3> QED BY <2>1, <3>1
  <2> QED BY <1>1, <2>1, <2>2, <2>3 DEF Text
<1> HIDE DEF s
<1>4. /\ Len(s) <= Len(host)
      /\ \A k \in 1..Len(s) : s[Len(s) - k + 1] = host[Len(host) - k + 1]
  <2> DEFINE rs == Reverse(s)
             rh == Reverse(host)
  <2>1. /\ rs = [k \in 1..Len(s) |-> s[(Len(s) - k) + 1]]
        /\ rh = [k \in 1..Len(host) |-> host[(Len(host) - k) + 1]]
    BY Zenon DEF Reverse
  <2>2. /\ rs \in [1..Len(s) -> Token] /\ rh \in [1..Len(host) -> Token]
    <3>1. \A k \in 1..Len(s) : s[(Len(s) - k) + 1] \in Token
      <4> SUFFICES ASSUME NEW k \in 1..Len(s) PROVE s[(Len(s) - k) + 1] \in Token
        OBVIOUS
      <4>1. (Len(s) - k) + 1 \in 1..Len(s)
        BY <1>1, <1>3
      <4> QED BY <1>3, <4>1, ElementOfSeq DEF Text
    <3>2. \A k \in 1..Len(host) : host[(Len(host) - k) + 1] \in Token
      <4> SUFFICES ASSUME NEW k \in 1..Len(host) PROVE host[(Len(host) - k) + 1] \in Token
        OBVIOUS
      <4>1. (Len(host) - k) + 1 \in 1..Len(host)
        BY <1>1
      <4> QED BY <4>1, ElementOfSeq DEF Text
    <3> QED BY <2>1, <3>1, <3>2
  <2>3. \A k \in 1..Len(s) : rs[k] = s[(Len(s) - k) + 1]
    BY <2>1, Zenon
  <2>4. \A k \in 1..Len(host) : rh[k] = host[(Len(host) - k) + 1]
    BY <2>1, Zenon
  <2>5. IsPrefix(rs, rh)
    BY DEF IsSuffix, s
  <2> HIDE DEF rs, rh
  <2>6. rs \in Text /\ rh \in Text /\ Len(rs) = Len(s) /\ Len(rh) = Len(host)
    <3>1. Len(s) \in Nat
      BY <1>1, <1>3
    <3> QED BY <1>1, <2>2, <3>1, FunctionIsText
  <2>7. Len(s) <= Len(host) /\ SubSeq(rs, 1, Len(s)) = SubSeq(rh, 1, Len(s))
    BY <2>5, <2>6 DEF IsPrefix
  <2>8. ASSUME NEW k \in 1..Len(s) PROVE rs[k] = rh[k]
    <3>1. Len(s) \in Nat /\ Len(s) \in Int /\ k \in 1..Len(s) - 1 + 1 /\ 1 + k - 1 = k
      BY <1>1, <1>3
    <3>2. SubSeq(rs, 1, Len(s))[k] = rs[1 + k - 1]
      BY <2>6, <3>1, Cut
    <3>3. SubSeq(rh, 1, Len(s))[k] = rh[1 + k - 1]
      BY <2>6, <2>7, <3>1, Cut
    <3> QED BY <2>7, <3>1, <3>2, <3>3
  <2>9. \A k \in 1..Len(s) : k \in 1..Len(host)
    BY <1>1, <1>3, <2>7
  <2> QED BY <2>3, <2>4, <2>7, <2>8, <2>9
<1>5. i \in 1..Len(host)
  BY <1>1, <1>3, <1>4
<1>6. host[i] = "."
  <2>1. /\ Len(s) \in 1..Len(s) /\ Len(s) - Len(s) + 1 = 1
        /\ Len(host) - Len(s) + 1 = i
    BY <1>1, <1>3
  <2> QED BY <1>3, <1>4, <2>1
<1>0. i = Len(host) - Len(of)
  OBVIOUS
<1> HIDE DEF i
<1>7. From(host, i + 1) = of
  <2> DEFINE t == SubSeq(host, i + 1, Len(host))
  <2>1. /\ i + 1 \in Nat \ {0} /\ Len(host) - (i + 1) + 1 = Len(of)
        /\ Len(host) \in Int /\ Len(host) <= Len(host)
    BY <1>0, <1>1, <1>5
  <2>2. /\ t \in Text
        /\ Len(t) = IF i + 1 <= Len(host) THEN Len(host) - (i + 1) + 1 ELSE 0
        /\ \A k \in 1..Len(host) - (i + 1) + 1 : t[k] = host[(i + 1) + k - 1]
    BY <2>1, Cut
  <2> HIDE DEF t
  <2>3. Len(t) = Len(of)
    <3>1. i \in Nat /\ i <= Len(host)
      BY <1>1, <1>5
    <3>2. CASE i + 1 <= Len(host)
      BY <2>1, <2>2, <3>2
    <3>3. CASE i = Len(host)
      BY <1>0, <1>1, <2>2, <3>3
    <3> QED BY <1>1, <3>1, <3>2, <3>3
  <2>4. ASSUME NEW k \in 1..Len(of) PROVE t[k] = of[k]
    <3>1. t[k] = host[(i + 1) + k - 1]
      BY <2>1, <2>2
    <3>2. /\ Len(of) - k + 1 \in 1..Len(s)
          /\ Len(s) - (Len(of) - k + 1) + 1 = k + 1
          /\ Len(host) - (Len(of) - k + 1) + 1 = (i + 1) + k - 1
      BY <1>0, <1>1, <1>3
    <3>3. s[k + 1] = host[(i + 1) + k - 1]
      BY <1>4, <3>2
    <3> QED BY <1>3, <3>1, <3>3
  <2>5. t = of
    BY <2>2, <2>3, <2>4, SeqEqual DEF Text
  <2> QED BY <2>5 DEF t, From
<1> QED BY <1>5, <1>6, <1>7 DEF i

\* Every domain above a host name is one of its domains.
LEMMA DomainsAreAll ==
  ASSUME NEW host \in Text, NEW of \in Text, of # <<>>,
         host = of \/ IsSuffix(<<".">> \o of, host)
  PROVE  of \in Domains(host)
<1>1. CASE host = of
  BY <1>1 DEF Domains
<1>2. CASE IsSuffix(<<".">> \o of, host)
  <2> DEFINE i == Len(host) - Len(of)
  <2>1. i \in 1..Len(host) /\ host[i] = "." /\ From(host, i + 1) = of
    BY <1>2, Suffix
  <2>2. Len(of) \in Nat \ {0} /\ Len(host) \in Nat
    BY TextLength, EmptySeq DEF Text
  <2>3. i \in 1..Len(host) - 1
    BY <2>1, <2>2
  <2> HIDE DEF i
  <2> QED BY <2>1, <2>3 DEF Domains
<1> QED BY <1>1, <1>2

\* A text begins with another if it has the same tokens.
LEMMA PrefixOf ==
  ASSUME NEW s \in Text, NEW t \in Text, Len(s) <= Len(t), \A k \in 1..Len(s) : s[k] = t[k]
  PROVE  IsPrefix(s, t)
<1> DEFINE a == SubSeq(s, 1, Len(s))
           b == SubSeq(t, 1, Len(s))
<1>1. Len(s) \in Nat /\ Len(s) \in Int /\ Len(s) <= Len(s) /\ 1 \in Nat \ {0}
      /\ Len(s) - 1 + 1 = Len(s)
  BY TextLength
<1>2. /\ a \in Text /\ Len(a) = IF 1 <= Len(s) THEN Len(s) - 1 + 1 ELSE 0
      /\ \A k \in 1..Len(s) - 1 + 1 : a[k] = s[1 + k - 1]
  BY <1>1, Cut
<1>3. /\ b \in Text /\ Len(b) = IF 1 <= Len(s) THEN Len(s) - 1 + 1 ELSE 0
      /\ \A k \in 1..Len(s) - 1 + 1 : b[k] = t[1 + k - 1]
  BY <1>1, Cut
<1> HIDE DEF a, b
<1>4. Len(a) = Len(s) /\ Len(b) = Len(s)
  BY <1>1, <1>2, <1>3
<1>5. ASSUME NEW k \in 1..Len(a) PROVE a[k] = b[k]
  <2>1. k \in 1..Len(s) /\ k \in 1..Len(s) - 1 + 1 /\ 1 + k - 1 = k
    BY <1>1, <1>4
  <2> QED BY <1>2, <1>3, <2>1
<1>6. a = b
  BY <1>2, <1>3, <1>4, <1>5, SeqEqual DEF Text
<1> QED BY <1>6 DEF IsPrefix, a, b

-----------------------------------------------------------------------------
(* The lines of a block list.                                              *)

\* A line names a host in its places p to q: in front of it the address that
\* blocked hosts get, or nothing, behind it a comment, or nothing.
Blank(line, i) == line[i] = " "
Hash(line, i) == line[i] = "#"
Address(line, i) == line[i] = "0.0.0.0"
NamesAt(line, p, q) ==
  /\ p \in 1..Len(line) /\ q \in p..Len(line)
  /\ \A i \in p..q : ~Blank(line, i) /\ ~Hash(line, i) /\ ~Address(line, i)
  /\ \E c \in q + 1..Len(line) + 1 :
       /\ c = Len(line) + 1 \/ Hash(line, c)
       /\ \A i \in q + 1..c - 1 : Blank(line, i)
  /\ \E a \in 0..p - 1 :
       /\ a # 0 => Address(line, a)
       /\ \A i \in 1..p - 1 : i # a => Blank(line, i)
Names(line, host) == \E p, q \in 1..Len(line) : NamesAt(line, p, q) /\ host = SubSeq(line, p, q)

\* A place holds one token.
LEMMA OneToken ==
  ASSUME NEW line, NEW i
  PROVE  /\ Blank(line, i) => ~Hash(line, i) /\ ~Address(line, i)
         /\ Address(line, i) => ~Hash(line, i)
  BY DEF Blank, Hash, Address

\* A part of a line, of which n places are left away in front.
LEMMA PartOf ==
  ASSUME NEW s \in Text, NEW m \in Nat, NEW n \in Nat, 1 <= m, m <= n, n <= Len(s)
  PROVE  LET part == SubSeq(s, m, n)
         IN /\ part \in Text /\ Len(part) = n - m + 1
            /\ \A k \in 1..n - m + 1 : part[k] = s[m + k - 1]
<1>1. m \in Nat \ {0} /\ n \in Int /\ n <= Len(s)
  OBVIOUS
<1> QED BY <1>1, Cut

\* A part of a part.
LEMMA CutAgain ==
  ASSUME NEW s \in Text, NEW t \in Text, NEW m \in Nat, NEW n \in Nat, NEW d \in Nat,
         1 <= m, m <= n, n <= Len(s), n + d <= Len(t),
         \A i \in m..n : s[i] = t[i + d]
  PROVE  SubSeq(s, m, n) = SubSeq(t, m + d, n + d)
<1> DEFINE x == SubSeq(s, m, n)
           y == SubSeq(t, m + d, n + d)
<1>1. /\ m + d \in Nat /\ n + d \in Nat /\ 1 <= m + d /\ m + d <= n + d
      /\ (n + d) - (m + d) + 1 = n - m + 1
  OBVIOUS
<1>2. x \in Text /\ Len(x) = n - m + 1 /\ \A k \in 1..n - m + 1 : x[k] = s[m + k - 1]
  BY PartOf
<1>3. y \in Text /\ Len(y) = n - m + 1 /\ \A k \in 1..n - m + 1 : y[k] = t[(m + d) + k - 1]
  <2>1. /\ y \in Text /\ Len(y) = (n + d) - (m + d) + 1
        /\ \A k \in 1..(n + d) - (m + d) + 1 : y[k] = t[(m + d) + k - 1]
    BY <1>1, PartOf
  <2> HIDE DEF y
  <2> QED BY <1>1, <2>1
<1> HIDE DEF x, y
<1>4. ASSUME NEW k \in 1..Len(x) PROVE x[k] = y[k]
  <2>1. /\ k \in 1..n - m + 1 /\ m + k - 1 \in m..n /\ (m + k - 1) + d = (m + d) + k - 1
    BY <1>1, <1>2
  <2> QED BY <1>2, <1>3, <2>1
<1> QED BY <1>2, <1>3, <1>4, SeqEqual DEF x, y, Text

\* White space in front of and behind places p to q is removed.
LEMMA Trimmed ==
  ASSUME NEW line \in Text, NEW p \in Nat, NEW q \in Nat, 1 <= p, p <= q, q <= Len(line),
         ~Blank(line, p), ~Blank(line, q),
         \A i \in 1..Len(line) : i < p \/ q < i => Blank(line, i)
  PROVE  TrimLine(line) = SubSeq(line, p, q)
<1> DEFINE black == {i \in DOMAIN line : ~Blank(line, i)}
<1>1. DOMAIN line = 1..Len(line)
  BY TextLength
<1>2. Len(line) \in Nat
  BY TextLength
<1>3. p \in 1..Len(line) /\ q \in 1..Len(line)
  BY <1>2
<1>4. p \in black /\ q \in black
  BY <1>1, <1>3, Zenon
<1>5. ASSUME NEW i \in black PROVE p <= i /\ i <= q
  <2>1. i \in 1..Len(line) /\ ~Blank(line, i)
    BY <1>1, Zenon
  <2>2. ~(i < p) /\ ~(q < i)
    BY <2>1
  <2>3. i \in Nat
    BY <1>2, <2>1
  <2> QED BY <2>2, <2>3
<1>6. black \in SUBSET (1..Len(line)) /\ black # {}
  BY <1>1, <1>4, Zenon
<1>7. TrimLine(line) = IF black = {} THEN <<>> ELSE SubSeq(line, Min(black), Max(black))
  BY Zenon DEF TrimLine, Blank
<1> HIDE DEF black
<1>8. black \in SUBSET Nat
  BY <1>2, <1>6
<1>9. /\ Min(black) \in black /\ \A i \in black : Min(black) <= i
      /\ Max(black) \in black /\ \A i \in black : i <= Max(black)
  BY <1>2, <1>6, <1>8, MinIsLeast, MaxIsGreatest
<1>10. Min(black) = p /\ Max(black) = q
  <2>1. Min(black) \in Nat /\ Max(black) \in Nat
    BY <1>8, <1>9
  <2>2. Min(black) <= p /\ p <= Min(black) /\ Max(black) <= q /\ q <= Max(black)
    BY <1>4, <1>5, <1>9
  <2> QED BY <2>1, <2>2
<1> QED BY <1>6, <1>7, <1>10

\* What is in front of a comment.
LEMMA CommentIsCut ==
  ASSUME NEW line \in Text, NEW c \in Nat, 1 < c, c <= Len(line) + 1,
         c = Len(line) + 1 \/ Hash(line, c),
         \A i \in 1..c - 1 : ~Hash(line, i)
  PROVE  LET bare == Upto(line, Find(line, <<"#">>, 1))
         IN /\ bare \in Text /\ Len(bare) = c - 1
            /\ \A i \in 1..c - 1 : bare[i] = line[i]
<1> DEFINE f == Find(line, <<"#">>, 1)
           bare == Upto(line, f)
           hashes == {i \in 1..Len(line) : Hash(line, i)}
<1>1. Len(line) \in Nat
  BY TextLength
<1>2. Matches(line, <<"#">>) = hashes
  <2>1. "#" \in Token
    BY DEF Token
  <2> QED BY <2>1, TokenMatches, Zenon DEF Hash
<1>3. /\ f \in 0..Len(line) /\ (f # 0 => f \in hashes)
      /\ \A j \in hashes : 1 <= j => f # 0 /\ f <= j
  BY <1>2, Marks, Finding, Zenon
<1>4. bare = IF f = 0 THEN line ELSE SubSeq(line, 1, f - 1)
  BY Zenon DEF Upto
<1> HIDE DEF f, bare
<1>5. CASE c = Len(line) + 1
  <2>1. f = 0
    <3> SUFFICES ASSUME f # 0 PROVE FALSE
      OBVIOUS
    <3>1. f \in 1..Len(line) /\ Hash(line, f)
      BY <1>3
    <3>2. f \in 1..c - 1
      BY <1>1, <1>5, <3>1
    <3> QED BY <3>1, <3>2
  <2>2. c - 1 = Len(line)
    BY <1>1, <1>5
  <2> QED BY <1>4, <2>1, <2>2 DEF f, bare
<1>6. CASE c # Len(line) + 1
  <2>1. c \in 1..Len(line)
    BY <1>1, <1>6
  <2>2. c \in hashes /\ 1 <= c
    BY <1>6, <2>1
  <2>3. f # 0 /\ f <= c /\ f \in 1..Len(line) /\ Hash(line, f)
    BY <1>3, <2>2
  <2>4. f = c
    <3>1. f \notin 1..c - 1
      BY <2>3
    <3>2. f \in Nat /\ 1 <= f
      BY <1>1, <2>3
    <3> QED BY <2>3, <3>1, <3>2
  <2>5. c - 1 \in Nat /\ 1 <= c - 1 /\ c - 1 <= Len(line) /\ (c - 1) - 1 + 1 = c - 1 /\ 1 \in Nat
        /\ 1 <= 1 /\ c # 0
    BY <1>1, <2>1
  <2>6. bare = SubSeq(line, 1, c - 1)
    BY <1>4, <2>4, <2>5
  <2>7. /\ bare \in Text /\ Len(bare) = (c - 1) - 1 + 1
        /\ \A k \in 1..(c - 1) - 1 + 1 : bare[k] = line[1 + k - 1]
    BY <2>5, <2>6, PartOf
  <2>8. \A k \in 1..c - 1 : 1 + k - 1 = k
    BY <2>5
  <2> QED BY <2>5, <2>7, <2>8 DEF f, bare
<1> QED BY <1>5, <1>6 DEF f, bare

\* Whether a text begins with the address of blocked hosts.
LEMMA BeginsWithAddress ==
  ASSUME NEW text \in Text, 1 <= Len(text)
  PROVE  IsPrefix(<<"0.0.0.0">>, text) <=> Address(text, 1)
<1> DEFINE address == <<"0.0.0.0">>
<1>1. address \in Text /\ Len(address) = 1 /\ address[1] = "0.0.0.0"
  BY One DEF Token
<1> HIDE DEF address
<1>2. Len(text) \in Nat
  BY TextLength
<1>3. ASSUME Address(text, 1) PROVE IsPrefix(address, text)
  <2>1. text[1] = "0.0.0.0"
    BY <1>3 DEF Address
  <2>2. \A k \in 1..Len(address) : k = 1
    BY <1>1
  <2>3. Len(address) <= Len(text)
    BY <1>1
  <2>4. \A k \in 1..Len(address) : address[k] = text[k]
    BY <1>1, <2>1, <2>2
  <2> QED BY <1>1, <2>3, <2>4, PrefixOf
<1>4. ASSUME IsPrefix(address, text) PROVE Address(text, 1)
  <2>1. SubSeq(address, 1, 1) = SubSeq(text, 1, 1)
    BY <1>1, <1>4 DEF IsPrefix
  <2>2. 1 \in Nat /\ 1 <= 1 /\ 1 \in 1..1 - 1 + 1 /\ 1 + 1 - 1 = 1 /\ 1 <= Len(address)
    BY <1>1
  <2>3. SubSeq(address, 1, 1)[1] = address[1]
    BY <1>1, <2>2, PartOf
  <2>4. SubSeq(text, 1, 1)[1] = text[1]
    BY <2>2, PartOf
  <2> QED BY <1>1, <2>1, <2>3, <2>4 DEF Address
<1> QED BY <1>3, <1>4 DEF address

\* The host that a line names is what is read from it.
LEMMA HostIsRead ==
  ASSUME NEW line \in Text, NEW p, NEW q, NamesAt(line, p, q)
  PROVE  LET host == SubSeq(line, p, q)
         IN /\ HostOfLine(line) = host
            /\ host \in Text /\ host # <<>> /\ ~Has(host, " ")
<1> DEFINE host == SubSeq(line, p, q)
           bare == Upto(line, Find(line, <<"#">>, 1))
           text == TrimLine(bare)
<1>1. Len(line) \in Nat
  BY TextLength
<1>2. p \in Nat /\ q \in Nat /\ 1 <= p /\ p <= q /\ q <= Len(line)
  BY <1>1 DEF NamesAt
<1>3. \A i \in p..q : ~Blank(line, i) /\ ~Hash(line, i) /\ ~Address(line, i)
  BY Zenon DEF NamesAt
<1>4. PICK c \in q + 1..Len(line) + 1 :
        /\ c = Len(line) + 1 \/ Hash(line, c)
        /\ \A i \in q + 1..c - 1 : Blank(line, i)
  BY Zenon DEF NamesAt
<1>5. PICK a \in 0..p - 1 :
        /\ a # 0 => Address(line, a)
        /\ \A i \in 1..p - 1 : i # a => Blank(line, i)
  BY Zenon DEF NamesAt
<1>6. c \in Nat /\ q < c /\ c <= Len(line) + 1
  BY <1>1, <1>2
<1>7. a \in Nat /\ a < p
  BY <1>2
<1>8. ASSUME NEW i \in 1..c - 1
      PROVE  /\ i \in Nat /\ 1 <= i /\ i < c
             /\ i \in 1..p - 1 \/ i \in p..q \/ i \in q + 1..c - 1
  BY <1>2, <1>6
<1>9. ASSUME NEW i \in 1..c - 1 PROVE ~Hash(line, i)
  <2>1. CASE i \in 1..p - 1
    <3>1. CASE i = a
      BY <1>5, <1>8, <3>1, OneToken
    <3>2. CASE i # a
      BY <1>5, <2>1, <3>2, OneToken
    <3> QED BY <3>1, <3>2
  <2>2. CASE i \in p..q
    BY <1>3, <2>2
  <2>3. CASE i \in q + 1..c - 1
    BY <1>4, <2>3, OneToken
  <2> QED BY <1>8, <2>1, <2>2, <2>3
<1>10. bare \in Text /\ Len(bare) = c - 1 /\ \A i \in 1..c - 1 : bare[i] = line[i]
  <2>1. 1 < c
    BY <1>2, <1>6
  <2> QED BY <1>4, <1>6, <1>9, <2>1, CommentIsCut
<1>11. HostOfLine(line) = IF IsPrefix(<<"0.0.0.0">>, text) THEN TrimLine(Tail(text)) ELSE text
  BY Zenon DEF HostOfLine
<1>12. host \in Text /\ Len(host) = q - p + 1 /\ \A k \in 1..q - p + 1 : host[k] = line[p + k - 1]
  BY <1>2, PartOf
<1> HIDE DEF bare
<1>13. q <= Len(bare) /\ Len(bare) \in Nat
  BY <1>2, <1>6, <1>10
<1>14. p \in p..q /\ q \in p..q /\ p \in 1..c - 1 /\ q \in 1..c - 1
  BY <1>2, <1>6
<1>15. \A i \in 1..c - 1 : /\ Blank(bare, i) <=> Blank(line, i)
                           /\ Address(bare, i) <=> Address(line, i)
  BY <1>10, Zenon DEF Blank, Address
<1>17. ~Blank(bare, p) /\ ~Blank(bare, q)
  BY <1>3, <1>14, <1>15, Zenon
<1>18. ASSUME NEW i \in 1..Len(bare), (i < p /\ i # a) \/ q < i PROVE Blank(bare, i)
  <2>1. i \in 1..c - 1
    BY <1>10
  <2>2. (i \in 1..p - 1 /\ i # a) \/ i \in q + 1..c - 1
    BY <1>2, <1>6, <1>8, <1>18, <2>1
  <2>3. Blank(line, i)
    BY <1>4, <1>5, <2>2, Zenon
  <2> QED BY <1>15, <2>1, <2>3
<1>19. SubSeq(bare, p, q) = host
  <2>1. 0 \in Nat /\ q + 0 <= Len(line) /\ p + 0 = p /\ q + 0 = q
    BY <1>1, <1>2
  <2>2. \A i \in p..q : i \in 1..c - 1 /\ i + 0 = i
    BY <1>2, <1>6
  <2>3. \A i \in p..q : bare[i] = line[i + 0]
    BY <1>10, <2>2
  <2>4. SubSeq(bare, p, q) = SubSeq(line, p + 0, q + 0)
    BY <1>2, <1>10, <1>13, <2>1, <2>3, CutAgain
  <2> QED BY <2>1, <2>4
<1> HIDE DEF host, text
<1>20. ASSUME a = 0 PROVE HostOfLine(line) = host
  <2>1. text = host
    <3>1. ASSUME NEW i \in 1..Len(bare), i < p \/ q < i PROVE Blank(bare, i)
      <4>1. i # a
        BY <1>13, <1>20
      <4> QED BY <1>18, <3>1, <4>1
    <3>2. text = SubSeq(bare, p, q)
      BY <1>2, <1>10, <1>13, <1>17, <3>1, Trimmed DEF text
    <3> QED BY <1>19, <3>2
  <2>2. ~Address(host, 1) /\ 1 <= Len(host)
    <3>1. 1 \in 1..q - p + 1 /\ p + 1 - 1 = p /\ 1 <= q - p + 1
      BY <1>2
    <3>2. host[1] = line[p]
      BY <1>12, <3>1
    <3>3. ~Address(line, p)
      BY <1>3, <1>14
    <3> QED BY <1>12, <3>1, <3>2, <3>3 DEF Address
  <2>3. ~IsPrefix(<<"0.0.0.0">>, host)
    BY <1>12, <2>2, BeginsWithAddress, Zenon
  <2> QED BY <1>11, <2>1, <2>3, Zenon
<1>21. ASSUME a # 0 PROVE HostOfLine(line) = host
  <2>1. 1 <= a /\ a <= q /\ a < q /\ a \in 1..c - 1
    BY <1>2, <1>6, <1>7, <1>21
  <2>2. Address(bare, a)
    BY <1>5, <1>15, <1>21, <2>1
  <2>3. ~Blank(bare, a)
    BY <2>2, OneToken
  <2>4. text = SubSeq(bare, a, q)
    <3>1. ASSUME NEW i \in 1..Len(bare), i < a \/ q < i PROVE Blank(bare, i)
      <4>1. (i < p /\ i # a) \/ q < i
        BY <1>2, <1>7, <1>13, <3>1
      <4> QED BY <1>18, <4>1
    <3> QED BY <1>2, <1>7, <1>10, <1>13, <1>17, <2>1, <2>3, <3>1, Trimmed DEF text
  <2>5. /\ text \in Text /\ Len(text) = q - a + 1
        /\ \A k \in 1..q - a + 1 : text[k] = bare[a + k - 1]
    BY <1>2, <1>7, <1>10, <1>13, <2>1, <2>4, PartOf
  <2>6. q - a + 1 \in Nat /\ 1 \in 1..q - a + 1 /\ a + 1 - 1 = a /\ 1 <= q - a + 1
    BY <1>2, <1>7, <2>1
  <2>7. IsPrefix(<<"0.0.0.0">>, text)
    <3>1. text[1] = bare[a]
      BY <2>5, <2>6
    <3>2. Address(text, 1)
      BY <2>2, <3>1 DEF Address
    <3> QED BY <2>5, <2>6, <3>2, BeginsWithAddress
  <2> DEFINE rest == Tail(text)
  <2>8. rest \in Text /\ Len(rest) = q - a /\ \A k \in 1..q - a : rest[k] = bare[k + a]
    <3>0. Len(text) # 0
      BY <2>5, <2>6
    <3>1. /\ rest \in Text /\ Len(rest) = Len(text) - 1
          /\ \A k \in 1..Len(rest) : rest[k] = text[k + 1]
      <4>1. text # <<>>
        BY <3>0
      <4> QED BY <2>5, <4>1, HeadTailProperties DEF Text
    <3> HIDE DEF rest
    <3>2. Len(rest) = q - a
      BY <1>2, <1>7, <2>5, <3>1
    <3>3. \A k \in 1..q - a : k + 1 \in 1..q - a + 1 /\ a + (k + 1) - 1 = k + a
      BY <1>2, <1>7
    <3> QED BY <2>5, <3>1, <3>2, <3>3
  <2> HIDE DEF rest
  <2>9. /\ p - a \in Nat /\ q - a \in Nat /\ 1 <= p - a /\ p - a <= q - a
        /\ q - a <= Len(rest) /\ (p - a) + a = p /\ (q - a) + a = q
        /\ (q - a) + a <= Len(bare) /\ p - a \in 1..q - a /\ q - a \in 1..q - a
    BY <1>2, <1>7, <1>13, <2>8
  <2>10. \A k \in 1..q - a : Blank(rest, k) <=> Blank(bare, k + a)
    BY <2>8, Zenon DEF Blank
  <2>11. TrimLine(rest) = SubSeq(rest, p - a, q - a)
    <3>1. ~Blank(rest, p - a) /\ ~Blank(rest, q - a)
      BY <1>17, <2>9, <2>10
    <3>2. ASSUME NEW i \in 1..Len(rest), i < p - a \/ q - a < i PROVE Blank(rest, i)
      <4>1. i \in 1..q - a
        BY <2>8
      <4>2. i + a \in 1..Len(bare) /\ i + a < p /\ i + a # a
        BY <1>2, <1>7, <1>13, <3>2, <4>1
      <4> QED BY <1>18, <2>10, <4>1, <4>2
    <3> QED BY <2>8, <2>9, <3>1, <3>2, Trimmed
  <2>12. SubSeq(rest, p - a, q - a) = SubSeq(bare, p, q)
    <3>1. \A i \in p - a..q - a : i \in 1..q - a
      BY <1>2, <1>7, <2>9
    <3> DEFINE m == p - a
               n == q - a
    <3>2. \A i \in m..n : rest[i] = bare[i + a]
      BY <2>8, <3>1
    <3>3. /\ m \in Nat /\ n \in Nat /\ 1 <= m /\ m <= n /\ n <= Len(rest)
          /\ m + a = p /\ n + a = q /\ n + a <= Len(bare)
      BY <2>9
    <3> HIDE DEF m, n
    <3>4. SubSeq(rest, m, n) = SubSeq(bare, m + a, n + a)
      BY <1>7, <1>10, <2>8, <3>2, <3>3, CutAgain
    <3> QED BY <3>3, <3>4 DEF m, n
  <2> QED BY <1>11, <1>19, <2>7, <2>11, <2>12, Zenon DEF rest
<1>22. host # <<>> /\ ~Has(host, " ")
  <2>1. Len(host) # 0
    BY <1>2, <1>12
  <2>2. \A k \in 1..q - p + 1 : p + k - 1 \in p..q
    BY <1>2
  <2>3. \A k \in 1..Len(host) : host[k] # " "
    BY <1>3, <1>12, <2>2, Zenon DEF Blank
  <2>4. DOMAIN host = 1..Len(host)
    BY <1>12, TextLength
  <2>5. host # <<>>
    BY <2>1
  <2>6. ~Has(host, " ")
    BY <2>3, <2>4, Zenon DEF Has, Contains
  <2> QED BY <2>5, <2>6, Zenon
<1> QED BY <1>12, <1>20, <1>21, <1>22, Zenon DEF host

\* Every host that a line of a block list names is listed, with or without the
\* address in front of it, white space around it and a comment behind it
\* (HostList::add_hosts_from_file).
THEOREM LinesAreListed ==
  ASSUME NEW file \in Seq(STRING), NEW line \in LinesOf(file), NEW host, Names(line, host)
  PROVE  host \in add_hosts_from_file(file) /\ host \in Text
<1>1. line \in Text
  <2> DEFINE breaks == {i \in DOMAIN file : file[i] = "\n"}
             begin(i) == IF \E j \in breaks : j < i
                         THEN 1 + CHOOSE j \in breaks : j < i /\ \A k \in breaks : k < i => k <= j
                         ELSE 1
  <2>1. file \in Text /\ DOMAIN file = 1..Len(file) /\ Len(file) \in Nat
    BY TextOfStrings, TextLength
  <2>2. PICK i \in breaks : line = SubSeq(file, begin(i), i - 1)
    BY Zenon DEF LinesOf
  <2>3. i \in 1..Len(file)
    BY <2>1
  <2>4. begin(i) \in Nat \ {0}
    <3>1. CASE \E j \in breaks : j < i
      <4> DEFINE before == {j \in breaks : j < i}
      <4>1. before \in SUBSET (1..Len(file)) /\ before # {}
        BY <2>1, <3>1
      <4>2. Max(before) \in before /\ \A k \in before : k <= Max(before)
        BY <2>1, <4>1, MaxIsGreatest
      <4> DEFINE last == CHOOSE j \in breaks : j < i /\ \A k \in breaks : k < i => k <= j
      <4>3. last \in breaks
        BY <4>2
      <4> HIDE DEF last
      <4>4. last \in Nat
        BY <2>1, <4>3
      <4>5. begin(i) = 1 + last
        BY <3>1, Zenon DEF last
      <4> QED BY <4>4, <4>5
    <3>2. CASE ~\E j \in breaks : j < i
      BY <3>2
    <3> QED BY <3>1, <3>2
  <2> HIDE DEF begin, breaks
  <2>5. i - 1 \in Int /\ i - 1 <= Len(file)
    BY <2>1, <2>3
  <2> QED BY <2>1, <2>2, <2>4, <2>5, Cut
<1>2. PICK p, q \in 1..Len(line) : NamesAt(line, p, q) /\ host = SubSeq(line, p, q)
  BY DEF Names
<1> QED BY <1>1, <1>2, HostIsRead DEF add_hosts_from_file

-----------------------------------------------------------------------------
(* Texts in the state.                                                      *)

ProperNote(note) ==
  /\ ProperRequest(note.request) /\ note.url \in Text
  /\ note.answer.location # None => note.answer.location \in Text

\* URLs are texts, whatever sites, browser and server have made of them.
Texts ==
  /\ server_base \in Text
  /\ \A i \in DOMAIN journal : ProperNote(journal[i])
  /\ \A i \in DOMAIN replayed : ProperNote(replayed[i])

\* Whatever a browser requests next, its path is a text that is not empty.
LEMMA NextRequestsAreProper ==
  ASSUME Histories, Texts, NEW r \in NextRequests
  PROVE  ProperRequest(r)
<1>1. CASE r \in Requests
  <2>1. r.path \in Seq(STRING) \ {<<>>} /\ r.query \in Seq(STRING)
    BY <1>1, BrowsingAssumption
  <2> QED BY <2>1, TextOfStrings DEF ProperRequest
<1>2. CASE r \in Following
  <2> DEFINE last == Last(Done)
             from == WithQuery(Local \o last.request.path, last.request.query)
             target == Resolve(last.answer.location, from)
  <2>1. /\ Done # <<>> /\ last.answer.location # None
        /\ r.path = PathOf(target)
        /\ r.query = IF Query(target) = <<>> THEN <<>> ELSE Tail(Query(target))
    <3> DEFINE request == [method |-> "GET", path |-> PathOf(target), data |-> <<>>,
                           follows |-> TRUE, query |-> IF Query(target) = <<>> THEN <<>>
                                                       ELSE Tail(Query(target))]
    <3>1. /\ ~(Done = <<>> \/ last.answer.status \notin Redirected \/ last.answer.location = None)
          /\ r \in IF Origin(target) # Local THEN {} ELSE {request}
      BY <1>2, Zenon DEF Following
    <3>2. /\ request.path = PathOf(target)
          /\ request.query = IF Query(target) = <<>> THEN <<>> ELSE Tail(Query(target))
      BY Zenon
    <3> HIDE DEF request, target, last
    <3>3. r = request
      BY <3>1
    <3> QED BY <3>1, <3>2, <3>3
  <2>2. Len(Done) \in DOMAIN Done
    <3>1. Done \in Seq(Range(Done)) /\ Done # <<>>
      BY <2>1 DEF Done, Histories
    <3>2. Len(Done) \in Nat \ {0} /\ DOMAIN Done = 1..Len(Done)
      BY <3>1, EmptySeq, LenProperties
    <3> QED BY <3>2
  <2>3. ProperNote(last)
    BY <2>2 DEF Texts, Done, Last
  <2>4. from \in Text /\ last.answer.location \in Text
    BY <2>1, <2>3, Marks, Joined, QueriedIsText DEF ProperNote, ProperRequest
  <2> HIDE DEF last, from
  <2>5. /\ PathOf(target) \in Text \ {<<>>}
        /\ (IF Query(target) = <<>> THEN <<>> ELSE Tail(Query(target))) \in Text
    BY <2>4, FollowingIsProper
  <2> HIDE DEF target
  <2> QED BY <2>1, <2>5 DEF ProperRequest
<1>3. CASE \E i \in DOMAIN journal : r = journal[i].request
  BY <1>3 DEF Texts, ProperNote
<1> QED BY <1>1, <1>2, <1>3 DEF NextRequests

\* URLs are texts in the beginning ...
LEMMA TextsInit == Init => Texts
<1> SUFFICES ASSUME Init PROVE Texts
  OBVIOUS
<1>1. settings.url \in Text
  BY BrowsingAssumption, TextOfStrings DEF Init
<1>2. server_base \in Text
  BY <1>1, PartsAreTexts DEF Init
<1> QED BY <1>2 DEF Init, Texts

\* ... and remain texts.
LEMMA TextsStep ==
  ASSUME TypeOK, Histories, Texts, [Next]_vars
  PROVE  Texts'
<1>1. ASSUME NEW r \in NextRequests, NEW answer, NEW response,
             Note(r, UrlOf(r), answer, response), server_base' \in Text,
             answer.location # None => answer.location \in Text
      PROVE  Texts'
  <2> DEFINE note == Noted(r, UrlOf(r), answer, response)
  <2>1. \/ replayed' = replayed /\ journal' = Append(journal, note)
        \/ journal' = journal /\ replayed' = Append(replayed, note)
    BY <1>1, Noting
  <2>2. ProperNote(note)
    <3>1. ProperRequest(r)
      BY NextRequestsAreProper
    <3>2. UrlOf(r) \in Text
      <4>1. Known.server_base \in Text
        BY DEF Texts, Known
      <4> QED BY <3>1, <4>1, UrlIsMeaning, MeaningIsText
    <3> QED BY <1>1, <3>1, <3>2 DEF ProperNote, Noted
  <2> HIDE DEF note
  <2>3. ASSUME NEW history, history \in Seq(Range(history)),
               \A i \in DOMAIN history : ProperNote(history[i]),
               NEW next, next = Append(history, note)
        PROVE  \A i \in DOMAIN next : ProperNote(next[i])
    <3>1. /\ Len(history) \in Nat /\ DOMAIN history = 1..Len(history)
          /\ DOMAIN next = 1..Len(history) + 1
          /\ \A i \in 1..Len(history) : next[i] = history[i]
          /\ next[Len(history) + 1] = note
      BY <2>3, Longer
    <3> QED BY <2>2, <2>3, <3>1
  <2> QED BY <1>1, <2>1, <2>3 DEF Texts, Histories
<1>2. ASSUME NEW r \in NextRequests, NEW status, Replies(r, UrlOf(r), status)
      PROVE  Texts'
  <2>1. Reply(r, UrlOf(r), status) /\ server_base' = server_base
    BY <1>2 DEF Replies, Reply, base
  <2>2. Answer(status, None, None).location = None
    BY DEF Answer
  <2>3. Note(r, UrlOf(r), Answer(status, None, None), None)
    BY <2>1 DEF Reply
  <2> QED BY <1>1, <2>1, <2>2, <2>3 DEF Texts
<1>3. ASSUME NEW r \in NextRequests, NEW response \in Responses, NEW body,
             Serves(r, UrlOf(r), response, body)
      PROVE  Texts'
  <2> DEFINE url == UrlOf(r)
             answer == Answer(response.status, Location(Known', url, response), body)
  <2>1. Known' = Taught(Known, url, response) /\ Note(r, url, answer, response)
    BY <1>3, ServingTeaches DEF Serves
  <2>2. response.location # None => response.location \in Text
    BY BrowsingAssumption, TextOfStrings
  <2>3. server_base' \in Text
    <3>1. server_base' = IF Redirects(Known, url, response)
                         THEN get_scheme_hostname_port(response.location) ELSE server_base
      BY <2>1 DEF Taught, Known
    <3>2. Redirects(Known, url, response) => response.location # None
      BY DEF Redirects
    <3> QED BY <2>2, <3>1, <3>2, PartsAreTexts DEF Texts
  <2>4. url \in Text
    <3>1. ProperRequest(r)
      BY NextRequestsAreProper
    <3>2. Known.server_base \in Text
      BY DEF Texts, Known
    <3> QED BY <3>1, <3>2, UrlIsMeaning, MeaningIsText
  <2>5. answer.location # None => answer.location \in Text
    <3>1. answer.location = Location(Known', url, response)
      BY DEF Answer
    <3>2. CASE response.location = None
      BY <3>1, <3>2 DEF Location
    <3>3. CASE response.location # None
      <4>1. to_absolute_url(response.location, url) \in Text
        BY <2>2, <2>4, <3>3, AbsoluteIsText
      <4>2. Known'.server_base \in Text
        BY <2>3 DEF Known
      <4>3. to_relative_url(to_absolute_url(response.location, url), Known'.server_base) \in Text
        BY <4>1, <4>2, RelativeIsText
      <4> QED BY <3>1, <3>3, <4>3 DEF Location
    <3> QED BY <3>2, <3>3
  <2> QED BY <1>1, <2>1, <2>3, <2>5
<1>4. ASSUME NEW download \in {"standard", "never"}, Shutdown(download)
      PROVE  Texts'
  <2>1. settings.url \in Text
    BY BrowsingAssumption, TextOfStrings DEF TypeOK
  <2>2. server_base' \in Text /\ UNCHANGED <<journal, replayed>>
    BY <1>4, <2>1, PartsAreTexts DEF Shutdown
  <2> QED BY <2>2 DEF Texts
<1>5. CASE UNCHANGED vars
  BY <1>5 DEF vars, base, Texts
<1> QED BY <1>2, <1>3, <1>4, <1>5, StepKinds

\* URLs remain well-formed sequences, whatever is made absolute, relative,
\* patched, redirected to or resolved.
THEOREM TextsRemain == Spec => []Texts
<1>1. Init => TypeOK /\ Histories /\ Texts
  BY TypeInit, TextsInit
<1>2. TypeOK /\ Histories /\ Texts /\ [Next]_vars => (TypeOK /\ Histories /\ Texts)'
  BY TypeStep, TextsStep
<1> QED BY <1>1, <1>2, PTL DEF Spec

\* Nothing of a host that the block list names, nor of a domain of it, is ever
\* requested or served, however its URL came about: as a request, from a
\* redirect, or by transport security (serve_blocked comes before every source).
THEOREM AlwaysBlocked ==
  ASSUME \A host \in ListedHosts : \E line \in LinesOf(BlockList) : Names(line, host)
  PROVE  Spec => []BlockedIsNotServed
<1>1. TypeOK /\ Learning /\ Texts => BlockedIsNotServed
  <2> SUFFICES ASSUME TypeOK, Learning, Texts,
                      NEW history \in {journal, replayed}, NEW i \in DOMAIN history,
                      history[i].response # None, NEW listed \in ListedHosts
               PROVE  /\ HostOf(history[i]) # listed
                      /\ ~IsSuffix(<<".">> \o listed, HostOf(history[i]))
    BY DEF BlockedIsNotServed
  <2> DEFINE note == history[i]
  <2>1. Follows(note, KnownBefore(history, i))
    BY DEF Learning
  <2>2. ~contains(Blocked, note.url)
    BY <2>1 DEF Follows, IsServable
  <2>3. HostOf(note) \in Text
    <3>1. note.url \in Text
      BY DEF Texts, ProperNote
    <3> QED BY <3>1, PartsAreTexts DEF HostOf
  <2>4. listed \in Text /\ listed # <<>> /\ listed \in Blocked
    <3>1. listed \in Text /\ listed \in Blocked
      BY BrowsingAssumption, LinesAreListed DEF Blocked
    <3> QED BY <3>1 DEF Blocked, add_hosts_from_file
  <2>5. listed \notin Domains(HostOf(note))
    BY <2>2, <2>4 DEF contains, HostOf
  <2> QED BY <2>3, <2>4, <2>5, DomainsAreAll
<1>2. ReplayInvariant => Learning
  BY DEF ReplayInvariant
<1> QED BY <1>1, <1>2, ReplayInvariance, TextsRemain, PTL

-----------------------------------------------------------------------------
(* Transport security.                                                     *)

\* The host name stands where it begins.
LEMMA AuthorityBegins ==
  ASSUME NEW url \in Text, get_hostname_port(url) # <<>>
  PROVE  LET rest == From(url, HostBegin(url))
             host == get_hostname_port(url)
         IN /\ HasHost(url) /\ rest \in Text /\ host \in Text
            /\ Len(host) <= Len(rest)
            /\ \A k \in 1..Len(host) : host[k] = rest[k]
<1> DEFINE first == HostBegin(url)
           slash == PathBegin(url)
           origin == Upto(url, slash)
           rest == From(url, first)
           host == get_hostname_port(url)
<1>1. Len(url) \in Nat
  BY TextLength
<1>2. HasHost(url) /\ host = From(origin, first)
  BY DEF get_hostname_port
<1>3. /\ first \in 4..Len(url) + 1
      /\ slash \in 0..Len(url) /\ (slash # 0 => slash >= first)
  BY <1>2, HostPosition DEF HasHost
<1> HIDE DEF first, slash
<1>4. first \in Nat \ {0} /\ Len(url) \in Int /\ Len(url) <= Len(url)
  BY <1>1, <1>3
<1>5. /\ rest \in Text
      /\ Len(rest) = IF first <= Len(url) THEN Len(url) - first + 1 ELSE 0
      /\ \A k \in 1..Len(url) - first + 1 : rest[k] = url[first + k - 1]
  BY <1>4, Cut DEF From
<1>6. host \in Text
  BY PartsAreTexts
<1> HIDE DEF rest, host
<1>7. CASE slash = 0
  <2>1. host = rest
    BY <1>2, <1>7 DEF Upto, rest
  <2>2. Len(rest) \in Nat
    BY <1>5, TextLength
  <2> QED BY <1>2, <1>5, <1>6, <2>1, <2>2 DEF rest, host, first
<1>8. CASE slash # 0
  <2>1. slash - 1 \in Int /\ slash - 1 <= Len(url) /\ 1 \in Nat \ {0} /\ slash - 1 - 1 + 1 = slash - 1
        /\ 1 <= slash - 1
    BY <1>1, <1>3, <1>8
  <2>2. origin = SubSeq(url, 1, slash - 1)
    BY <1>8 DEF Upto
  <2>3. /\ origin \in Text
        /\ Len(origin) = IF 1 <= slash - 1 THEN slash - 1 - 1 + 1 ELSE 0
        /\ \A k \in 1..slash - 1 - 1 + 1 : origin[k] = url[1 + k - 1]
    <3> HIDE DEF origin
    <3> QED BY <2>1, <2>2, Cut
  <2> HIDE DEF origin
  <2>4. Len(origin) = slash - 1 /\ \A k \in 1..slash - 1 : origin[k] = url[k]
    <3>1. Len(origin) = slash - 1
      BY <2>1, <2>3
    <3>2. ASSUME NEW k \in 1..slash - 1 PROVE origin[k] = url[k]
      <4>1. k \in 1..slash - 1 - 1 + 1 /\ 1 + k - 1 = k
        BY <2>1
      <4> QED BY <2>3, <4>1
    <3> QED BY <3>1, <3>2
  <2>5. /\ Len(host) = IF first <= Len(origin) THEN Len(origin) - first + 1 ELSE 0
        /\ \A k \in 1..Len(origin) - first + 1 : host[k] = origin[first + k - 1]
    <3>1. Len(origin) \in Int /\ Len(origin) <= Len(origin)
      BY <2>1, <2>4
    <3>2. host = SubSeq(origin, first, Len(origin))
      BY <1>2 DEF From
    <3> QED BY <1>4, <2>3, <3>1, <3>2, Cut
  <2>6. Len(host) <= Len(rest)
    <3>1. CASE first <= slash - 1
      <4>1. Len(host) = slash - 1 - first + 1 /\ Len(rest) = Len(url) - first + 1
        BY <1>1, <1>3, <1>5, <2>4, <2>5, <3>1
      <4> QED BY <1>1, <1>3, <4>1
    <3>2. CASE ~(first <= slash - 1)
      <4>1. Len(host) = 0 /\ Len(rest) \in Nat
        BY <1>5, <2>4, <2>5, <3>2, TextLength
      <4> QED BY <4>1
    <3> QED BY <3>1, <3>2
  <2>7. ASSUME NEW k \in 1..Len(host) PROVE host[k] = rest[k]
    <3>1. Len(host) \in Nat
      BY <1>6, TextLength
    <3>2. Len(host) = slash - 1 - first + 1 /\ first <= slash - 1
      BY <1>3, <2>4, <2>5, <3>1
    <3>3. /\ k \in 1..Len(origin) - first + 1 /\ first + k - 1 \in 1..slash - 1
          /\ k \in 1..Len(url) - first + 1
      BY <1>1, <1>3, <2>4, <3>2
    <3> QED BY <1>5, <2>4, <2>5, <3>3
  <2> QED BY <1>2, <1>5, <1>6, <2>6, <2>7 DEF rest, host, first
<1> QED BY <1>7, <1>8

\* A URL matches its own host, and the domains above it.
LEMMA HostMatches ==
  ASSUME NEW url \in Text, get_scheme(url) = <<"http">>, get_hostname_port(url) # <<>>,
         NEW of \in Text, NEW sub_domains,
         \/ of = get_hostname_port(url)
         \/ sub_domains /\ IsDomainOf(get_hostname_port(url), of)
  PROVE  MatchesHost(url, of, sub_domains)
<1> DEFINE rest == From(url, HostBegin(url))
           host == get_hostname_port(url)
<1>1. /\ HasHost(url) /\ rest \in Text /\ host \in Text /\ Len(host) <= Len(rest)
      /\ \A k \in 1..Len(host) : host[k] = rest[k]
  BY AuthorityBegins
<1>2. MatchesHost(url, of, sub_domains) =
        \/ IsPrefix(of, rest)
        \/ sub_domains /\ \E i \in 2..Len(host) : host[i] = "." /\ IsPrefix(of, From(rest, i + 1))
  BY <1>1 DEF MatchesHost
<1> HIDE DEF rest, host
<1>3. CASE of = host
  BY <1>1, <1>2, <1>3, PrefixOf
<1>4. CASE sub_domains /\ IsDomainOf(host, of)
  <2> DEFINE i == Len(host) - Len(of)
             tail == From(rest, i + 1)
             above == From(host, i + 1)
  <2>1. Len(host) > Len(of) + 1 /\ IsSuffix(<<".">> \o of, host)
    BY <1>4 DEF IsDomainOf
  <2>2. i \in 1..Len(host) /\ host[i] = "." /\ above = of
    BY <1>1, <2>1, Suffix
  <2>3. Len(host) \in Nat /\ Len(of) \in Nat /\ Len(rest) \in Nat
    BY <1>1, TextLength
  <2>0. i = Len(host) - Len(of)
    OBVIOUS
  <2>4. /\ i \in 2..Len(host)
        /\ i + 1 \in Nat \ {0} /\ Len(rest) \in Int /\ Len(host) \in Int
        /\ Len(rest) <= Len(rest) /\ Len(host) <= Len(host)
    BY <2>1, <2>3
  <2> HIDE DEF i
  <2>5. /\ tail \in Text
        /\ Len(tail) = IF i + 1 <= Len(rest) THEN Len(rest) - (i + 1) + 1 ELSE 0
        /\ \A k \in 1..Len(rest) - (i + 1) + 1 : tail[k] = rest[(i + 1) + k - 1]
    BY <1>1, <2>4, Cut DEF From
  <2>6. \A k \in 1..Len(host) - (i + 1) + 1 : above[k] = host[(i + 1) + k - 1]
    BY <1>1, <2>4, Cut DEF From
  <2> HIDE DEF tail, above
  <2>7. Len(of) <= Len(tail)
    <3>1. CASE i + 1 <= Len(rest)
      BY <1>1, <2>0, <2>3, <2>5, <3>1
    <3>2. CASE ~(i + 1 <= Len(rest))
      BY <1>1, <2>0, <2>3, <2>4, <2>5, <3>2
    <3> QED BY <3>1, <3>2
  <2>8. ASSUME NEW k \in 1..Len(of) PROVE of[k] = tail[k]
    <3>1. /\ k \in 1..Len(host) - (i + 1) + 1 /\ k \in 1..Len(rest) - (i + 1) + 1
          /\ (i + 1) + k - 1 \in 1..Len(host)
      BY <1>1, <2>0, <2>3, <2>4
    <3>2. above[k] = host[(i + 1) + k - 1]
      BY <2>6, <3>1
    <3>3. tail[k] = rest[(i + 1) + k - 1]
      BY <2>5, <3>1
    <3> QED BY <1>1, <2>2, <3>1, <3>2, <3>3
  <2>9. IsPrefix(of, tail)
    BY <2>5, <2>7, <2>8, PrefixOf
  <2> QED BY <1>2, <1>4, <2>2, <2>4, <2>9 DEF tail
<1> QED BY <1>3, <1>4 DEF host

\* What is requested by plain http matches no host that demands security.
LEMMA PlainMatchesNone ==
  ASSUME NEW known, known.server_base \in Text, NEW r, ProperRequest(r),
         get_scheme(Meaning(known, r)) = <<"http">>,
         NEW host \in DOMAIN known.transport_security
  PROVE  ~MatchesHost(Meaning(known, r), host, known.transport_security[host])
<1> DEFINE url == Plain(known, r)
<1>1. Meaning(known, r) = IF get_scheme(url) = <<"http">> /\ Matched(known, r)
                          THEN <<"https">> \o Tail(url) ELSE url
  BY MeaningIsText
<1>2. url \in Text
  BY PlainIsText
<1>3. Matched(known, r) \/ ~MatchesHost(url, host, known.transport_security[host])
  BY Zenon DEF Matched
<1> HIDE DEF url
<1>4. ASSUME get_scheme(url) = <<"http">>, Matched(known, r)
      PROVE  FALSE
  <2>1. Tail(url) \in Text
    BY <1>2, <1>4, SchemeBegins
  <2>2. <<"https">> \o Tail(url) \in Text /\ (<<"https">> \o Tail(url))[1] = "https"
    <3>1. <<"https">> \in Seq(Token) /\ Len(<<"https">>) = 1 /\ <<"https">>[1] = "https"
      BY DEF Token
    <3>2. Len(Tail(url)) \in Nat
      BY <2>1, TextLength
    <3>3. 1 \in 1..1 + Len(Tail(url)) /\ 1 <= 1
      BY <3>2
    <3> QED BY <2>1, <3>1, <3>3, ConcatProperties DEF Text
  <2>3. get_scheme(<<"https">> \o Tail(url)) = <<"http">>
    BY <1>1, <1>4
  <2>4. (<<"https">> \o Tail(url))[1] = "http"
    BY <2>2, <2>3, SchemeBegins
  <2> QED BY <2>2, <2>4
<1>5. Meaning(known, r) = url /\ ~Matched(known, r)
  BY <1>1, <1>4
<1> QED BY <1>3, <1>5

\* What a history says of the hosts that demand security: who asked, and who
\* was the first to ask for its domains.
First(history, i) ==
  \A k \in 1..i - 1 : HostOf(history[k]) = HostOf(history[i]) => Security(history[k]) = "none"
SecuredBy(security, history) ==
  /\ \A i \in DOMAIN history : Security(history[i]) # "none" =>
       /\ HostOf(history[i]) \in DOMAIN security
       /\ Security(history[i]) = "domains" /\ First(history, i) => security[HostOf(history[i])]
  /\ \A host \in DOMAIN security : \E i \in DOMAIN history :
       Security(history[i]) # "none" /\ HostOf(history[i]) = host

\* No later request is plain (SecureStaysSecure, of one history).
StaysSecure(history) ==
  \A i, j \in DOMAIN history :
    /\ i < j
    /\ Security(history[i]) # "none" /\ HostOf(history[i]) # <<>>
    /\ \/ HostOf(history[i]) = HostOf(history[j])
       \/ /\ IsDomainOf(HostOf(history[j]), HostOf(history[i]))
          /\ Security(history[i]) = "domains"
          /\ First(history, i)
    => get_scheme(history[j].url) # <<"http">>

Secured ==
  /\ SecuredBy(transport_security, Done)
  /\ StaysSecure(journal) /\ StaysSecure(replayed)

\* The entries follow what is noted.
LEMMA SecuredGrows ==
  ASSUME NEW history, history \in Seq(Range(history)), NEW note,
         NEW next, next = Append(history, note),
         NEW security, SecuredBy(security, history),
         NEW after,
         after = IF Security(note) = "none" \/ HostOf(note) \in DOMAIN security THEN security
                 ELSE Assign(security, HostOf(note), Security(note) = "domains")
  PROVE  SecuredBy(after, next)
<1> DEFINE n == Len(history) + 1
<1>1. /\ Len(history) \in Nat /\ DOMAIN history = 1..Len(history)
      /\ DOMAIN next = 1..n
      /\ \A i \in 1..Len(history) : next[i] = history[i]
      /\ next[n] = note
  BY Longer
<1> HIDE DEF n
<1>0. n = Len(history) + 1
  BY DEF n
<1>2. \A i \in 1..Len(history) : First(next, i) => First(history, i)
  <2> SUFFICES ASSUME NEW i \in 1..Len(history), First(next, i), NEW k \in 1..i - 1,
                      HostOf(history[k]) = HostOf(history[i])
               PROVE  Security(history[k]) = "none"
    BY DEF First
  <2>1. k \in 1..Len(history)
    BY <1>1
  <2>2. next[k] = history[k] /\ next[i] = history[i]
    BY <1>1, <2>1
  <2> QED BY <2>2 DEF First
<1> DEFINE asked == Security(note) = "domains"
           own == HostOf(note)
<1>3. /\ \A host \in DOMAIN security : host \in DOMAIN after /\ after[host] = security[host]
      /\ Security(note) # "none" => own \in DOMAIN after
      /\ Security(note) # "none" /\ own \notin DOMAIN security => after[own] = asked
      /\ \A host \in DOMAIN after : host \in DOMAIN security \/ (Security(note) # "none" /\ host = own)
  <2> DEFINE unchanged == Security(note) = "none" \/ own \in DOMAIN security
  <2>1. after = IF unchanged THEN security ELSE Assign(security, own, asked)
    BY Zenon
  <2> HIDE DEF asked, own
  <2>2. CASE unchanged
    <3>1. after = security
      BY <2>1, <2>2, Zenon
    <3> QED BY <2>2, <3>1
  <2>3. CASE ~unchanged
    <3>1. after = [y \in DOMAIN security \cup {own} |-> IF y = own THEN asked ELSE security[y]]
      BY <2>1, <2>3, Zenon DEF Assign
    <3>2. /\ DOMAIN after = DOMAIN security \cup {own} /\ after[own] = asked
          /\ \A y \in DOMAIN security : y # own => after[y] = security[y]
      BY <3>1
    <3> QED BY <2>3, <3>2
  <2> QED BY <2>2, <2>3
<1> HIDE DEF own
<1>4. ASSUME NEW i \in DOMAIN next, Security(next[i]) # "none"
      PROVE  /\ HostOf(next[i]) \in DOMAIN after
             /\ Security(next[i]) = "domains" /\ First(next, i) => after[HostOf(next[i])]
  <2>1. CASE i \in 1..Len(history)
    <3>1. next[i] = history[i]
      BY <1>1, <2>1
    <3>2. /\ HostOf(history[i]) \in DOMAIN security
          /\ Security(history[i]) = "domains" /\ First(history, i) => security[HostOf(history[i])]
      BY <1>1, <1>4, <2>1, <3>1 DEF SecuredBy
    <3> QED BY <1>2, <1>3, <2>1, <3>1, <3>2
  <2>2. CASE i = n
    <3>1. next[i] = note
      BY <1>1, <2>2
    <3>2. CASE HostOf(note) \notin DOMAIN security
      BY <1>3, <1>4, <3>1, <3>2 DEF own
    <3>3. CASE HostOf(note) \in DOMAIN security
      <4>1. PICK k \in DOMAIN history : Security(history[k]) # "none" /\ HostOf(history[k]) = HostOf(note)
        BY <3>3 DEF SecuredBy
      <4>2. k \in 1..i - 1 /\ next[k] = history[k]
        BY <1>0, <1>1, <2>2
      <4>3. ~First(next, i)
        BY <3>1, <4>1, <4>2 DEF First
      <4> QED BY <1>3, <3>1, <3>3, <4>3 DEF own
    <3> QED BY <3>2, <3>3
  <2> QED BY <1>0, <1>1, <2>1, <2>2
<1>5. ASSUME NEW host \in DOMAIN after
      PROVE  \E i \in DOMAIN next : Security(next[i]) # "none" /\ HostOf(next[i]) = host
  <2>1. CASE host \in DOMAIN security
    <3>1. PICK k \in DOMAIN history : Security(history[k]) # "none" /\ HostOf(history[k]) = host
      BY <2>1 DEF SecuredBy
    <3>2. k \in DOMAIN next /\ next[k] = history[k]
      BY <1>0, <1>1
    <3> QED BY <3>1, <3>2
  <2>2. CASE Security(note) # "none" /\ host = HostOf(note)
    <3>1. n \in DOMAIN next
      BY <1>0, <1>1
    <3> QED BY <1>1, <2>2, <3>1
  <2> QED BY <1>3, <2>1, <2>2 DEF own
<1> QED BY <1>4, <1>5 DEF SecuredBy

\* And what is requested next obeys them.
LEMMA StaysSecureGrows ==
  ASSUME NEW history, history \in Seq(Range(history)),
         \A i \in DOMAIN history : ProperNote(history[i]),
         StaysSecure(history), NEW known, known.server_base \in Text,
         SecuredBy(known.transport_security, history),
         NEW note, ProperRequest(note.request), note.url = Meaning(known, note.request),
         NEW next, next = Append(history, note)
  PROVE  StaysSecure(next)
<1> DEFINE n == Len(history) + 1
<1>1. /\ Len(history) \in Nat /\ DOMAIN history = 1..Len(history)
      /\ DOMAIN next = 1..n
      /\ \A i \in 1..Len(history) : next[i] = history[i]
      /\ next[n] = note
  BY Longer
<1> HIDE DEF n
<1>0. n = Len(history) + 1
  BY DEF n
<1> SUFFICES ASSUME NEW i \in 1..n, NEW j \in 1..n, i < j,
                    Security(next[i]) # "none", HostOf(next[i]) # <<>>,
                    \/ HostOf(next[i]) = HostOf(next[j])
                    \/ /\ IsDomainOf(HostOf(next[j]), HostOf(next[i]))
                       /\ Security(next[i]) = "domains"
                       /\ First(next, i),
                    get_scheme(next[j].url) = <<"http">>
             PROVE  FALSE
  BY <1>1 DEF StaysSecure
<1>2. i \in 1..Len(history) /\ next[i] = history[i]
  BY <1>0, <1>1
<1>3. First(next, i) => First(history, i)
  <2> SUFFICES ASSUME First(next, i), NEW k \in 1..i - 1, HostOf(history[k]) = HostOf(history[i])
               PROVE  Security(history[k]) = "none"
    BY DEF First
  <2>1. next[k] = history[k]
    BY <1>1, <1>2
  <2> QED BY <1>2, <2>1 DEF First
<1>4. CASE j \in 1..Len(history)
  <2>1. next[j] = history[j]
    BY <1>1, <1>4
  <2> QED BY <1>1, <1>2, <1>3, <1>4, <2>1 DEF StaysSecure
<1>5. CASE j = n
  <2> DEFINE of == HostOf(history[i])
             security == known.transport_security
  <2>1. next[j] = note /\ note.url \in Text /\ get_scheme(note.url) = <<"http">>
    BY <1>1, <1>5, MeaningIsText
  <2>2. of \in DOMAIN security /\ (IsDomainOf(HostOf(note), of) /\ of # HostOf(note) => security[of])
    BY <1>1, <1>2, <1>3, <2>1 DEF SecuredBy
  <2>3. of \in Text
    BY <1>1, <1>2, PartsAreTexts DEF HostOf, ProperNote
  <2>4. get_hostname_port(note.url) # <<>>
    <3>1. CASE of = HostOf(note)
      BY <1>2, <3>1 DEF HostOf
    <3>2. CASE IsDomainOf(HostOf(note), of)
      <4>1. Len(of) \in Nat /\ Len(HostOf(note)) > Len(of) + 1
        BY <2>3, <3>2, TextLength DEF IsDomainOf
      <4>2. Len(HostOf(note)) # 0
        BY <4>1
      <4> QED BY <4>2 DEF HostOf
    <3> QED BY <1>2, <2>1, <3>1, <3>2
  <2>5. MatchesHost(note.url, of, security[of])
    <3> DEFINE host == get_hostname_port(note.url)
    <3>1. HostOf(next[j]) = host /\ HostOf(next[i]) = of
      BY <1>2, <2>1 DEF HostOf
    <3> HIDE DEF of, security, host
    <3>2. CASE of = host
      BY <2>1, <2>3, <2>4, <3>2, HostMatches DEF host
    <3>3. CASE of # host
      <4>1. IsDomainOf(host, of)
        BY <3>1, <3>3
      <4>2. security[of]
        BY <2>2, <3>3, <4>1 DEF host, HostOf
      <4> QED BY <2>1, <2>3, <2>4, <4>1, <4>2, HostMatches, Zenon DEF host
    <3> QED BY <3>2, <3>3
  <2> QED BY <2>1, <2>2, <2>5, PlainMatchesNone
<1> QED BY <1>0, <1>1, <1>4, <1>5

\* Nothing has been asked for in the beginning.
LEMMA SecuredInit == Init => Secured
<1> SUFFICES ASSUME Init PROVE Secured
  OBVIOUS
<1>1. journal = <<>> /\ replayed = <<>> /\ Done = <<>> /\ DOMAIN transport_security = {}
  BY DEF Init, Done, Empty
<1> QED BY <1>1 DEF Secured, SecuredBy, StaysSecure

\* The entries follow the responses after a step, if they did before.
LEMMA SecuredStep ==
  ASSUME TypeOK, Histories, Texts, Recording, Secured, [Next]_vars
  PROVE  Secured'
<1>1. ASSUME NEW r \in NextRequests, NEW answer, NEW response,
             Note(r, UrlOf(r), answer, response), session' = session,
             SecuredBy(transport_security, Done),
             transport_security' =
               LET note == Noted(r, UrlOf(r), answer, response)
               IN IF Security(note) = "none" \/ HostOf(note) \in DOMAIN transport_security
                  THEN transport_security
                  ELSE Assign(transport_security, HostOf(note), Security(note) = "domains")
      PROVE  Secured'
  <2> DEFINE note == Noted(r, UrlOf(r), answer, response)
  <2>1. \/ session = "recording" /\ replayed' = replayed /\ journal' = Append(journal, note)
        \/ session # "recording" /\ journal' = journal /\ replayed' = Append(replayed, note)
    BY <1>1, Noting
  <2>2. ProperRequest(note.request) /\ note.url = Meaning(Known, note.request)
    BY NextRequestsAreProper, UrlIsMeaning DEF Noted
  <2>3. transport_security' =
          IF Security(note) = "none" \/ HostOf(note) \in DOMAIN transport_security
          THEN transport_security
          ELSE Assign(transport_security, HostOf(note), Security(note) = "domains")
    BY <1>1
  <2> HIDE DEF note
  <2>4. Known.server_base \in Text /\ Known.transport_security = transport_security
    BY DEF Known, Texts
  <2>5. CASE session = "recording"
    <3>1. Done = journal /\ Done' = journal'
      BY <1>1, <2>5 DEF Done
    <3>2. SecuredBy(transport_security', journal')
      BY <1>1, <2>1, <2>3, <2>5, <3>1, SecuredGrows DEF Histories
    <3>3. StaysSecure(journal')
      BY <1>1, <2>1, <2>2, <2>4, <2>5, <3>1, StaysSecureGrows DEF Histories, Secured, Texts
    <3> QED BY <2>1, <2>5, <3>1, <3>2, <3>3 DEF Secured, StaysSecure, First
  <2>6. CASE session # "recording"
    <3>1. Done = replayed /\ Done' = replayed'
      BY <1>1, <2>6 DEF Done
    <3>2. SecuredBy(transport_security', replayed')
      BY <1>1, <2>1, <2>3, <2>6, <3>1, SecuredGrows DEF Histories
    <3>3. StaysSecure(replayed')
      BY <1>1, <2>1, <2>2, <2>4, <2>6, <3>1, StaysSecureGrows DEF Histories, Secured, Texts
    <3> QED BY <2>1, <2>6, <3>1, <3>2, <3>3 DEF Secured, StaysSecure, First
  <2> QED BY <2>5, <2>6
<1>2. ASSUME NEW r \in NextRequests, NEW status, Replies(r, UrlOf(r), status)
      PROVE  Secured'
  <2> DEFINE answer == Answer(status, None, None)
  <2>1. /\ Note(r, UrlOf(r), answer, None)
        /\ UNCHANGED <<session, transport_security>>
    BY <1>2 DEF Replies, Reply
  <2>2. Security(Noted(r, UrlOf(r), answer, None)) = "none"
    BY DEF Security, Noted
  <2> QED BY <1>1, <2>1, <2>2 DEF Secured
<1>3. ASSUME NEW r \in NextRequests, NEW response \in Responses, NEW body,
             Serves(r, UrlOf(r), response, body)
      PROVE  Secured'
  <2> DEFINE url == UrlOf(r)
             answer == Answer(response.status, LocationOf(url, response), body)
             note == Noted(r, url, answer, response)
  <2>1. /\ Note(r, url, answer, response)
        /\ set_strict_transport_security(url, response.security)
        /\ session' = session
    BY <1>3 DEF Serves, serve_file
  <2>2. Security(note) = response.security /\ HostOf(note) = get_hostname_port(url)
    BY BrowsingAssumption DEF Security, Noted, HostOf
  <2> HIDE DEF answer
  <2> QED BY <1>1, <2>1, <2>2 DEF set_strict_transport_security, Secured
<1>4. ASSUME NEW download \in {"standard", "never"}, Shutdown(download)
      PROVE  Secured'
  <2>1. /\ replayed' = <<>> /\ journal' = journal /\ replayed' = replayed
        /\ session' = "replaying" /\ DOMAIN transport_security' = {}
    BY <1>4 DEF Shutdown, Recording, Empty
  <2>2. Done' = <<>>
    BY <2>1 DEF Done
  <2> QED BY <2>1, <2>2 DEF Secured, SecuredBy, StaysSecure, First
<1>5. CASE UNCHANGED vars
  BY <1>5 DEF vars, Secured, SecuredBy, StaysSecure, First, Done
<1> QED BY <1>2, <1>3, <1>4, <1>5, StepKinds

\* Once a host asked for transport security, nothing of it is requested by plain
\* http any more, nor of its domains if it was the first to ask for them: the
\* entries of m_strict_transport_security follow the responses, and
\* apply_strict_transport_security catches every URL, whatever it was made from.
THEOREM AlwaysSecure == Spec => []SecureStaysSecure
<1>1. Init => Secured
  BY SecuredInit
<1>2. TypeOK /\ Histories /\ Texts /\ ReplayInvariant /\ Secured /\ [Next]_vars => Secured'
  BY SecuredStep DEF ReplayInvariant
<1>3. Secured => SecureStaysSecure
  BY DEF Secured, StaysSecure, SecureStaysSecure, First
<1> QED BY <1>1, <1>2, <1>3, ReplayInvariance, TextsRemain, PTL DEF Spec

-----------------------------------------------------------------------------
(* The parts of a URL that is put together.                                *)

\* What stands at a place of a text.
Slash(s, i) == s[i] = "/"
Marked(s, i) == s[i] \in {"?", "#"}
Separates(s, i) == s[i] \in {".", ":"}
Dot(s, i) == s[i] = "."
Hashed(s, i) == s[i] = "#"
Web(s, i) == s[i] \in {"http", "https"}

\* Where the tokens of joined texts are.
LEMMA JoinedAt ==
  ASSUME NEW s \in Text, NEW t \in Text
  PROVE  /\ s \o t \in Text /\ Len(s) \in Nat /\ Len(t) \in Nat /\ Len(s \o t) = Len(s) + Len(t)
         /\ \A i \in 1..Len(s) : (s \o t)[i] = s[i]
         /\ \A i \in 1..Len(t) : (s \o t)[Len(s) + i] = t[i]
<1>1. /\ s \o t \in Text /\ Len(s \o t) = Len(s) + Len(t)
      /\ \A i \in 1..Len(s) + Len(t) : (s \o t)[i] = IF i <= Len(s) THEN s[i] ELSE t[i - Len(s)]
  BY ConcatProperties DEF Text
<1>2. Len(s) \in Nat /\ Len(t) \in Nat
  BY TextLength
<1>3. ASSUME NEW i \in 1..Len(s) PROVE (s \o t)[i] = s[i]
  <2>1. i \in 1..Len(s) + Len(t) /\ i <= Len(s)
    BY <1>2
  <2> QED BY <1>1, <2>1
<1>4. ASSUME NEW i \in 1..Len(t) PROVE (s \o t)[Len(s) + i] = t[i]
  <2>1. Len(s) + i \in 1..Len(s) + Len(t) /\ ~(Len(s) + i <= Len(s)) /\ Len(s) + i - Len(s) = i
    BY <1>2
  <2> QED BY <1>1, <2>1
<1> QED BY <1>1, <1>2, <1>3, <1>4

\* A text consists of what is in front of a place and what is behind it.
LEMMA Divided ==
  ASSUME NEW s \in Text, NEW n \in 0..Len(s)
  PROVE  /\ SubSeq(s, 1, n) \in Text /\ Len(SubSeq(s, 1, n)) = n
         /\ \A i \in 1..n : SubSeq(s, 1, n)[i] = s[i]
         /\ From(s, n + 1) \in Text /\ Len(From(s, n + 1)) = Len(s) - n
         /\ \A i \in 1..Len(s) - n : From(s, n + 1)[i] = s[n + i]
         /\ s = SubSeq(s, 1, n) \o From(s, n + 1)
<1> DEFINE front == SubSeq(s, 1, n)
           back == SubSeq(s, n + 1, Len(s))
<1>1. /\ Len(s) \in Nat /\ n \in Nat /\ n \in Int /\ n <= Len(s) /\ 1 \in Nat \ {0}
      /\ n + 1 \in Nat \ {0} /\ Len(s) \in Int /\ Len(s) <= Len(s)
      /\ n - 1 + 1 = n /\ Len(s) - (n + 1) + 1 = Len(s) - n
  BY TextLength
<1>2. /\ front \in Text /\ Len(front) = IF 1 <= n THEN n - 1 + 1 ELSE 0
      /\ \A i \in 1..n - 1 + 1 : front[i] = s[1 + i - 1]
  BY <1>1, Cut
<1>3. /\ back \in Text /\ Len(back) = IF n + 1 <= Len(s) THEN Len(s) - (n + 1) + 1 ELSE 0
      /\ \A i \in 1..Len(s) - (n + 1) + 1 : back[i] = s[n + 1 + i - 1]
  BY <1>1, Cut
<1>4. From(s, n + 1) = back
  BY DEF From
<1> HIDE DEF front, back
<1>5. Len(front) = n /\ Len(back) = Len(s) - n
  <2>0. Len(s) \in Nat /\ n \in Nat /\ n <= Len(s)
    BY <1>1
  <2>1. 1 <= n \/ n = 0
    BY <2>0
  <2>2. n + 1 <= Len(s) \/ (Len(s) - n = 0 /\ ~(n + 1 <= Len(s)))
    BY <2>0
  <2>3. Len(front) = n
    BY <1>1, <1>2, <2>1
  <2>4. Len(back) = Len(s) - n
    BY <1>1, <1>3, <2>2
  <2> QED BY <2>3, <2>4
<1>6. ASSUME NEW i \in 1..n PROVE front[i] = s[i]
  <2>1. i \in 1..n - 1 + 1 /\ 1 + i - 1 = i
    BY <1>1
  <2> QED BY <1>2, <2>1
<1>7. ASSUME NEW i \in 1..Len(s) - n PROVE back[i] = s[n + i]
  <2>1. i \in 1..Len(s) - (n + 1) + 1 /\ n + 1 + i - 1 = n + i
    BY <1>1
  <2> QED BY <1>3, <2>1
<1> DEFINE whole == front \o back
<1>8. /\ whole \in Text /\ Len(whole) = Len(front) + Len(back)
      /\ \A i \in 1..Len(front) : whole[i] = front[i]
      /\ \A i \in 1..Len(back) : whole[Len(front) + i] = back[i]
  BY <1>2, <1>3, JoinedAt
<1> HIDE DEF whole
<1>9. Len(whole) = Len(s)
  BY <1>1, <1>5, <1>8
<1>10. ASSUME NEW i \in 1..Len(s) PROVE s[i] = whole[i]
  <2>1. CASE i <= n
    <3>1. i \in 1..n /\ i \in 1..Len(front)
      BY <1>1, <1>5, <2>1
    <3> QED BY <1>6, <1>8, <3>1
  <2>2. CASE ~(i <= n)
    <3> DEFINE j == i - n
    <3>1. j \in 1..Len(s) - n /\ j \in 1..Len(back) /\ Len(front) + j = i /\ n + j = i
      BY <1>1, <1>5, <2>2
    <3> HIDE DEF j
    <3>2. back[j] = s[n + j] /\ whole[Len(front) + j] = back[j]
      BY <1>7, <1>8, <3>1
    <3> QED BY <3>1, <3>2
  <2> QED BY <2>1, <2>2
<1>11. s = whole
  BY <1>8, <1>9, <1>10, SeqEqual DEF Text
<1> QED BY <1>2, <1>3, <1>4, <1>5, <1>6, <1>7, <1>11 DEF front, whole

\* Joined texts are taken apart again.
LEMMA TakenApart ==
  ASSUME NEW s \in Text, NEW t \in Text
  PROVE  SubSeq(s \o t, 1, Len(s)) = s /\ From(s \o t, Len(s) + 1) = t
<1> DEFINE x == s \o t
           front == SubSeq(x, 1, Len(s))
           back == From(x, Len(s) + 1)
<1>1. /\ x \in Text /\ Len(s) \in Nat /\ Len(t) \in Nat /\ Len(x) = Len(s) + Len(t)
      /\ \A i \in 1..Len(s) : x[i] = s[i]
      /\ \A i \in 1..Len(t) : x[Len(s) + i] = t[i]
  BY JoinedAt
<1> HIDE DEF x
<1>2. Len(s) \in 0..Len(x) /\ Len(x) - Len(s) = Len(t)
  BY <1>1
<1>3. /\ front \in Text /\ Len(front) = Len(s) /\ \A i \in 1..Len(s) : front[i] = x[i]
      /\ back \in Text /\ Len(back) = Len(x) - Len(s)
      /\ \A i \in 1..Len(x) - Len(s) : back[i] = x[Len(s) + i]
  BY <1>1, <1>2, Divided
<1> HIDE DEF front, back
<1>4. front = s
  <2>1. \A i \in 1..Len(front) : front[i] = s[i]
    BY <1>1, <1>3
  <2> QED BY <1>3, <2>1, SeqEqual DEF Text
<1>5. back = t
  <2>1. Len(back) = Len(t) /\ \A i \in 1..Len(back) : back[i] = t[i]
    BY <1>1, <1>2, <1>3
  <2> QED BY <1>3, <2>1, SeqEqual DEF Text
<1> QED BY <1>4, <1>5 DEF front, back, x

\* Texts may be joined in any order.
LEMMA JoinedAlike == \A r, s, t \in Text : (r \o s) \o t = r \o (s \o t)
BY ConcatAssociative DEF Text

\* The first place that is followed by a mark, or the end.
EndsAt(x, n) == /\ n \in 0..Len(x)
                /\ \A i \in 1..n : ~Marked(x, i)
                /\ n = Len(x) \/ Marked(x, n + 1)

\* The path of a URL ends at its first mark.
LEMMA PathEnds ==
  ASSUME NEW x \in Text
  PROVE  /\ \A n : EndsAt(x, n) => get_scheme_hostname_port_path(x) = SubSeq(x, 1, n)
         /\ \E n : EndsAt(x, n)
<1> DEFINE marks == {i \in DOMAIN x : x[i] \in {"?", "#"}}
           end == IF marks = {} THEN 0 ELSE Min(marks)
<1>1. Len(x) \in Nat /\ DOMAIN x = 1..Len(x)
  BY TextLength
<1>2. \A i : i \in marks <=> i \in 1..Len(x) /\ Marked(x, i)
  BY <1>1, Zenon DEF Marked
<1>3. get_scheme_hostname_port_path(x) = Upto(x, end)
  BY DEF get_scheme_hostname_port_path
<1> HIDE DEF marks
<1>4. marks \in SUBSET Nat
  BY <1>1, <1>2
<1>5. CASE marks = {}
  <2>1. \A i \in 1..Len(x) : ~Marked(x, i)
    BY <1>2, <1>5
  <2>2. EndsAt(x, Len(x)) /\ \A n : EndsAt(x, n) => n = Len(x)
    <3>1. ASSUME NEW n, EndsAt(x, n), n # Len(x) PROVE FALSE
      <4>1. n \in 0..Len(x) /\ Marked(x, n + 1)
        BY <3>1 DEF EndsAt
      <4>2. Len(x) \in Nat /\ n \in 0..Len(x) /\ n # Len(x)
        BY <1>1, <3>1, <4>1
      <4>3. n + 1 \in 1..Len(x)
        BY <4>2
      <4> QED BY <2>1, <4>1, <4>3
    <3>2. Len(x) \in 0..Len(x)
      BY <1>1
    <3> QED BY <2>1, <3>1, <3>2 DEF EndsAt
  <2>3. SubSeq(x, 1, Len(x)) = x
    BY SubSeqFull DEF Text
  <2>4. Upto(x, end) = x
    BY <1>5 DEF Upto
  <2> QED BY <1>3, <2>2, <2>3, <2>4
<1>6. CASE marks # {}
  <2> DEFINE m == Min(marks)
  <2>1. m \in marks /\ \A i \in marks : m <= i
    BY <1>4, <1>6, MinIsLeast
  <2>2. end = m
    BY <1>6
  <2> HIDE DEF m, end
  <2>3. m \in 1..Len(x) /\ Marked(x, m)
    BY <1>2, <2>1
  <2>4. m - 1 \in 0..Len(x) /\ m - 1 + 1 = m
    BY <1>1, <2>3
  <2>5. ASSUME NEW i \in 1..m - 1 PROVE ~Marked(x, i)
    <3>1. i \in 1..Len(x) /\ ~(m <= i)
      BY <1>1, <2>3
    <3> QED BY <1>2, <2>1, <3>1
  <2>6. EndsAt(x, m - 1)
    BY <2>3, <2>4, <2>5 DEF EndsAt
  <2>7. ASSUME NEW n, EndsAt(x, n) PROVE n = m - 1
    <3>1. n \in 0..Len(x) /\ (\A i \in 1..n : ~Marked(x, i)) /\ (n = Len(x) \/ Marked(x, n + 1))
      BY <2>7 DEF EndsAt
    <3>2. ~(m \in 1..n)
      BY <2>3, <3>1
    <3>0. Len(x) \in Nat /\ n \in 0..Len(x) /\ m \in 1..Len(x)
      BY <1>1, <2>3, <3>1
    <3>3. n < m /\ n + 1 \in 1..Len(x) /\ n # Len(x)
      BY <3>0, <3>2
    <3>4. n + 1 \in 1..Len(x) /\ Marked(x, n + 1)
      BY <3>1, <3>3
    <3>5. m <= n + 1
      BY <1>2, <2>1, <3>4
    <3> QED BY <2>3, <3>1, <3>3, <3>5
  <2>8. Upto(x, m) = SubSeq(x, 1, m - 1)
    <3>1. m # 0
      BY <2>3
    <3> QED BY <3>1 DEF Upto
  <2> QED BY <1>3, <2>2, <2>6, <2>7, <2>8
<1> QED BY <1>5, <1>6

\* A token is found at the first place where it stands.
LEMMA FoundAt ==
  ASSUME NEW x \in Text, NEW t \in Token, NEW from \in Nat \ {0}
  PROVE  /\ \A n \in from..Len(x) :
              x[n] = t /\ (\A i \in from..n - 1 : x[i] # t) => Find(x, <<t>>, from) = n
         /\ (\A i \in from..Len(x) : x[i] # t) => Find(x, <<t>>, from) = 0
<1> DEFINE found == Find(x, <<t>>, from)
           places == Matches(x, <<t>>)
<1>1. <<t>> \in Text /\ <<t>> # <<>> /\ from \in Int
  BY One
<1>2. /\ found \in 0..Len(x)
      /\ found # 0 => found \in places /\ from <= found
      /\ \A j \in places : from <= j => found # 0 /\ found <= j
  BY <1>1, Finding
<1>3. \A i : i \in places <=> i \in 1..Len(x) /\ x[i] = t
  BY TokenMatches
<1>4. Len(x) \in Nat /\ from \in Nat /\ 1 <= from
  BY TextLength
<1> HIDE DEF found, places
<1>5. ASSUME NEW n \in from..Len(x), x[n] = t, \A i \in from..n - 1 : x[i] # t
      PROVE  found = n
  <2>1. n \in 1..Len(x) /\ from <= n
    BY <1>4
  <2>2. found # 0 /\ found <= n
    BY <1>2, <1>3, <1>5, <2>1
  <2>3. x[found] = t /\ from <= found
    BY <1>2, <1>3, <2>2
  <2>4. ~(found \in from..n - 1)
    BY <1>5, <2>3
  <2>5. found \in 0..Len(x)
    BY <1>2
  <2> QED BY <1>4, <2>1, <2>2, <2>3, <2>4, <2>5
<1>6. ASSUME \A i \in from..Len(x) : x[i] # t
      PROVE  found = 0
  <2> SUFFICES ASSUME found # 0 PROVE FALSE
    OBVIOUS
  <2>1. x[found] = t /\ from <= found /\ found \in 0..Len(x)
    BY <1>2, <1>3
  <2>2. found \in from..Len(x)
    BY <1>4, <2>1
  <2> QED BY <1>6, <2>1, <2>2
<1> QED BY <1>5, <1>6 DEF found

\* A URL with a scheme and a host begins with them.
Begins(x) == Len(x) >= 5 /\ Letters(x[1]) /\ x[2] = ":" /\ Slash(x, 3) /\ Slash(x, 4)

\* What letters are not.
LEMMA NotLetters ==
  /\ \A x, i : (Slash(x, i) \/ Separates(x, i) \/ Marked(x, i)) => ~Letters(x[i])
  /\ ~Letters(":")
  /\ Letters("http") /\ Letters("https")
BY DEF Slash, Separates, Marked, Letters, Delimiters, Numbers

\* The scheme is the word in front of the first colon.
LEMMA SchemeFound ==
  ASSUME NEW x \in Text, Len(x) >= 2, Letters(x[1]), x[2] = ":"
  PROVE  get_scheme(x) = <<x[1]>> /\ ~is_relative_url(x) /\ Find(x, <<":">>, 1) = 2
<1>1. ":" \in Token
  BY DEF Token
<1>2. Len(x) \in Nat
  BY TextLength
<1>3. x[1] # ":"
  BY NotLetters
<1>4. 1 \in Nat \ {0} /\ 2 \in 1..Len(x)
  BY <1>2
<1>5. \A i \in 1..2 - 1 : x[i] # ":"
  BY <1>3
<1>6. Find(x, <<":">>, 1) = 2
  BY <1>1, <1>4, <1>5, FoundAt
<1>7. \A i \in 1..2 - 1 : Letters(x[i])
  OBVIOUS
<1>8. Upto(x, 2) = <<x[1]>>
  <2> DEFINE part == SubSeq(x, 1, 1)
  <2>1. Upto(x, 2) = part
    BY DEF Upto
  <2>2. 1 \in 0..Len(x) /\ 1 \in 1..1 /\ 1 \in 1..Len(x)
    BY <1>2
  <2>3. part \in Text /\ Len(part) = 1 /\ \A i \in 1..1 : part[i] = x[i]
    BY <2>2, Divided
  <2> HIDE DEF part
  <2>4. x[1] \in Token
    BY <2>2, ElementOfSeq DEF Text
  <2>5. <<x[1]>> \in Text /\ Len(<<x[1]>>) = 1 /\ <<x[1]>>[1] = x[1]
    BY <2>4, One
  <2>6. \A i \in 1..1 : part[i] = <<x[1]>>[i]
    <3> SUFFICES part[1] = <<x[1]>>[1]
      OBVIOUS
    <3> QED BY <2>2, <2>3, <2>5
  <2> QED BY <2>1, <2>3, <2>5, <2>6, SeqEqual DEF Text
<1>9. get_scheme(x) = <<x[1]>>
  <2>1. 2 > 0
    OBVIOUS
  <2> QED BY <1>6, <1>7, <1>8, <2>1 DEF get_scheme
<1>10. <<x[1]>> # <<>>
  OBVIOUS
<1> QED BY <1>6, <1>9, <1>10 DEF is_relative_url

\* A URL that begins with scheme and slashes has a host.
LEMMA HostFound ==
  ASSUME NEW x \in Text, Begins(x)
  PROVE  /\ get_scheme(x) = <<x[1]>> /\ ~is_relative_url(x) /\ HasHost(x)
         /\ HostBegin(x) = 5
<1>1. Len(x) \in Nat /\ Len(x) >= 5 /\ Letters(x[1]) /\ x[2] = ":" /\ x[3] = "/" /\ x[4] = "/"
  BY TextLength DEF Begins, Slash
<1>2. get_scheme(x) = <<x[1]>> /\ ~is_relative_url(x)
  BY <1>1, SchemeFound
<1>3. /\ SchemeMark \in Text /\ SchemeMark # <<>> /\ Len(SchemeMark) = 3
      /\ SchemeMark[1] = ":" /\ SchemeMark[2] = "/" /\ SchemeMark[3] = "/"
  BY Marks DEF SchemeMark
<1>4. 2 \in Matches(x, SchemeMark)
  <2> DEFINE part == SubSeq(x, 2, 4)
  <2>1. part \in Text /\ Len(part) = 3 /\ \A k \in 1..3 : part[k] = x[2 + k - 1]
    <3>1. /\ 2 \in Nat /\ 4 \in Nat /\ 1 <= 2 /\ 2 <= 4 /\ 4 <= Len(x) /\ 4 - 2 + 1 = 3
      BY <1>1
    <3>2. /\ part \in Text /\ Len(part) = 4 - 2 + 1
          /\ \A k \in 1..4 - 2 + 1 : part[k] = x[2 + k - 1]
      BY <3>1, PartOf
    <3> HIDE DEF part
    <3> QED BY <3>1, <3>2
  <2> HIDE DEF part
  <2>2. part[1] = ":" /\ part[2] = "/" /\ part[3] = "/"
    <3>1. 1 \in 1..3 /\ 2 \in 1..3 /\ 3 \in 1..3 /\ 2 + 1 - 1 = 2 /\ 2 + 2 - 1 = 3 /\ 2 + 3 - 1 = 4
      OBVIOUS
    <3> QED BY <1>1, <2>1, <3>1
  <2>3. \A k \in 1..Len(part) : part[k] = SchemeMark[k]
    BY <1>3, <2>1, <2>2
  <2>4. part = SchemeMark
    BY <1>3, <2>1, <2>3, SeqEqual DEF Text
  <2>5. 2 \in 1..Len(x) + 1 - Len(SchemeMark) /\ 2 + Len(SchemeMark) - 1 = 4
    BY <1>1, <1>3
  <2> QED BY <1>1, <1>3, <2>4, <2>5 DEF Matches, part
<1>5. 1 \notin Matches(x, SchemeMark)
  <2>1. x[1] # ":"
    BY <1>1, NotLetters
  <2> QED BY <1>3, <2>1 DEF Matches
<1> DEFINE found == Find(x, SchemeMark, 1)
<1>6. /\ found \in 0..Len(x) /\ (found # 0 => found \in Matches(x, SchemeMark) /\ 1 <= found)
      /\ (1 <= 2 => found # 0 /\ found <= 2)
  BY <1>3, <1>4, Marks, Finding
<1> HIDE DEF found
<1>7. found = 2
  <2>1. found \in 0..2 /\ found # 0
    BY <1>6
  <2> QED BY <1>5, <1>6, <2>1
<1> QED BY <1>2, <1>7 DEF HasHost, HostBegin, found

\* What begins with a slash, a point or a colon has no scheme.
LEMMA NoScheme ==
  ASSUME NEW x \in Text, x # <<>>, Slash(x, 1) \/ Separates(x, 1)
  PROVE  is_relative_url(x)
<1> DEFINE colon == Find(x, <<":">>, 1)
<1>1. ~Letters(x[1])
  BY NotLetters
<1>2. Len(x) \in Nat \ {0}
  BY EmptySeq DEF Text
<1>3. colon \in 0..Len(x)
  BY Marks, Finding, Zenon
<1>4. get_scheme(x) = IF colon > 0 /\ \A i \in 1..colon - 1 : Letters(x[i])
                      THEN Upto(x, colon) ELSE <<>>
  BY Zenon DEF get_scheme
<1> HIDE DEF colon
<1>5. CASE colon = 1
  <2>1. Upto(x, 1) = <<>>
    BY SubSeqEmpty DEF Upto
  <2> QED BY <1>4, <1>5, <2>1 DEF is_relative_url
<1>6. CASE colon # 1
  <2>1. colon > 0 => 1 \in 1..colon - 1
    BY <1>2, <1>3, <1>6
  <2> QED BY <1>1, <1>4, <2>1 DEF is_relative_url
<1> QED BY <1>5, <1>6

\* An http URL begins with its scheme, and only it does.
LEMMA HttpBegins ==
  ASSUME NEW x \in Text
  PROVE  IsHttp(x) <=> Len(x) >= 2 /\ x[1] \in {"http", "https"} /\ x[2] = ":"
<1>1. ASSUME Len(x) >= 2, x[1] \in {"http", "https"}, x[2] = ":"
      PROVE  IsHttp(x)
  <2>1. Letters(x[1])
    BY <1>1, NotLetters, Zenon
  <2>2. get_scheme(x) = <<x[1]>>
    BY <1>1, <2>1, SchemeFound
  <2> QED BY <1>1, <2>2, Zenon DEF IsHttp
<1>2. ASSUME NEW t, get_scheme(x) = <<t>>
      PROVE  Len(x) >= 2 /\ x[1] = t /\ x[2] = ":"
  <2> DEFINE colon == Find(x, <<":">>, 1)
             part == SubSeq(x, 1, colon - 1)
  <2>1. x[1] = t
    BY <1>2, SchemeBegins
  <2>2. get_scheme(x) = IF colon > 0 /\ \A i \in 1..colon - 1 : Letters(x[i])
                        THEN Upto(x, colon) ELSE <<>>
    BY Zenon DEF get_scheme
  <2>3. ":" \in Token
    BY DEF Token
  <2>4. \A i : i \in Matches(x, <<":">>) <=> i \in 1..Len(x) /\ x[i] = ":"
    BY <2>3, TokenMatches
  <2>5. colon \in 0..Len(x) /\ (colon # 0 => colon \in Matches(x, <<":">>) /\ 1 <= colon)
    BY Marks, Finding
  <2> HIDE DEF colon
  <2>6. colon # 0 /\ <<t>> = Upto(x, colon)
    <3>1. <<t>> # <<>> /\ ~(0 > 0)
      OBVIOUS
    <3> QED BY <1>2, <2>2, <3>1, Zenon
  <2>7. <<t>> = part
    BY <2>6, Zenon DEF Upto
  <2>8. Len(x) \in Nat /\ colon \in 1..Len(x) /\ colon - 1 \in 0..Len(x)
    BY <2>5, <2>6, TextLength
  <2>9. Len(part) = colon - 1
    BY <2>8, Divided
  <2> HIDE DEF part
  <2>10. Len(part) = 1
    <3>1. Len(<<t>>) = 1
      OBVIOUS
    <3> QED BY <2>7, <3>1
  <2>11. colon = 2
    <3>1. \A n \in Nat : n - 1 = 1 => n = 2
      OBVIOUS
    <3>2. colon - 1 = 1
      BY <2>9, <2>10, Zenon
    <3>3. colon \in Nat
      BY <2>8
    <3> QED BY <3>1, <3>2, <3>3
  <2> QED BY <2>1, <2>4, <2>5, <2>8, <2>11
<1> QED BY <1>1, <1>2, Zenon DEF IsHttp

\* What data a request has does not change the scheme of its URL.
LEMMA IdentityIsHttp ==
  ASSUME NEW url \in Text, NEW data \in Text
  PROVE  get_identifying_url(url, data) \in Text /\
         (IsHttp(get_identifying_url(url, data)) <=> IsHttp(url))
<1> DEFINE mark == IF Has(url, "?") THEN "&" ELSE "?"
           one == <<mark>>
           both == url \o one
           id == both \o data
<1>1. CASE data = <<>>
  BY <1>1 DEF get_identifying_url
<1>2. CASE data # <<>>
  <2>1. get_identifying_url(url, data) = id
    BY <1>2, Zenon DEF get_identifying_url
  <2>2. mark # ":" /\ mark # "http" /\ mark # "https" /\ mark \in Token
    BY Zenon DEF Token
  <2>3. one \in Text /\ Len(one) = 1 /\ one[1] = mark
    BY <2>2, One
  <2> HIDE DEF mark, one
  <2>4. /\ both \in Text /\ Len(url) \in Nat /\ Len(both) = Len(url) + 1
        /\ \A i \in 1..Len(url) : both[i] = url[i]
        /\ \A i \in 1..1 : both[Len(url) + i] = one[i]
    <3>1. /\ both \in Text /\ Len(url) \in Nat /\ Len(both) = Len(url) + Len(one)
          /\ \A i \in 1..Len(url) : both[i] = url[i]
          /\ \A i \in 1..Len(one) : both[Len(url) + i] = one[i]
      BY <2>3, JoinedAt
    <3> HIDE DEF both
    <3> QED BY <2>3, <3>1
  <2> HIDE DEF both
  <2>5. /\ id \in Text /\ Len(id) = Len(both) + Len(data) /\ Len(data) \in Nat
        /\ \A i \in 1..Len(both) : id[i] = both[i]
    BY <2>4, JoinedAt
  <2> HIDE DEF id
  <2>6. both[Len(url) + 1] = mark
    BY <2>3, <2>4
  <2>7. \A i \in 1..Len(url) : id[i] = url[i]
    BY <2>4, <2>5
  <2>8. id[Len(url) + 1] = mark
    <3>1. Len(url) + 1 \in 1..Len(both)
      BY <2>4
    <3> QED BY <2>5, <2>6, <3>1
  <2>9. CASE Len(url) = 0
    <3>1. id[1] = mark /\ ~(Len(url) >= 2)
      BY <2>8, <2>9
    <3> QED BY <2>1, <2>2, <2>5, <3>1, HttpBegins
  <2>10. CASE Len(url) = 1
    <3>1. id[2] = mark /\ ~(Len(url) >= 2)
      BY <2>8, <2>10
    <3> QED BY <2>1, <2>2, <2>5, <3>1, HttpBegins
  <2>11. CASE Len(url) >= 2
    <3>1. 1 \in 1..Len(url) /\ 2 \in 1..Len(url) /\ Len(id) >= 2
      BY <2>4, <2>5, <2>11
    <3>2. id[1] = url[1] /\ id[2] = url[2]
      BY <2>7, <3>1
    <3> QED BY <2>1, <2>5, <2>11, <3>1, <3>2, HttpBegins
  <2>12. Len(url) = 0 \/ Len(url) = 1 \/ Len(url) >= 2
    <3>1. \A n \in Nat : n = 0 \/ n = 1 \/ n >= 2
      OBVIOUS
    <3> QED BY <3>1, TextLength
  <2> QED BY <2>9, <2>10, <2>11, <2>12
<1> QED BY <1>1, <1>2

\* What a text begins with is in front of the rest.
LEMMA Continues ==
  ASSUME NEW s \in Text, NEW x \in Text,
         IsPrefix(s, x) \/ (Len(s) <= Len(x) /\ \A i \in 1..Len(s) : x[i] = s[i])
  PROVE  /\ x = s \o From(x, Len(s) + 1) /\ From(x, Len(s) + 1) \in Text
         /\ Len(s) <= Len(x) /\ \A i \in 1..Len(s) : x[i] = s[i]
<1>0. Len(s) \in Nat /\ Len(x) \in Nat
  BY TextLength
<1>1. IsPrefix(s, x)
  BY PrefixOf
<1> DEFINE front == SubSeq(x, 1, Len(s))
<1>2. Len(s) <= Len(x) /\ SubSeq(s, 1, Len(s)) = front
  BY <1>1 DEF IsPrefix
<1>3. SubSeq(s, 1, Len(s)) = s
  BY SubSeqFull DEF Text
<1>4. Len(s) \in 0..Len(x)
  BY <1>0, <1>2
<1>5. /\ \A i \in 1..Len(s) : front[i] = x[i]
      /\ x = front \o From(x, Len(s) + 1) /\ From(x, Len(s) + 1) \in Text
  BY <1>4, Divided
<1> QED BY <1>2, <1>3, <1>5

\* The origin of a URL: scheme, host name and port.
IsOrigin(o) ==
  /\ o \in Text /\ Begins(o)
  /\ \A i \in 5..Len(o) : ~Slash(o, i) /\ ~Marked(o, i)

\* There is no mark in it.
LEMMA OriginUnmarked ==
  ASSUME NEW o, IsOrigin(o)
  PROVE  \A i \in 1..Len(o) : ~Marked(o, i)
<1>1. Len(o) \in Nat /\ Letters(o[1]) /\ o[2] = ":" /\ o[3] = "/" /\ o[4] = "/"
  BY TextLength DEF IsOrigin, Begins, Slash
<1>2. ~Marked(o, 1) /\ ~Marked(o, 2) /\ ~Marked(o, 3) /\ ~Marked(o, 4)
  BY <1>1, NotLetters, Zenon DEF Marked
<1>3. ASSUME NEW i \in 1..Len(o) PROVE i = 1 \/ i = 2 \/ i = 3 \/ i = 4 \/ i \in 5..Len(o)
  BY <1>1
<1> QED BY <1>2, <1>3 DEF IsOrigin

\* An origin is the one of the URLs that begin with it and a path.
LEMMA OriginFound ==
  ASSUME NEW o, IsOrigin(o), NEW t \in Text, t = <<>> \/ Slash(t, 1)
  PROVE  /\ o \o t \in Text /\ Begins(o \o t)
         /\ get_scheme_hostname_port(o \o t) = o
<1> DEFINE x == o \o t
<1>1. /\ o \in Text /\ Len(o) \in Nat /\ Len(o) >= 5
      /\ Letters(o[1]) /\ o[2] = ":" /\ Slash(o, 3) /\ Slash(o, 4)
  BY TextLength DEF IsOrigin, Begins
<1>2. /\ x \in Text /\ Len(t) \in Nat /\ Len(x) = Len(o) + Len(t)
      /\ \A i \in 1..Len(o) : x[i] = o[i]
      /\ \A i \in 1..Len(t) : x[Len(o) + i] = t[i]
  BY <1>1, JoinedAt
<1>3. SubSeq(x, 1, Len(o)) = o
  BY <1>1, TakenApart
<1>4. t = <<>> => x = o
  BY <1>1, ConcatEmptySeq DEF Text
<1> HIDE DEF x
<1>5. 1 \in 1..Len(o) /\ 2 \in 1..Len(o) /\ 3 \in 1..Len(o) /\ 4 \in 1..Len(o)
  BY <1>1
<1>6. Begins(x)
  <2>1. Len(x) >= 5
    BY <1>1, <1>2
  <2>2. x[1] = o[1] /\ x[2] = o[2] /\ x[3] = o[3] /\ x[4] = o[4]
    BY <1>2, <1>5
  <2> QED BY <1>1, <2>1, <2>2 DEF Begins, Slash
<1>7. HasHost(x) /\ HostBegin(x) = 5 /\ ~is_relative_url(x)
  BY <1>2, <1>6, HostFound
<1>8. PathBegin(x) = Find(x, <<"/">>, 5)
  BY <1>7 DEF PathBegin
<1>9. "/" \in Token /\ 5 \in Nat \ {0}
  BY DEF Token
<1>10. \A i \in 5..Len(o) : x[i] # "/"
  <2> SUFFICES ASSUME NEW i \in 5..Len(o) PROVE x[i] # "/"
    OBVIOUS
  <2>1. i \in 1..Len(o)
    BY <1>1
  <2> QED BY <1>2, <2>1 DEF IsOrigin, Slash
<1>11. get_scheme_hostname_port(x) = o
  <2>1. CASE t = <<>>
    <3>1. \A i \in 5..Len(x) : x[i] # "/"
      BY <1>4, <1>10, <2>1
    <3>2. PathBegin(x) = 0
      BY <1>2, <1>8, <1>9, <3>1, FoundAt
    <3> QED BY <1>4, <1>7, <2>1, <3>2 DEF get_scheme_hostname_port, Upto
  <2>2. CASE t # <<>>
    <3>1. Len(t) \in Nat \ {0}
      BY <2>2, EmptySeq DEF Text
    <3>2. 1 \in 1..Len(t) /\ Len(o) + 1 \in 5..Len(x) /\ Len(o) + 1 - 1 = Len(o)
      BY <1>1, <1>2, <3>1
    <3>3. x[Len(o) + 1] = "/"
      BY <1>2, <2>2, <3>2 DEF Slash
    <3>4. PathBegin(x) = Len(o) + 1
      <4> DEFINE n == Len(o) + 1
      <4>1. n \in 5..Len(x) /\ x[n] = "/"
        BY <3>2, <3>3
      <4>2. \A i \in 5..n - 1 : x[i] # "/"
        BY <1>10, <3>2
      <4> HIDE DEF n
      <4>3. Find(x, <<"/">>, 5) = n
        <5>1. x \in Text /\ "/" \in Token /\ 5 \in Nat
          BY <1>2, <1>9
        <5> QED BY <4>1, <4>2, <5>1, FoundAt
      <4> QED BY <1>8, <4>3 DEF n
    <3>5. Upto(x, PathBegin(x)) = SubSeq(x, 1, Len(o))
      <4>1. Len(o) + 1 # 0
        BY <1>1
      <4> QED BY <3>2, <3>4, <4>1 DEF Upto
    <3> QED BY <1>3, <1>7, <3>5 DEF get_scheme_hostname_port
  <2> QED BY <2>1, <2>2
<1> QED BY <1>2, <1>6, <1>11 DEF x

\* The origin does not depend on what follows the path.
LEMMA OriginOf ==
  ASSUME NEW o, IsOrigin(o), NEW t \in Text, t = <<>> \/ Slash(t, 1)
  PROVE  Origin(o \o t) = o
<1> DEFINE x == o \o t
<1>1. o \in Text /\ Len(o) \in Nat /\ Len(o) >= 5
  BY TextLength DEF IsOrigin, Begins
<1>2. /\ x \in Text /\ Len(t) \in Nat /\ Len(x) = Len(o) + Len(t)
      /\ \A i \in 1..Len(o) : x[i] = o[i]
      /\ \A i \in 1..Len(t) : x[Len(o) + i] = t[i]
  BY <1>1, JoinedAt
<1> HIDE DEF x
<1>3. PICK n : EndsAt(x, n) /\ get_scheme_hostname_port_path(x) = SubSeq(x, 1, n)
  BY <1>2, PathEnds
<1>4. n \in 0..Len(x) /\ (n = Len(x) \/ Marked(x, n + 1))
  BY <1>3 DEF EndsAt
<1> DEFINE w == SubSeq(x, 1, n)
<1>5. w \in Text /\ Len(w) = n /\ \A i \in 1..n : w[i] = x[i]
  BY <1>2, <1>4, Divided
<1> HIDE DEF w
<1>6. \A i \in 1..Len(o) : ~Marked(x, i)
  BY <1>2, OriginUnmarked DEF Marked
<1>7. t # <<>> => Len(t) \in Nat \ {0} /\ 1 \in 1..Len(t)
  <2>1. t # <<>> => Len(t) \in Nat \ {0}
    BY EmptySeq DEF Text
  <2> QED BY <2>1
<1>8. t # <<>> => Slash(x, Len(o) + 1) /\ ~Marked(x, Len(o) + 1)
  <2>1. t # <<>> => x[Len(o) + 1] = t[1]
    BY <1>2, <1>7
  <2>2. t # <<>> => t[1] = "/"
    BY DEF Slash
  <2>3. "/" \notin {"?", "#"}
    BY Zenon
  <2> QED BY <2>1, <2>2, <2>3, Zenon DEF Slash, Marked
<1>9. Len(o) <= n /\ (t # <<>> => Len(o) + 1 <= n)
  <2>1. n \in Nat /\ Len(x) \in Nat /\ n <= Len(x)
    BY <1>1, <1>2, <1>4
  <2>2. ASSUME ~(Len(o) <= n) PROVE FALSE
    <3>1. n + 1 \in 1..Len(o) /\ n # Len(x)
      BY <1>1, <1>2, <2>1, <2>2
    <3> QED BY <1>4, <1>6, <3>1
  <2>3. ASSUME t # <<>>, n = Len(o) PROVE FALSE
    <3>1. n # Len(x)
      BY <1>1, <1>2, <1>7, <2>3
    <3> QED BY <1>4, <1>8, <2>3, <3>1
  <2> QED BY <1>1, <2>1, <2>2, <2>3
<1> DEFINE rest == From(w, Len(o) + 1)
<1>10. w = o \o rest /\ rest \in Text
  <2>1. \A i \in 1..Len(o) : w[i] = o[i]
    <3> SUFFICES ASSUME NEW i \in 1..Len(o) PROVE w[i] = o[i]
      OBVIOUS
    <3>1. n \in Nat
      BY <1>4
    <3>2. i \in 1..n
      BY <1>1, <1>9, <3>1
    <3> QED BY <1>2, <1>5, <3>2
  <2> QED BY <1>1, <1>5, <1>9, <2>1, Continues
<1> HIDE DEF rest
<1>11. rest = <<>> \/ Slash(rest, 1)
  <2>1. /\ Len(o \o rest) = Len(o) + Len(rest) /\ Len(rest) \in Nat
        /\ \A i \in 1..Len(rest) : (o \o rest)[Len(o) + i] = rest[i]
    BY <1>1, <1>10, JoinedAt
  <2>2. n = Len(o) + Len(rest)
    BY <1>5, <1>10, <2>1
  <2>3. CASE rest # <<>>
    <3>1. Len(rest) \in Nat \ {0}
      BY <1>10, <2>3, EmptySeq DEF Text
    <3>2. 1 \in 1..Len(rest)
      BY <3>1
    <3>3. rest[1] = w[Len(o) + 1]
      BY <1>10, <2>1, <3>2
    <3>4. n \in Nat /\ Len(x) \in Nat /\ n <= Len(x)
      BY <1>1, <1>2, <1>4
    <3>5. Len(o) + 1 \in 1..n
      BY <1>1, <2>2, <3>1
    <3>6. rest[1] = x[Len(o) + 1]
      BY <1>5, <3>3, <3>5
    <3>7. t # <<>>
      <4> SUFFICES ASSUME t = <<>> PROVE FALSE
        OBVIOUS
      <4>1. Len(t) = 0
        BY EmptySeq
      <4> QED BY <1>1, <1>2, <2>2, <3>1, <3>4, <4>1
    <3> QED BY <1>8, <3>6, <3>7 DEF Slash
  <2> QED BY <2>3
<1>12. get_scheme_hostname_port(w) = o
  BY <1>10, <1>11, OriginFound
<1> QED BY <1>3, <1>12 DEF Origin, w, x

\* What a URL ends with behind its path.
IsQuery(q) ==
  q \in Text /\ (q = <<>> \/ (Len(q) >= 2 /\ q[1] = "?" /\ \A i \in 1..Len(q) : ~Hashed(q, i)))
IsFragment(f) == f \in Text /\ (f = <<>> \/ Hashed(f, 1))
Unmarked(w) == w \in Text /\ \A i \in 1..Len(w) : ~Marked(w, i)

\* The end of a URL is cut off where it begins.
LEMMA PathCut ==
  ASSUME NEW w, Unmarked(w), NEW q, IsQuery(q), NEW f, IsFragment(f)
  PROVE  /\ w \o q \o f \in Text
         /\ get_scheme_hostname_port_path(w \o q \o f) = w
         /\ From(w \o q \o f, Len(w) + 1) = q \o f
         /\ Query(w \o q \o f) = q
         /\ EndsAt(w \o q \o f, Len(w))
         /\ \A i \in 1..Len(w) : (w \o q \o f)[i] = w[i]
<1> DEFINE wq == w \o q
           x == wq \o f
<1>1. w \in Text /\ q \in Text /\ f \in Text /\ \A i \in 1..Len(w) : ~Marked(w, i)
  BY DEF Unmarked, IsQuery, IsFragment
<1>2. /\ wq \in Text /\ Len(w) \in Nat /\ Len(q) \in Nat /\ Len(wq) = Len(w) + Len(q)
      /\ \A i \in 1..Len(w) : wq[i] = w[i]
      /\ \A i \in 1..Len(q) : wq[Len(w) + i] = q[i]
  BY <1>1, JoinedAt
<1>3. SubSeq(wq, 1, Len(w)) = w /\ From(wq, Len(w) + 1) = q
  BY <1>1, TakenApart
<1>4. x = w \o (q \o f) /\ q \o f \in Text
  BY <1>1, ConcatAssociative, Joined DEF Text
<1>5. SubSeq(x, 1, Len(w)) = w /\ From(x, Len(w) + 1) = q \o f
  BY <1>1, <1>4, TakenApart
<1>6. q = <<>> => wq = w
  BY <1>1, ConcatEmptySeq DEF Text
<1>7. f = <<>> => x = wq
  BY <1>2, ConcatEmptySeq DEF Text
<1> HIDE DEF wq
<1>8. /\ x \in Text /\ Len(f) \in Nat /\ Len(x) = Len(wq) + Len(f)
      /\ \A i \in 1..Len(wq) : x[i] = wq[i]
      /\ \A i \in 1..Len(f) : x[Len(wq) + i] = f[i]
  BY <1>1, <1>2, JoinedAt
<1>9. SubSeq(x, 1, Len(wq)) = wq
  BY <1>1, <1>2, TakenApart
<1> HIDE DEF x
<1>10. \A s \in Text : s # <<>> => Len(s) \in Nat \ {0} /\ 1 \in 1..Len(s)
  <2> SUFFICES ASSUME NEW s \in Text, s # <<>> PROVE Len(s) \in Nat \ {0} /\ 1 \in 1..Len(s)
    OBVIOUS
  <2>1. Len(s) \in Nat \ {0}
    BY EmptySeq DEF Text
  <2> QED BY <2>1
<1>11. \A i \in 1..Len(w) : x[i] = w[i]
  <2> SUFFICES ASSUME NEW i \in 1..Len(w) PROVE x[i] = w[i]
    OBVIOUS
  <2>1. i \in 1..Len(wq)
    BY <1>2
  <2> QED BY <1>2, <1>8, <2>1
<1>12. EndsAt(x, Len(w))
  <2>1. Len(w) \in 0..Len(x)
    BY <1>2, <1>8
  <2>2. \A i \in 1..Len(w) : ~Marked(x, i)
    BY <1>1, <1>11 DEF Marked
  <2>3. CASE q # <<>>
    <3>1. 1 \in 1..Len(q) /\ q[1] = "?"
      BY <1>1, <1>10, <2>3 DEF IsQuery
    <3>2. wq[Len(w) + 1] = "?" /\ Len(w) + 1 \in 1..Len(wq)
      BY <1>2, <3>1
    <3>3. x[Len(w) + 1] = "?"
      BY <1>8, <3>2
    <3>4. Marked(x, Len(w) + 1)
      BY <3>3, Zenon DEF Marked
    <3> QED BY <2>1, <2>2, <3>4 DEF EndsAt
  <2>4. CASE q = <<>> /\ f # <<>>
    <3>1. 1 \in 1..Len(f) /\ f[1] = "#"
      BY <1>1, <1>10, <2>4 DEF IsFragment, Hashed
    <3>2. x[Len(w) + 1] = "#"
      BY <1>6, <1>8, <2>4, <3>1
    <3>3. Marked(x, Len(w) + 1)
      BY <3>2, Zenon DEF Marked
    <3> QED BY <2>1, <2>2, <3>3 DEF EndsAt
  <2>5. CASE q = <<>> /\ f = <<>>
    BY <1>6, <1>7, <2>1, <2>2, <2>5 DEF EndsAt
  <2> QED BY <2>3, <2>4, <2>5
<1>13. get_scheme_hostname_port_path(x) = w
  BY <1>5, <1>8, <1>12, PathEnds
<1> DEFINE hash == Find(x, <<"#">>, 1)
<1>14. "#" \in Token /\ 1 \in Nat \ {0}
  BY DEF Token
<1>15. \A i \in 1..Len(wq) : x[i] # "#"
  <2> SUFFICES ASSUME NEW i \in 1..Len(wq) PROVE x[i] # "#"
    OBVIOUS
  <2>1. CASE i \in 1..Len(w)
    <3>1. ~Marked(w, i)
      BY <1>1, <2>1
    <3>2. w[i] # "#"
      BY <3>1, Zenon DEF Marked
    <3> QED BY <1>11, <2>1, <3>2
  <2>2. CASE ~(i \in 1..Len(w))
    <3> DEFINE j == i - Len(w)
    <3>1. j \in 1..Len(q) /\ Len(w) + j = i
      BY <1>2, <2>2
    <3> HIDE DEF j
    <3>2. q # <<>>
      <4> SUFFICES ASSUME q = <<>> PROVE FALSE
        OBVIOUS
      <4>1. Len(q) = 0
        BY EmptySeq
      <4> QED BY <3>1, <4>1
    <3>3. ~Hashed(q, j)
      BY <3>1, <3>2 DEF IsQuery
    <3>4. x[i] = q[j]
      BY <1>2, <1>8, <3>1
    <3> QED BY <3>3, <3>4 DEF Hashed
  <2> QED BY <2>1, <2>2
<1>16. Upto(x, hash) = wq
  <2>1. CASE f = <<>>
    <3>1. \A i \in 1..Len(x) : x[i] # "#"
      BY <1>7, <1>15, <2>1
    <3>2. hash = 0
      BY <1>8, <1>14, <3>1, FoundAt
    <3> QED BY <1>7, <2>1, <3>2 DEF Upto
  <2>2. CASE f # <<>>
    <3> DEFINE n == Len(wq) + 1
    <3>1. 1 \in 1..Len(f) /\ f[1] = "#"
      BY <1>1, <1>10, <2>2 DEF IsFragment, Hashed
    <3>2. Len(wq) \in Nat
      BY <1>2
    <3>3. n \in 1..Len(x) /\ x[n] = "#"
      BY <1>8, <3>1, <3>2
    <3>4. n - 1 = Len(wq) /\ n # 0
      BY <3>2
    <3>5. \A i \in 1..n - 1 : x[i] # "#"
      BY <1>15, <3>4
    <3> HIDE DEF n
    <3>6. hash = n
      BY <1>8, <1>14, <3>3, <3>5, FoundAt
    <3> HIDE DEF hash
    <3> QED BY <1>9, <3>4, <3>6 DEF Upto
  <2> QED BY <2>1, <2>2
<1>17. Query(x) = q
  BY <1>3, <1>13, <1>16 DEF Query
<1> QED BY <1>5, <1>8, <1>11, <1>12, <1>13, <1>17 DEF x, wq

-----------------------------------------------------------------------------
(* Paths without dot segments.                                             *)

\* No segment of a path is . or .. nor begins with two points.
NoDots(p) ==
  \A i \in 1..Len(p) - 1 :
    Slash(p, i) /\ Dot(p, i + 1) => i + 2 <= Len(p) /\ ~Slash(p, i + 2) /\ ~Dot(p, i + 2)

\* The next slash, and what is in front of it.
LEMMA NextSlash ==
  ASSUME NEW p \in Text, NEW i \in Nat \ {0}, i <= Len(p) + 1
  PROVE  LET j == Find(p, <<"/">>, i)
             w == Upto(p, j)
         IN /\ \/ j = 0 /\ Len(w) = Len(p) /\ \A k \in i..Len(p) : ~Slash(p, k)
               \/ /\ j \in i..Len(p) /\ Slash(p, j) /\ Len(w) = j - 1
                  /\ \A k \in i..j - 1 : ~Slash(p, k)
            /\ w \in Text /\ i - 1 <= Len(w) /\ Len(w) <= Len(p)
            /\ \A k \in 1..Len(w) : w[k] = p[k]
<1> DEFINE j == Find(p, <<"/">>, i)
           w == Upto(p, j)
<1>1. Len(p) \in Nat /\ i \in Int /\ "/" \in Token /\ <<"/">> \in Text /\ <<"/">> # <<>>
  BY TextLength, Marks, SlashAndDot
<1>2. /\ j \in 0..Len(p)
      /\ j # 0 => j \in Matches(p, <<"/">>) /\ i <= j
      /\ \A k \in Matches(p, <<"/">>) : i <= k => j # 0 /\ j <= k
  BY <1>1, Finding
<1>3. \A k : k \in Matches(p, <<"/">>) <=> k \in 1..Len(p) /\ Slash(p, k)
  BY <1>1, TokenMatches DEF Slash
<1> HIDE DEF j
<1>4. CASE j = 0
  <2>1. w = p
    BY <1>4 DEF Upto
  <2>2. \A k \in i..Len(p) : ~Slash(p, k)
    <3> SUFFICES ASSUME NEW k \in i..Len(p), Slash(p, k) PROVE FALSE
      OBVIOUS
    <3>1. k \in 1..Len(p) /\ i <= k
      BY <1>1
    <3> QED BY <1>2, <1>3, <1>4, <3>1
  <2>3. i - 1 <= Len(p) /\ Len(p) <= Len(p)
    BY <1>1
  <2> QED BY <1>4, <2>1, <2>2, <2>3 DEF j
<1>5. CASE j # 0
  <2>1. Slash(p, j) /\ i <= j /\ j \in 1..Len(p)
    BY <1>2, <1>3, <1>5
  <2>2. \A k \in i..j - 1 : ~Slash(p, k)
    <3> SUFFICES ASSUME NEW k \in i..j - 1, Slash(p, k) PROVE FALSE
      OBVIOUS
    <3>1. k \in 1..Len(p) /\ i <= k /\ ~(j <= k)
      BY <1>1, <2>1
    <3> QED BY <1>2, <1>3, <3>1
  <2>3. w = SubSeq(p, 1, j - 1)
    BY <1>5 DEF Upto
  <2>4. j - 1 \in 0..Len(p) /\ j \in i..Len(p) /\ i - 1 <= j - 1 /\ j - 1 <= Len(p)
    BY <1>1, <2>1
  <2>5. w \in Text /\ Len(w) = j - 1 /\ \A k \in 1..j - 1 : w[k] = p[k]
    <3> HIDE DEF w
    <3> QED BY <2>3, <2>4, Divided
  <2> HIDE DEF w
  <2> QED BY <2>1, <2>2, <2>4, <2>5 DEF w, j
<1> QED BY <1>4, <1>5

\* In such a path the segment behind a slash is none.
LEMMA SegmentWithoutDots ==
  ASSUME NEW p \in Text, NoDots(p), NEW i \in 1..Len(p), Slash(p, i)
  PROVE  ~IsDots(Segment(p, i))
<1> DEFINE j == Find(p, <<"/">>, i + 1)
           w == Upto(p, j)
           segment == From(w, i + 1)
<1>1. Len(p) \in Nat /\ i \in Nat /\ i <= Len(p) /\ 1 <= i
  BY TextLength
<1>2. i + 1 \in Nat \ {0} /\ i + 1 <= Len(p) + 1 /\ i + 1 - 1 = i
  BY <1>1
<1>3. /\ \/ j = 0 /\ Len(w) = Len(p)
         \/ j \in i + 1..Len(p) /\ Slash(p, j) /\ Len(w) = j - 1
      /\ w \in Text /\ i + 1 - 1 <= Len(w) /\ Len(w) <= Len(p)
      /\ \A k \in 1..Len(w) : w[k] = p[k]
  BY <1>2, NextSlash
<1> HIDE DEF j, w
<1>4. Len(w) \in Nat /\ i \in 0..Len(w)
  <2>1. Len(w) \in Nat
    BY <1>3, TextLength
  <2> QED BY <1>1, <1>2, <1>3, <2>1
<1>5. segment \in Text /\ Len(segment) = Len(w) - i /\ \A k \in 1..Len(w) - i : segment[k] = w[i + k]
  BY <1>3, <1>4, Divided
<1>6. Segment(p, i) = segment
  BY DEF Segment, w, j
<1> HIDE DEF segment
<1>7. ASSUME Len(segment) >= 1, segment[1] = "."
      PROVE  /\ i + 2 <= Len(p) /\ ~Slash(p, i + 2) /\ ~Dot(p, i + 2)
  <2>1. 1 \in 1..Len(w) - i /\ i + 1 \in 1..Len(w) /\ i \in 1..Len(p) - 1
    <3>1. Len(w) - i >= 1 /\ Len(w) <= Len(p)
      BY <1>3, <1>5, <1>7
    <3> QED BY <1>1, <1>4, <3>1
  <2>2. p[i + 1] = "."
    BY <1>3, <1>5, <1>7, <2>1
  <2> QED BY <2>1, <2>2 DEF NoDots, Dot
<1>8. segment # <<".">>
  <2> SUFFICES ASSUME segment = <<".">> PROVE FALSE
    OBVIOUS
  <2>1. Len(segment) = 1 /\ segment[1] = "." /\ Len(segment) >= 1
    OBVIOUS
  <2>2. i + 2 <= Len(p) /\ ~Slash(p, i + 2)
    BY <1>7, <2>1
  <2>3. Len(w) - i = 1
    BY <1>5, <2>1, Zenon
  <2>4. Len(w) = i + 1
    BY <1>1, <1>4, <2>3
  <2>5. Len(w) # Len(p)
    BY <1>1, <2>2, <2>4
  <2>6. j \in i + 1..Len(p) /\ Slash(p, j) /\ Len(w) = j - 1
    BY <1>3, <2>5
  <2>7. j = i + 2
    BY <1>1, <2>4, <2>6
  <2> QED BY <2>2, <2>6, <2>7
<1>9. segment # <<".", ".">>
  <2> SUFFICES ASSUME segment = <<".", ".">> PROVE FALSE
    OBVIOUS
  <2>1. Len(segment) = 2 /\ segment[1] = "." /\ segment[2] = "." /\ Len(segment) >= 1
    OBVIOUS
  <2>2. i + 2 <= Len(p) /\ ~Dot(p, i + 2)
    BY <1>7, <2>1
  <2>3. Len(w) - i = 2
    BY <1>5, <2>1, Zenon
  <2>4. 2 \in 1..Len(w) - i /\ i + 2 \in 1..Len(w)
    BY <1>1, <1>4, <2>3
  <2>5. p[i + 2] = "."
    BY <1>3, <1>5, <2>1, <2>4
  <2> QED BY <2>2, <2>5 DEF Dot
<1> QED BY <1>6, <1>8, <1>9, Zenon DEF IsDots

\* A path without dot segments stays as it is.
LEMMA SimplifiedSame ==
  ASSUME NEW p \in Text, NoDots(p), p = <<>> \/ Slash(p, 1)
  PROVE  Simplified(p) = p
<1> DEFINE front(i) == Upto(p, Find(p, <<"/">>, i + 1))
           last == Segment(p, RFind(p, <<"/">>, Len(p)))
<1>1. PICK upto : /\ Resolves(p, upto)
                  /\ Simplified(p) = upto[Len(p)] \o IF IsDots(last) THEN <<"/">> ELSE <<>>
  BY SimplifiedSteps
<1>2. Len(p) \in Nat
  BY TextLength
<1>3. front(0) = <<>>
  <2> DEFINE j == Find(p, <<"/">>, 1)
             w == Upto(p, j)
  <2>1. 1 \in Nat \ {0} /\ 1 <= Len(p) + 1 /\ 0 + 1 = 1
    BY <1>2
  <2>2. /\ \/ j = 0 /\ Len(w) = Len(p) /\ \A k \in 1..Len(p) : ~Slash(p, k)
           \/ j \in 1..Len(p) /\ Slash(p, j) /\ Len(w) = j - 1 /\ \A k \in 1..j - 1 : ~Slash(p, k)
        /\ w \in Text
    BY <2>1, NextSlash
  <2> HIDE DEF j, w
  <2>3. Len(w) = 0
    <3>1. CASE p = <<>>
      <4>1. Len(p) = 0
        BY <3>1, EmptySeq
      <4> QED BY <2>2, <4>1
    <3>2. CASE p # <<>>
      <4>1. Slash(p, 1)
        BY <3>2
      <4>2. 1 \in 1..Len(p)
        <5>1. Len(p) \in Nat \ {0}
          BY <3>2, EmptySeq DEF Text
        <5> QED BY <5>1
      <4>3. j \in 1..Len(p) /\ Len(w) = j - 1 /\ ~(1 \in 1..j - 1)
        BY <2>2, <4>1, <4>2
      <4> QED BY <4>3
    <3> QED BY <3>1, <3>2
  <2>4. w = <<>>
    BY <2>2, <2>3, EmptySeq DEF Text
  <2> QED BY <2>1, <2>4 DEF w, j
<1> DEFINE wrong == {i \in 0..Len(p) : upto[i] # front(i)}
<1>4. 0 \notin wrong
  BY <1>1, <1>3 DEF Resolves
<1>5. ASSUME NEW i \in 1..Len(p), upto[i - 1] = front(i - 1)
      PROVE  upto[i] = front(i)
  <2> DEFINE before == Find(p, <<"/">>, i)
             j == Find(p, <<"/">>, i + 1)
             w == Upto(p, j)
  <2>1. /\ i \in Nat \ {0} /\ i + 1 \in Nat \ {0} /\ i - 1 + 1 = i /\ i + 1 - 1 = i
        /\ i <= Len(p) /\ i <= Len(p) + 1 /\ i + 1 <= Len(p) + 1 /\ i \in Nat
    BY <1>2
  <2>2. /\ \/ j = 0 /\ \A k \in i + 1..Len(p) : ~Slash(p, k)
           \/ j \in i + 1..Len(p) /\ Slash(p, j) /\ \A k \in i + 1..j - 1 : ~Slash(p, k)
        /\ w \in Text /\ i + 1 - 1 <= Len(w) /\ Len(w) <= Len(p) /\ \A k \in 1..Len(w) : w[k] = p[k]
    BY <2>1, NextSlash
  <2>3. upto[i - 1] = Upto(p, before) /\ front(i) = w
    BY <1>5, <2>1
  <2>4. upto[i] = IF p[i] = "/" THEN Enter(upto[i - 1], Segment(p, i)) ELSE upto[i - 1]
    BY <1>1 DEF Resolves
  <2>5. "/" \in Token
    BY SlashAndDot
  <2> HIDE DEF j, front
  <2>6. CASE Slash(p, i)
    <3> DEFINE s == SubSeq(p, 1, i - 1)
               slash == <<"/">>
               t == s \o slash
    <3>1. before = i
      <4>1. i \in i..Len(p) /\ p[i] = "/" /\ \A k \in i..i - 1 : p[k] # "/"
        BY <2>1, <2>6 DEF Slash
      <4> QED BY <2>1, <2>5, <4>1, FoundAt
    <3>2. upto[i - 1] = s
      <4>1. i # 0
        BY <2>1
      <4> QED BY <2>3, <3>1, <4>1 DEF Upto
    <3>3. Segment(p, i) = From(w, i + 1)
      BY DEF Segment, j
    <3> HIDE DEF w
    <3>4. ~IsDots(Segment(p, i))
      BY <2>6, SegmentWithoutDots
    <3>5. Enter(upto[i - 1], Segment(p, i)) = t \o From(w, i + 1)
      <4> HIDE DEF s
      <4> QED BY <3>2, <3>3, <3>4 DEF Enter, IsDots
    <3>6. s \in Text /\ Len(s) = i - 1 /\ \A k \in 1..i - 1 : s[k] = p[k]
      <4>1. i - 1 \in 0..Len(p)
        BY <1>2, <2>1
      <4> QED BY <4>1, Divided
    <3>7. slash \in Text /\ Len(slash) = 1 /\ slash[1] = "/"
      BY <2>5, One
    <3> HIDE DEF s, slash
    <3>8. /\ t \in Text /\ Len(t) = Len(s) + Len(slash)
          /\ \A k \in 1..Len(s) : t[k] = s[k]
          /\ \A k \in 1..Len(slash) : t[Len(s) + k] = slash[k]
      BY <3>6, <3>7, JoinedAt
    <3> HIDE DEF t
    <3>9. Len(t) = i
      BY <2>1, <3>6, <3>7, <3>8
    <3>10. t[i] = "/"
      <4>1. 1 \in 1..Len(slash) /\ Len(s) + 1 = i
        BY <2>1, <3>6, <3>7
      <4> QED BY <3>7, <3>8, <4>1
    <3>11. ASSUME NEW k \in 1..Len(t) PROVE w[k] = t[k]
      <4>1. k \in 1..i
        BY <3>9
      <4>2. Len(w) \in Nat
        BY <2>2, TextLength
      <4>3. k \in 1..Len(w)
        BY <2>1, <2>2, <4>1, <4>2
      <4>4. w[k] = p[k]
        BY <2>2, <4>3
      <4>5. CASE k = i
        BY <2>6, <3>10, <4>4, <4>5 DEF Slash
      <4>6. CASE k # i
        <5>1. k \in 1..i - 1 /\ k \in 1..Len(s)
          BY <2>1, <3>6, <4>1, <4>6
        <5> QED BY <3>6, <3>8, <4>4, <5>1
      <4> QED BY <4>5, <4>6
    <3>12. Len(t) <= Len(w)
      BY <2>1, <2>2, <3>9
    <3>13. w = t \o From(w, Len(t) + 1)
      BY <2>2, <3>8, <3>11, <3>12, Continues
    <3> QED BY <2>3, <2>4, <2>6, <3>5, <3>9, <3>13 DEF Slash
  <2>7. CASE ~Slash(p, i)
    <3>1. before = j
      <4>1. CASE j = 0
        <5>1. \A k \in i..Len(p) : p[k] # "/"
          <6> SUFFICES ASSUME NEW k \in i..Len(p) PROVE p[k] # "/"
            OBVIOUS
          <6>1. k = i \/ k \in i + 1..Len(p)
            BY <1>2, <2>1
          <6>2. \A l \in i + 1..Len(p) : ~Slash(p, l)
            BY <1>2, <2>1, <2>2, <4>1
          <6> QED BY <2>7, <6>1, <6>2 DEF Slash
        <5> QED BY <2>1, <2>5, <4>1, <5>1, FoundAt
      <4>2. CASE j # 0
        <5>1. j \in i + 1..Len(p) /\ Slash(p, j) /\ \A k \in i + 1..j - 1 : ~Slash(p, k)
          BY <2>2, <4>2
        <5>2. j \in i..Len(p) /\ p[j] = "/"
          BY <1>2, <2>1, <5>1 DEF Slash
        <5>3. \A k \in i..j - 1 : p[k] # "/"
          <6> SUFFICES ASSUME NEW k \in i..j - 1 PROVE p[k] # "/"
            OBVIOUS
          <6>1. k = i \/ k \in i + 1..j - 1
            BY <1>2, <2>1, <5>1
          <6> QED BY <2>7, <5>1, <6>1 DEF Slash
        <5> QED BY <2>1, <2>5, <5>2, <5>3, FoundAt
      <4> QED BY <4>1, <4>2
    <3> QED BY <2>3, <2>4, <2>7, <3>1 DEF Slash
  <2> QED BY <2>6, <2>7
<1>6. wrong = {}
  <2> SUFFICES ASSUME wrong # {} PROVE FALSE
    OBVIOUS
  <2> HIDE DEF front
  <2>1. wrong \in SUBSET Nat
    OBVIOUS
  <2>2. PICK m \in wrong : \A k \in wrong : m <= k
    BY <2>1, MinIsLeast
  <2>3. m \in 0..Len(p) /\ upto[m] # front(m) /\ m # 0
    BY <1>4
  <2>4. m \in 1..Len(p) /\ m - 1 \in 0..Len(p) /\ ~(m <= m - 1)
    BY <1>2, <2>3
  <2>5. upto[m - 1] = front(m - 1)
    BY <2>2, <2>4
  <2> QED BY <1>5, <2>3, <2>4, <2>5
<1>7. upto[Len(p)] = p
  <2>1. Len(p) \in 0..Len(p) /\ Len(p) + 1 \in Nat \ {0} /\ \A i \in Len(p) + 1..Len(p) : FALSE
    BY <1>2
  <2>2. upto[Len(p)] = front(Len(p))
    <3> HIDE DEF front
    <3> QED BY <1>6, <2>1
  <2>3. Find(p, <<"/">>, Len(p) + 1) = 0
    <3>1. \A i \in Len(p) + 1..Len(p) : p[i] # "/"
      BY <2>1
    <3> QED BY <2>1, <3>1, SlashAndDot, FoundAt
  <2> QED BY <2>2, <2>3 DEF Upto
<1>8. ~IsDots(last)
  <2> DEFINE r == RFind(p, <<"/">>, Len(p))
  <2>1. r \in 0..Len(p) /\ (r # 0 => r \in Matches(p, <<"/">>))
    <3>1. Len(p) \in Int
      BY <1>2
    <3> QED BY <3>1, Marks, FindingBack
  <2> HIDE DEF r
  <2>2. CASE r = 0
    <3>1. Segment(p, 0) = From(<<>>, 0 + 1)
      BY <1>3 DEF Segment
    <3>2. From(<<>>, 0 + 1) = <<>>
      <4>1. Len(<<>>) = 0 /\ 0 + 1 = 1
        BY EmptySeq
      <4>2. SubSeq(<<>>, 1, 0) = <<>>
        BY SubSeqEmpty
      <4> QED BY <4>1, <4>2 DEF From
    <3>3. <<>> # <<".">> /\ <<>> # <<".", ".">>
      OBVIOUS
    <3> QED BY <2>2, <3>1, <3>2, <3>3, Zenon DEF IsDots, r
  <2>3. CASE r # 0
    <3>1. r \in 1..Len(p) /\ Slash(p, r)
      BY <2>1, <2>3, SlashAndDot, TokenMatches DEF Slash
    <3> QED BY <3>1, SegmentWithoutDots DEF r
  <2> QED BY <2>2, <2>3
<1> HIDE DEF last
<1>9. p \o <<>> = p
  BY ConcatEmptySeq DEF Text
<1> QED BY <1>1, <1>7, <1>8, <1>9

-----------------------------------------------------------------------------
(* What browser and server make of URLs and references without dots.       *)

\* The parts of a URL, of which all but the origin may be missing.
Parts(o, p, q, f) ==
  /\ IsOrigin(o) /\ Unmarked(p) /\ NoDots(p) /\ IsQuery(q) /\ IsFragment(f)
  /\ (p # <<>> /\ Slash(p, 1)) \/ (p = <<>> /\ q = <<>> /\ f = <<>>)

\* A URL is taken apart into the parts it was put together of.
LEMMA UrlParts ==
  ASSUME NEW o, NEW p, NEW q, NEW f, Parts(o, p, q, f)
  PROVE  LET url == o \o p \o q \o f
         IN /\ url \in Text /\ Begins(url) /\ url = o \o (p \o q \o f)
            /\ ~is_relative_url(url)
            /\ get_scheme_hostname_port(url) = o /\ Origin(url) = o
            /\ PathOf(url) = (IF p = <<>> THEN <<"/">> ELSE p)
            /\ Query(url) = q
            /\ Absolute(url) = url
<1> DEFINE url == o \o p \o q \o f
<1>1. o \in Text /\ p \in Text /\ q \in Text /\ f \in Text
  BY DEF Parts, IsOrigin, Unmarked, IsQuery, IsFragment
<1> DEFINE op == o \o p
           qf == q \o f
           t == p \o q \o f
           pq == p \o q
<1>2. pq \in Text /\ t \in Text /\ qf \in Text /\ op \in Text
  BY <1>1, Joined
<1>3. op \o q \o f = op \o qf
  <2>1. op \in Text /\ q \in Text /\ f \in Text
    BY <1>1, <1>2
  <2> HIDE DEF op
  <2> QED BY <2>1, JoinedAlike DEF qf
<1>4. url = o \o t
  <2>1. op \o q = o \o pq
    BY <1>1, JoinedAlike
  <2>2. url = op \o q \o f /\ t = pq \o f
    OBVIOUS
  <2> HIDE DEF url, t, op, pq
  <2>3. o \in Text /\ pq \in Text /\ f \in Text
    BY <1>1, <1>2
  <2>4. (o \o pq) \o f = o \o (pq \o f)
    BY <2>3, JoinedAlike
  <2> QED BY <2>1, <2>2, <2>4
<1>5. t = <<>> \/ Slash(t, 1)
  <2>1. CASE p = <<>> /\ q = <<>> /\ f = <<>>
    <3>1. <<>> \o <<>> = <<>>
      BY Marks, ConcatEmptySeq DEF Text
    <3> QED BY <2>1, <3>1
  <2>2. CASE p # <<>> /\ Slash(p, 1)
    <3>1. /\ \A i \in 1..Len(p) : t[i] = p[i]
      BY <1>1, PathCut DEF Parts
    <3>2. Len(p) \in Nat \ {0}
      BY <1>1, <2>2, EmptySeq DEF Text
    <3>3. 1 \in 1..Len(p)
      BY <3>2
    <3> HIDE DEF t
    <3> QED BY <2>2, <3>1, <3>3 DEF Slash
  <2> QED BY <2>1, <2>2 DEF Parts
<1>6. Unmarked(op)
  <2>1. /\ Len(o) \in Nat /\ Len(p) \in Nat /\ Len(op) = Len(o) + Len(p)
        /\ \A i \in 1..Len(o) : op[i] = o[i]
        /\ \A i \in 1..Len(p) : op[Len(o) + i] = p[i]
    BY <1>1, JoinedAt
  <2> HIDE DEF op
  <2>2. ASSUME NEW i \in 1..Len(op) PROVE ~Marked(op, i)
    <3>1. CASE i \in 1..Len(o)
      BY <2>1, <3>1, OriginUnmarked DEF Parts, Marked
    <3>2. CASE ~(i \in 1..Len(o))
      <4> DEFINE j == i - Len(o)
      <4>1. j \in 1..Len(p) /\ Len(o) + j = i
        BY <2>1, <3>2
      <4> HIDE DEF j
      <4>2. op[i] = p[j] /\ ~Marked(p, j)
        BY <2>1, <4>1 DEF Parts, Unmarked
      <4> QED BY <4>2 DEF Marked
    <3> QED BY <3>1, <3>2
  <2> QED BY <1>2, <2>2 DEF Unmarked
<1>7. /\ url \in Text /\ get_scheme_hostname_port_path(url) = op
      /\ From(url, Len(op) + 1) = qf /\ Query(url) = q
  <2>1. IsQuery(q) /\ IsFragment(f)
    BY DEF Parts
  <2> HIDE DEF op
  <2>2. /\ op \o q \o f \in Text
        /\ get_scheme_hostname_port_path(op \o q \o f) = op
        /\ From(op \o q \o f, Len(op) + 1) = q \o f
        /\ Query(op \o q \o f) = q
    BY <1>6, <2>1, PathCut
  <2> QED BY <2>2 DEF op
<1>8. From(op, Len(o) + 1) = p
  BY <1>1, TakenApart
<1> HIDE DEF url, op, qf, t, pq
<1>9. Begins(url) /\ get_scheme_hostname_port(url) = o /\ Origin(url) = o
  BY <1>2, <1>4, <1>5, OriginFound, OriginOf DEF Parts
<1>10. ~is_relative_url(url) /\ HasHost(url)
  BY <1>7, <1>9, HostFound
<1>11. PathOf(url) = IF p = <<>> THEN <<"/">> ELSE p
  BY <1>7, <1>8, <1>9 DEF PathOf
<1>12. Absolute(url) = url
  <2>1. Simplified(p) = p
    BY <1>1, SimplifiedSame DEF Parts
  <2>2. Absolute(url) = o \o p \o qf
    BY <1>7, <1>8, <1>9, <1>10, <2>1 DEF Absolute
  <2> QED BY <1>3, <2>2 DEF op, url
<1> QED BY <1>4, <1>7, <1>9, <1>10, <1>11, <1>12 DEF t, url

\* A path without dots and marks, that is no reference to another host.
IsPath(p) ==
  /\ p # <<>> /\ Unmarked(p) /\ NoDots(p) /\ Slash(p, 1)
  /\ Len(p) >= 2 => ~Slash(p, 2)

\* A path that is one for the server, not for the host that it names.
Patched(p) == Len(p) >= 3 /\ p[2] \in {"http", "https"} /\ p[3] = ":"

\* The part of a reference that is resolved.
Directory(url) == SubSeq(PathOf(url), 1, RFind(PathOf(url), <<"/">>, Len(PathOf(url))))

\* What begins with two slashes.
LEMMA TwoSlashes ==
  ASSUME NEW x \in Text, IsPrefix(<<"/", "/">>, x)
  PROVE  Len(x) >= 2 /\ Slash(x, 1) /\ Slash(x, 2)
<1> DEFINE s == <<"/", "/">>
<1>1. s \in Text /\ Len(s) = 2 /\ s[1] = "/" /\ s[2] = "/"
  BY SlashAndDot DEF Text
<1> HIDE DEF s
<1>2. IsPrefix(s, x)
  BY DEF s
<1>3. Len(s) <= Len(x) /\ \A i \in 1..Len(s) : x[i] = s[i]
  BY <1>1, <1>2, Continues
<1>4. 1 \in 1..Len(s) /\ 2 \in 1..Len(s)
  BY <1>1
<1>5. Len(x) \in Nat
  BY TextLength
<1>6. Len(x) >= 2
  BY <1>1, <1>3, <1>5
<1> QED BY <1>1, <1>3, <1>4, <1>6 DEF Slash

\* A reference with a path is resolved to the origin, the path and the rest.
LEMMA ResolvedPath ==
  ASSUME NEW w, Unmarked(w), w # <<>>, NEW q, IsQuery(q), NEW f, IsFragment(f),
         IsPath(w) \/ (~Slash(w, 1) /\ is_relative_url(w \o q \o f)), NEW url
  PROVE  Resolve(w \o q \o f, url) =
           Origin(url) \o Simplified(IF Slash(w, 1) THEN w ELSE Directory(url) \o w) \o (q \o f)
<1> DEFINE x == w \o q \o f
           path == get_scheme_hostname_port_path(x)
           rest == From(x, Len(path) + 1)
           directory == SubSeq(PathOf(url), 1, RFind(PathOf(url), <<"/">>, Len(PathOf(url))))
           whole == IF Head(path) = "/" THEN path ELSE directory \o path
           query == IF Has(x, "?") THEN <<>> ELSE Query(url)
           network == get_scheme(url) \o <<":">> \o x
<1>1. w \in Text /\ Len(w) \in Nat \ {0}
  <2>1. w \in Text
    BY DEF Unmarked
  <2> QED BY <2>1, EmptySeq DEF Text
<1>2. /\ x \in Text /\ path = w /\ rest = q \o f /\ EndsAt(x, Len(w))
      /\ \A i \in 1..Len(w) : x[i] = w[i]
  BY PathCut
<1>3. Resolve(x, url) =
        CASE ~is_relative_url(x) -> Absolute(x)
          [] IsPrefix(<<"/", "/">>, x) -> Absolute(network)
          [] path = <<>> -> Origin(url) \o PathOf(url) \o query \o rest
          [] OTHER -> Origin(url) \o Simplified(whole) \o rest
  BY Zenon DEF Resolve
<1>4. whole = IF Head(w) = "/" THEN w ELSE Directory(url) \o w
  BY <1>2, Zenon DEF Directory
<1>5. Head(w) = w[1]
  BY <1>1 DEF Text
<1> HIDE DEF x, path, rest, whole, query, network
<1>6. 1 \in 1..Len(w) /\ x[1] = w[1]
  BY <1>1, <1>2
<1>7. Len(w) <= Len(x) /\ Len(x) \in Nat
  <2>1. Len(w) \in 0..Len(x) /\ Len(x) \in Nat
    BY <1>2, TextLength DEF EndsAt
  <2> QED BY <2>1
<1>8. is_relative_url(x)
  <2>1. x # <<>>
    <3> SUFFICES ASSUME x = <<>> PROVE FALSE
      OBVIOUS
    <3>1. Len(x) = 0
      BY EmptySeq
    <3> QED BY <1>1, <1>7, <3>1
  <2>2. CASE IsPath(w)
    <3>1. Slash(x, 1)
      BY <1>6, <2>2 DEF IsPath, Slash
    <3> QED BY <1>2, <2>1, <3>1, NoScheme
  <2> QED BY <2>2 DEF x
<1>9. ~IsPrefix(<<"/", "/">>, x)
  <2> SUFFICES ASSUME Len(x) >= 2, Slash(x, 1), Slash(x, 2) PROVE FALSE
    BY <1>2, TwoSlashes
  <2>1. Slash(w, 1)
    BY <1>6 DEF Slash
  <2>2. IsPath(w)
    BY <2>1
  <2>3. CASE Len(w) >= 2
    <3>1. 2 \in 1..Len(w)
      BY <1>1, <2>3
    <3>2. x[2] = w[2]
      BY <1>2, <3>1
    <3> QED BY <2>2, <2>3, <3>2 DEF IsPath, Slash
  <2>4. CASE ~(Len(w) >= 2)
    <3>1. Len(w) = 1
      <4>1. \A n \in Nat \ {0} : ~(n >= 2) => n = 1
        OBVIOUS
      <4> QED BY <1>1, <2>4, <4>1
    <3>2. Len(x) # 1
      <4>1. \A n \in Nat : n >= 2 => n # 1
        OBVIOUS
      <4> QED BY <1>7, <4>1
    <3>3. Marked(x, 1 + 1)
      BY <1>2, <3>1, <3>2 DEF EndsAt
    <3>4. Marked(x, 2)
      BY <3>3
    <3>5. "/" \notin {"?", "#"}
      BY Zenon
    <3> QED BY <3>4, <3>5, Zenon DEF Marked, Slash
  <2> QED BY <2>3, <2>4
<1>10. Resolve(x, url) = Origin(url) \o Simplified(whole) \o rest
  BY <1>2, <1>3, <1>8, <1>9
<1> QED BY <1>2, <1>4, <1>5, <1>10 DEF x, Slash

\* A URL of a server is made from the origin of what it is relative to.
LEMMA RootedAbsolute ==
  ASSUME NEW x \in Text, x # <<>>, Slash(x, 1), Len(x) >= 2 => ~Slash(x, 2), NEW url
  PROVE  to_absolute_url(x, url) = get_scheme_hostname_port(url) \o x
<1> DEFINE base_ == get_scheme_hostname_port(url)
           with_scheme == get_scheme(url) \o <<":">> \o x
           path == From(get_scheme_hostname_port_path(url), Len(base_) + 1)
           directory == IF Has(path, "/") THEN SubSeq(path, 1, RFind(path, <<"/">>, Len(path)))
                                          ELSE path \o <<"/">>
<1>1. to_absolute_url(x, url) =
        CASE ~is_relative_url(x) -> x
          [] IsPrefix(<<"/", "/">>, x) /\ Has(get_hostname(with_scheme), ".") -> with_scheme
          [] OTHER -> IF IsPrefix(<<"/">>, x) THEN base_ \o x
                      ELSE base_ \o normalize_path(directory \o x)
  BY Zenon DEF to_absolute_url
<1> HIDE DEF base_, with_scheme, path, directory
<1>2. is_relative_url(x)
  BY NoScheme
<1>3. ~IsPrefix(<<"/", "/">>, x)
  BY TwoSlashes
<1>4. IsPrefix(<<"/">>, x)
  <2> DEFINE s == <<"/">>
  <2>1. s \in Text /\ Len(s) = 1 /\ s[1] = "/"
    BY SlashAndDot, One
  <2>2. Len(x) \in Nat \ {0} /\ x[1] = "/"
    BY EmptySeq DEF Text, Slash
  <2> HIDE DEF s
  <2>3. Len(s) <= Len(x) /\ \A k \in 1..Len(s) : s[k] = x[k]
    BY <2>1, <2>2
  <2>4. IsPrefix(s, x)
    BY <2>1, <2>3, PrefixOf
  <2> QED BY <2>4 DEF s
<1> QED BY <1>1, <1>2, <1>3, <1>4 DEF base_

\* What a request path is unpatched to.
LEMMA Unpatching ==
  ASSUME NEW path, IsPath(path)
  PROVE  /\ path \in Text /\ Tail(path) \in Text
         /\ IsHttp(Tail(path)) <=> Patched(path)
         /\ unpatch_url(path) = IF Patched(path) THEN Tail(path) ELSE path
<1>1. path \in Text /\ path # <<>> /\ Slash(path, 1)
  BY DEF IsPath, Unmarked
<1>2. /\ Tail(path) \in Text /\ Len(path) \in Nat /\ Len(Tail(path)) = Len(path) - 1
      /\ \A i \in 1..Len(Tail(path)) : Tail(path)[i] = path[i + 1]
  BY <1>1, TextLength, HeadTailProperties DEF Text
<1> DEFINE tail == Tail(path)
<1> HIDE DEF tail
<1>3. /\ tail \in Text /\ Len(path) \in Nat /\ Len(tail) = Len(path) - 1
      /\ \A i \in 1..Len(tail) : tail[i] = path[i + 1]
  BY <1>2 DEF tail
<1>4. Len(tail) >= 2 <=> Len(path) >= 3
  BY <1>3
<1>5. Len(tail) >= 2 => tail[1] = path[2] /\ tail[2] = path[3]
  <2> SUFFICES ASSUME Len(tail) >= 2 PROVE tail[1] = path[2] /\ tail[2] = path[3]
    OBVIOUS
  <2>1. Len(tail) \in Nat
    BY <1>3, TextLength
  <2>2. 1 \in 1..Len(tail) /\ 2 \in 1..Len(tail) /\ 1 + 1 = 2 /\ 2 + 1 = 3
    BY <2>1
  <2> QED BY <1>3, <2>2
<1>6. IsHttp(tail) <=> Patched(path)
  BY <1>3, <1>4, <1>5, HttpBegins DEF Patched
<1>7. is_relative_url(path)
  BY <1>1, NoScheme
<1>8. unpatch_url(path) = IF Patched(path) THEN tail ELSE path
  BY <1>6, <1>7, Zenon DEF unpatch_url, IsHttp, tail
<1> QED BY <1>1, <1>3, <1>6, <1>8 DEF tail

-----------------------------------------------------------------------------
(* Redirects of the origin that is the server's base.                      *)

\* The local server has an origin.
LEMMA LocalIsOrigin == IsOrigin(Local)
<1>1. Local \in Text
  BY Marks
<1>2. /\ Len(Local) = 5 /\ Local[1] = "http" /\ Local[2] = ":" /\ Local[3] = "/" /\ Local[4] = "/"
      /\ Local[5] = "localhost"
  BY DEF Local
<1> HIDE DEF Local
<1>3. ~Slash(Local, 5) /\ ~Marked(Local, 5)
  BY <1>2, Zenon DEF Slash, Marked
<1>4. ASSUME NEW i \in 5..Len(Local) PROVE ~Slash(Local, i) /\ ~Marked(Local, i)
  <2>1. i = 5
    BY <1>2
  <2> QED BY <1>3, <2>1
<1>5. Begins(Local)
  BY <1>2, NotLetters DEF Begins, Slash
<1> QED BY <1>1, <1>4, <1>5 DEF IsOrigin

\* A text is its first token and the rest.
LEMMA FirstAndRest ==
  ASSUME NEW s \in Text, s # <<>>
  PROVE  s = <<s[1]>> \o Tail(s) /\ Tail(s) \in Text /\ Len(Tail(s)) = Len(s) - 1
<1> DEFINE one == <<s[1]>>
<1>1. Len(s) \in Nat \ {0} /\ 1 \in 1..Len(s)
  <2>1. Len(s) \in Nat \ {0}
    BY EmptySeq DEF Text
  <2> QED BY <2>1
<1>2. s[1] \in Token
  BY <1>1, ElementOfSeq DEF Text
<1>3. one \in Text /\ Len(one) = 1 /\ one[1] = s[1]
  BY <1>2, One
<1>4. Tail(s) \in Text /\ Len(Tail(s)) = Len(s) - 1 /\ Tail(s) = SubSeq(s, 2, Len(s))
  BY HeadTailProperties, TailIsSubSeq DEF Text
<1> HIDE DEF one
<1>5. Len(one) <= Len(s) /\ \A i \in 1..Len(one) : s[i] = one[i]
  <2>1. \A i \in 1..Len(one) : i = 1
    BY <1>3
  <2>2. \A i \in 1..Len(one) : s[i] = one[i]
    BY <1>3, <2>1
  <2> QED BY <1>1, <1>3, <2>2
<1>6. s = one \o From(s, Len(one) + 1)
  BY <1>3, <1>5, Continues
<1>7. From(s, Len(one) + 1) = Tail(s)
  <2>1. Len(one) + 1 = 2
    BY <1>3
  <2> QED BY <1>4, <2>1 DEF From
<1> QED BY <1>4, <1>6, <1>7 DEF one

\* A reference that begins with a slash is resolved to the origin and itself.
LEMMA ResolvedRoot ==
  ASSUME NEW w, IsPath(w), NEW q, IsQuery(q), NEW f, IsFragment(f), NEW url
  PROVE  Resolve(w \o q \o f, url) = Origin(url) \o w \o (q \o f)
<1>1. Unmarked(w) /\ w # <<>> /\ Slash(w, 1) /\ NoDots(w) /\ w \in Text
  BY DEF IsPath, Unmarked
<1>2. Resolve(w \o q \o f, url) =
        Origin(url) \o Simplified(IF Slash(w, 1) THEN w ELSE Directory(url) \o w) \o (q \o f)
  <2>1. Unmarked(w) /\ w # <<>>
    BY <1>1
  <2> QED BY <2>1, ResolvedPath
<1>3. Simplified(w) = w
  BY <1>1, SimplifiedSame
<1> QED BY <1>1, <1>2, <1>3

\* A reference with a path of the server is followed to a request for it, which
\* means the URL of the base with that path.
LEMMA ComesBack ==
  ASSUME NEW o, IsOrigin(o), NEW w, IsPath(w), ~Patched(w), NEW q, IsQuery(q),
         NEW f, IsFragment(f), NEW url
  PROVE  Origin(url) = Local =>
         LET target == Resolve(w \o q \o f, url)
         IN /\ PathOf(target) = w /\ Query(target) = q
            /\ WithQuery(to_absolute_url(unpatch_url(w), o), IF q = <<>> THEN <<>> ELSE Tail(q))
                 = o \o w \o q
<1> DEFINE target == Resolve(w \o q \o f, url)
<1>1. /\ w \in Text /\ Unmarked(w) /\ w # <<>> /\ Slash(w, 1) /\ NoDots(w)
      /\ (Len(w) >= 2 => ~Slash(w, 2)) /\ q \in Text /\ f \in Text /\ o \in Text
  BY DEF IsPath, Unmarked, IsQuery, IsFragment, IsOrigin
<1>0. Resolve(w \o q \o f, url) = Origin(url) \o w \o (q \o f)
  BY ResolvedRoot
<1> SUFFICES ASSUME Origin(url) = Local
             PROVE  /\ PathOf(target) = w /\ Query(target) = q
                    /\ WithQuery(to_absolute_url(unpatch_url(w), o),
                                 IF q = <<>> THEN <<>> ELSE Tail(q)) = o \o w \o q
  OBVIOUS
<1>2. target = Local \o w \o q \o f
  <2>1. target = Local \o w \o (q \o f)
    BY <1>0
  <2> DEFINE lw == Local \o w
  <2>2. lw \in Text
    BY <1>1, Marks, Joined
  <2> HIDE DEF target
  <2>3. target = lw \o (q \o f)
    BY <2>1
  <2> HIDE DEF lw
  <2>4. lw \o q \o f = lw \o (q \o f)
    BY <1>1, <2>2, JoinedAlike
  <2>5. target = lw \o q \o f
    BY <2>3, <2>4
  <2> QED BY <2>5 DEF lw
<1> HIDE DEF target
<1>3. PathOf(target) = w /\ Query(target) = q
  <2>1. Parts(Local, w, q, f)
    BY <1>1, LocalIsOrigin DEF Parts
  <2>2. PathOf(target) = (IF w = <<>> THEN <<"/">> ELSE w) /\ Query(target) = q
    <3>1. LET x == Local \o w \o q \o f
          IN PathOf(x) = (IF w = <<>> THEN <<"/">> ELSE w) /\ Query(x) = q
      BY <2>1, UrlParts
    <3> QED BY <1>2, <3>1, Zenon
  <2> QED BY <1>1, <2>2
<1>4. unpatch_url(w) = w
  BY Unpatching
<1>5. get_scheme_hostname_port(o) = o
  <2>1. o \o <<>> = o
    BY <1>1, ConcatEmptySeq DEF Text
  <2>2. get_scheme_hostname_port(o \o <<>>) = o
    BY Marks, OriginFound
  <2> QED BY <2>1, <2>2
<1>6. to_absolute_url(w, o) = o \o w
  BY <1>1, <1>5, RootedAbsolute
<1> DEFINE ow == o \o w
<1>7. ow \in Text
  BY <1>1, Joined
<1> HIDE DEF ow
<1>8. WithQuery(ow, IF q = <<>> THEN <<>> ELSE Tail(q)) = ow \o q
  <2>1. CASE q = <<>>
    <3>1. ow \o <<>> = ow
      BY <1>7, ConcatEmptySeq DEF Text
    <3> QED BY <2>1, <3>1 DEF WithQuery
  <2>2. CASE q # <<>>
    <3>1. q = <<q[1]>> \o Tail(q) /\ Tail(q) \in Text /\ Len(Tail(q)) = Len(q) - 1
      BY <1>1, <2>2, FirstAndRest
    <3>2. q[1] = "?" /\ Len(q) >= 2
      BY <2>2 DEF IsQuery
    <3>3. Tail(q) # <<>>
      <4> SUFFICES ASSUME Tail(q) = <<>> PROVE FALSE
        OBVIOUS
      <4>1. Len(Tail(q)) = 0
        BY EmptySeq
      <4>2. Len(q) \in Nat
        BY <1>1, TextLength
      <4> QED BY <3>1, <3>2, <4>1, <4>2
    <3> DEFINE mark == <<"?">>
               rest == Tail(q)
    <3>4. mark \in Text /\ q = mark \o rest /\ rest \in Text
      BY <3>1, <3>2, Marks
    <3>5. WithQuery(ow, rest) = ow \o mark \o rest
      BY <3>3 DEF WithQuery
    <3> HIDE DEF mark, rest
    <3>6. WithQuery(ow, rest) = ow \o q
      BY <1>7, <3>4, <3>5, JoinedAlike
    <3> QED BY <2>2, <3>6 DEF rest
  <2> QED BY <2>1, <2>2
<1> QED BY <1>3, <1>4, <1>6, <1>8 DEF ow, target

-----------------------------------------------------------------------------
(* Requests of the browser.                                                *)

\* The origin of a web site: its host consists of words with separators in
\* between, and is not the local server.
Foreign(o) ==
  /\ IsOrigin(o) /\ o # Local /\ Web(o, 1)
  /\ ~Separates(o, 5) /\ ~Separates(o, Len(o))
  /\ \A i \in 5..Len(o) - 1 : Separates(o, i) <=> ~Separates(o, i + 1)

\* The path of a request: one of the site that was started with, or behind a
\* slash the URL of another host with its path.
Proper(path) ==
  /\ IsPath(path)
  /\ Patched(path) =>
       \E o, t : Foreign(o) /\ IsPath(t) /\ ~Patched(t) /\ path = <<"/">> \o (o \o t)

\* What may follow a directory: a relative path, or what remains of the URL of
\* another origin behind the server's base.
Remainder(w) ==
  /\ Unmarked(w) /\ NoDots(w) /\ w # <<>> /\ ~Slash(w, 1)
  /\ Dot(w, 1) => Len(w) >= 2 /\ ~Slash(w, 2) /\ ~Dot(w, 2)
  /\ ~(Len(w) >= 2 /\ w[1] \in {"http", "https"} /\ w[2] = ":")

\* The directory of a path.
LEMMA DirectoryOf ==
  ASSUME NEW url \in Text, NEW path, IsPath(path), PathOf(url) = path
  PROVE  \E n \in 1..Len(path) : Slash(path, n) /\ Directory(url) = SubSeq(path, 1, n)
                                 /\ \A i \in 1..Len(path) : Slash(path, i) => i <= n
<1>1. path \in Text /\ Slash(path, 1) /\ path # <<>>
  BY DEF IsPath, Unmarked
<1>2. Len(path) \in Nat \ {0} /\ "/" \in Token
  BY <1>1, EmptySeq, SlashAndDot DEF Text
<1> DEFINE found == {i \in Matches(path, <<"/">>) : i <= Len(path)}
<1>3. \A i : i \in Matches(path, <<"/">>) <=> i \in 1..Len(path) /\ Slash(path, i)
  BY <1>1, <1>2, TokenMatches DEF Slash
<1>4. \A i : i \in found <=> i \in 1..Len(path) /\ Slash(path, i)
  BY <1>2, <1>3
<1>5. RFind(path, <<"/">>, Len(path)) = IF found = {} THEN 0 ELSE Max(found)
  BY DEF RFind
<1> HIDE DEF found
<1>6. 1 \in found
  <2>1. 1 \in 1..Len(path)
    BY <1>2
  <2> QED BY <1>1, <1>4, <2>1
<1>7. found \in SUBSET (1..Len(path)) /\ found # {} /\ Len(path) \in Nat
  BY <1>2, <1>4, <1>6
<1>8. Max(found) \in found /\ \A i \in found : i <= Max(found)
  BY <1>7, MaxIsGreatest
<1>9. Directory(url) = SubSeq(path, 1, Max(found))
  BY <1>5, <1>7 DEF Directory
<1> QED BY <1>4, <1>8, <1>9

\* A path stays one when it ends in its directory and a remainder follows.
LEMMA Appended ==
  ASSUME NEW P, IsPath(P), NEW n \in 1..Len(P), Slash(P, n), NEW R, Remainder(R)
  PROVE  LET X == SubSeq(P, 1, n) \o R
         IN /\ IsPath(X) /\ n < Len(X)
            /\ \A i \in 1..n : X[i] = P[i]
            /\ Patched(X) => n >= 3 /\ Patched(P)
<1> DEFINE X == SubSeq(P, 1, n) \o R
           D == SubSeq(P, 1, n)
<1>1. /\ P \in Text /\ Unmarked(P) /\ Slash(P, 1) /\ NoDots(P) /\ (Len(P) >= 2 => ~Slash(P, 2))
      /\ R \in Text /\ Unmarked(R) /\ NoDots(R) /\ R # <<>> /\ ~Slash(R, 1)
      /\ (Dot(R, 1) => Len(R) >= 2 /\ ~Slash(R, 2) /\ ~Dot(R, 2))
  BY DEF IsPath, Unmarked, Remainder
<1>2. Len(P) \in Nat \ {0} /\ Len(R) \in Nat \ {0} /\ n \in Nat \ {0} /\ n <= Len(P)
  <2>1. Len(P) \in Nat /\ Len(R) \in Nat
    BY <1>1, TextLength
  <2>2. Len(R) # 0
    BY <1>1, EmptySeq DEF Text
  <2> QED BY <2>1, <2>2
<1>3. D \in Text /\ Len(D) = n /\ \A i \in 1..n : D[i] = P[i]
  <2>1. n \in 0..Len(P)
    BY <1>2
  <2> QED BY <1>1, <2>1, Divided
<1>4. /\ X \in Text /\ Len(X) = n + Len(R)
      /\ \A i \in 1..n : X[i] = P[i]
      /\ \A i \in 1..Len(R) : X[n + i] = R[i]
  <2> HIDE DEF D
  <2>1. /\ D \o R \in Text /\ Len(D \o R) = Len(D) + Len(R)
        /\ \A i \in 1..Len(D) : (D \o R)[i] = D[i]
        /\ \A i \in 1..Len(R) : (D \o R)[Len(D) + i] = R[i]
    BY <1>1, <1>3, JoinedAt
  <2>2. X = D \o R
    BY DEF D
  <2> QED BY <1>3, <2>1, <2>2
<1> HIDE DEF X, D
<1>5. n < Len(X) /\ Len(X) \in Nat
  BY <1>2, <1>4
<1>6. ASSUME NEW i \in 1..Len(X)
      PROVE  i \in 1..n \/ \E k \in 1..Len(R) : i = n + k
  <2>1. CASE i <= n
    BY <2>1
  <2>2. CASE ~(i <= n)
    <3>1. i - n \in 1..Len(R) /\ i = n + (i - n)
      BY <1>2, <1>4, <2>2
    <3> QED BY <3>1
  <2> QED BY <2>1, <2>2
<1>7. 1 \in 1..n /\ 1 \in 1..Len(R) /\ X[1] = P[1] /\ X[n + 1] = R[1]
  <2>1. 1 \in 1..n /\ 1 \in 1..Len(R)
    BY <1>2
  <2> QED BY <1>4, <2>1
<1>8. Unmarked(X)
  <2>1. ASSUME NEW i \in 1..Len(X) PROVE ~Marked(X, i)
    <3>1. CASE i \in 1..n
      <4>1. i \in 1..Len(P)
        BY <1>2, <3>1
      <4> QED BY <1>1, <1>4, <3>1, <4>1 DEF Unmarked, Marked
    <3>2. ASSUME NEW k \in 1..Len(R), i = n + k PROVE ~Marked(X, i)
      <4>1. X[i] = R[k] /\ ~Marked(R, k)
        BY <1>1, <1>4, <3>2 DEF Unmarked
      <4> QED BY <4>1 DEF Marked
    <3> QED BY <1>6, <3>1, <3>2
  <2> QED BY <1>4, <2>1 DEF Unmarked
<1>9. ~Slash(X, n + 1)
  BY <1>1, <1>7 DEF Slash
<1>10. NoDots(X)
  <2>1. ASSUME NEW i \in 1..Len(X) - 1, Slash(X, i), Dot(X, i + 1)
        PROVE  i + 2 <= Len(X) /\ ~Slash(X, i + 2) /\ ~Dot(X, i + 2)
    <3>0. i \in Nat /\ i >= 1 /\ i <= Len(X) - 1 /\ n \in Nat /\ Len(X) \in Nat
      BY <1>2, <1>5
    <3>1. CASE i < n
      <4>1. i \in 1..n /\ i + 1 \in 1..n /\ i \in 1..Len(P) - 1
        BY <1>2, <3>0, <3>1
      <4>2. Slash(P, i) /\ Dot(P, i + 1)
        BY <1>4, <2>1, <4>1 DEF Slash, Dot
      <4>3. i + 2 <= Len(P) /\ ~Slash(P, i + 2) /\ ~Dot(P, i + 2)
        BY <1>1, <4>1, <4>2 DEF NoDots
      <4>4. i + 1 # n
        <5> SUFFICES ASSUME i + 1 = n PROVE FALSE
          OBVIOUS
        <5>1. P[n] = "/" /\ P[n] = "."
          BY <4>2 DEF Slash, Dot
        <5>2. "/" # "."
          BY Zenon
        <5> QED BY <5>1, <5>2, Zenon
      <4>5. i + 2 \in 1..n
        BY <3>0, <3>1, <4>4
      <4>6. X[i + 2] = P[i + 2]
        BY <1>4, <4>5
      <4>7. i + 2 <= Len(X)
        BY <1>5, <3>0, <4>5
      <4> QED BY <4>3, <4>6, <4>7 DEF Slash, Dot
    <3>2. CASE i = n
      <4>1. Dot(R, 1)
        BY <1>7, <2>1, <3>2 DEF Dot
      <4>2. Len(R) >= 2 /\ ~Slash(R, 2) /\ ~Dot(R, 2)
        BY <1>1, <4>1
      <4>3. 2 \in 1..Len(R) /\ i + 2 <= Len(X)
        BY <1>2, <1>4, <3>2, <4>2
      <4>4. X[i + 2] = R[2]
        BY <1>4, <3>2, <4>3
      <4> QED BY <4>2, <4>3, <4>4 DEF Slash, Dot
    <3>3. CASE n < i
      <4> DEFINE k == i - n
      <4>1. /\ k \in 1..Len(R) - 1 /\ k \in 1..Len(R) /\ k + 1 \in 1..Len(R)
            /\ n + k = i /\ n + (k + 1) = i + 1 /\ n + (k + 2) = i + 2 /\ k \in Nat
        BY <1>2, <1>4, <3>0, <3>3
      <4> HIDE DEF k
      <4>2. X[i] = R[k] /\ X[i + 1] = R[k + 1]
        BY <1>4, <4>1
      <4>3. Slash(R, k) /\ Dot(R, k + 1)
        BY <2>1, <4>2 DEF Slash, Dot
      <4>4. k + 2 <= Len(R) /\ ~Slash(R, k + 2) /\ ~Dot(R, k + 2)
        BY <1>1, <4>1, <4>3 DEF NoDots
      <4>5. k + 2 \in 1..Len(R) /\ i + 2 <= Len(X)
        <5>1. Len(X) = n + Len(R) /\ i = n + k /\ k + 2 <= Len(R)
          BY <1>4, <4>1, <4>4
        <5> QED BY <1>2, <4>1, <5>1
      <4>6. X[i + 2] = R[k + 2]
        BY <1>4, <4>1, <4>5
      <4> QED BY <4>4, <4>5, <4>6 DEF Slash, Dot
    <3> QED BY <3>0, <3>1, <3>2, <3>3
  <2> QED BY <2>1 DEF NoDots
<1>11. ~Slash(X, 2)
  <2>1. CASE n = 1
    BY <1>9, <2>1
  <2>2. CASE n # 1
    <3>1. 2 \in 1..n /\ Len(P) >= 2
      BY <1>2, <2>2
    <3>2. X[2] = P[2]
      BY <1>4, <3>1
    <3> QED BY <1>1, <3>1, <3>2 DEF Slash
  <2> QED BY <2>1, <2>2
<1>12. IsPath(X)
  <2>1. X # <<>>
    <3> SUFFICES ASSUME X = <<>> PROVE FALSE
      OBVIOUS
    <3>1. Len(X) = 0
      BY EmptySeq
    <3> QED BY <1>2, <1>5, <3>1
  <2>2. Slash(X, 1)
    BY <1>1, <1>7 DEF Slash
  <2> QED BY <1>8, <1>10, <1>11, <2>1, <2>2 DEF IsPath
<1>13. ASSUME Patched(X) PROVE n >= 3 /\ Patched(P)
  <2>1. X[2] \in {"http", "https"} /\ X[3] = ":"
    BY <1>13 DEF Patched
  <2>2. n # 1
    <3> SUFFICES ASSUME n = 1 PROVE FALSE
      OBVIOUS
    <3>1. Len(R) >= 2 /\ 1 \in 1..Len(R) /\ 2 \in 1..Len(R) /\ n + 1 = 2 /\ n + 2 = 3
      BY <1>2, <1>4, <1>13 DEF Patched
    <3>2. X[2] = R[1] /\ X[3] = R[2]
      BY <1>4, <3>1
    <3> QED BY <2>1, <3>1, <3>2 DEF Remainder
  <2>3. n # 2
    <3> SUFFICES ASSUME n = 2 PROVE FALSE
      OBVIOUS
    <3>1. Slash(P, 2) /\ Len(P) >= 2
      BY <1>2
    <3> QED BY <1>1, <3>1
  <2>4. n >= 3 /\ 2 \in 1..n /\ 3 \in 1..n /\ Len(P) >= 3
    BY <1>2, <2>2, <2>3
  <2>5. X[2] = P[2] /\ X[3] = P[3]
    BY <1>4, <2>4
  <2> QED BY <2>1, <2>4, <2>5 DEF Patched
<1> QED BY <1>4, <1>5, <1>12, <1>13 DEF X

\* A URL with a path has that path and its origin, whatever the query.
LEMMA RequestUrl ==
  ASSUME NEW o, IsOrigin(o), NEW path, IsPath(path), NEW query \in Text
  PROVE  LET url == WithQuery(o \o path, query)
         IN /\ url \in Text /\ Begins(url)
            /\ get_scheme_hostname_port(url) = o /\ Origin(url) = o
            /\ get_scheme_hostname_port_path(url) = o \o path /\ PathOf(url) = path
<1> DEFINE op == o \o path
           rest == IF query = <<>> THEN <<>> ELSE <<"?">> \o query
           url == op \o rest
<1>1. path \in Text /\ path # <<>> /\ Slash(path, 1) /\ Unmarked(path) /\ o \in Text
  BY DEF IsPath, Unmarked, IsOrigin
<1>2. op \in Text /\ rest \in Text
  BY <1>1, Marks, Joined
<1>3. WithQuery(op, query) = url
  <2>1. CASE query = <<>>
    <3>1. op \o <<>> = op
      BY <1>2, ConcatEmptySeq DEF Text
    <3> QED BY <2>1, <3>1 DEF WithQuery
  <2>2. CASE query # <<>>
    <3> DEFINE mark == <<"?">>
    <3>1. mark \in Text
      BY Marks
    <3>2. rest = mark \o query
      BY <2>2
    <3>3. WithQuery(op, query) = op \o mark \o query
      BY <2>2 DEF WithQuery
    <3> HIDE DEF mark, op, rest
    <3>4. op \o mark \o query = op \o (mark \o query)
      BY <1>2, <3>1, JoinedAlike
    <3> QED BY <3>2, <3>3, <3>4
  <2> QED BY <2>1, <2>2
<1>4. rest = <<>> \/ Marked(rest, 1)
  <2>1. CASE query = <<>>
    BY <2>1
  <2>2. CASE query # <<>>
    <3> DEFINE mark == <<"?">>
    <3>1. mark \in Text /\ Len(mark) = 1 /\ mark[1] = "?"
      BY Marks
    <3> HIDE DEF mark
    <3>2. \A i \in 1..Len(mark) : (mark \o query)[i] = mark[i]
      BY <3>1, JoinedAt
    <3>3. (mark \o query)[1] = "?"
      <4>1. 1 \in 1..Len(mark)
        BY <3>1
      <4>2. (mark \o query)[1] = mark[1]
        BY <3>2, <4>1
      <4> QED BY <3>1, <4>2
    <3>4. rest = mark \o query
      BY <2>2 DEF mark
    <3> QED BY <3>3, <3>4 DEF Marked
  <2> QED BY <2>1, <2>2
<1> HIDE DEF rest
<1>5. \A i \in 1..Len(o) : ~Marked(o, i)
  BY OriginUnmarked
<1>6. /\ Len(o) \in Nat /\ Len(path) \in Nat \ {0} /\ Len(op) = Len(o) + Len(path)
      /\ \A i \in 1..Len(o) : op[i] = o[i]
      /\ \A i \in 1..Len(path) : op[Len(o) + i] = path[i]
  <2>1. Len(path) # 0
    BY <1>1, EmptySeq DEF Text
  <2>2. o \in Text /\ path \in Text
    BY <1>1
  <2>3. /\ Len(o) \in Nat /\ Len(path) \in Nat /\ Len(op) = Len(o) + Len(path)
        /\ \A i \in 1..Len(o) : op[i] = o[i]
        /\ \A i \in 1..Len(path) : op[Len(o) + i] = path[i]
    BY <2>2, JoinedAt
  <2> QED BY <2>1, <2>3
<1> HIDE DEF op
<1>7. ASSUME NEW i \in 1..Len(op) PROVE ~Marked(op, i)
  <2>1. CASE i \in 1..Len(o)
    BY <1>5, <1>6, <2>1 DEF Marked
  <2>2. CASE ~(i \in 1..Len(o))
    <3> DEFINE k == i - Len(o)
    <3>1. k \in 1..Len(path) /\ Len(o) + k = i
      BY <1>6, <2>2
    <3> HIDE DEF k
    <3>2. op[i] = path[k] /\ ~Marked(path, k)
      BY <1>1, <1>6, <3>1 DEF Unmarked
    <3> QED BY <3>2 DEF Marked
  <2> QED BY <2>1, <2>2
<1>8. /\ url \in Text /\ Len(op) \in Nat /\ Len(rest) \in Nat /\ Len(url) = Len(op) + Len(rest)
      /\ \A i \in 1..Len(op) : url[i] = op[i]
      /\ \A i \in 1..Len(rest) : url[Len(op) + i] = rest[i]
  BY <1>2, JoinedAt
<1>9. SubSeq(url, 1, Len(op)) = op
  BY <1>2, TakenApart
<1> HIDE DEF url
<1>10. EndsAt(url, Len(op))
  <2>1. Len(op) \in 0..Len(url)
    BY <1>8
  <2>2. \A i \in 1..Len(op) : ~Marked(url, i)
    BY <1>7, <1>8 DEF Marked
  <2>3. Len(op) = Len(url) \/ Marked(url, Len(op) + 1)
    <3>1. CASE rest = <<>>
      <4>1. Len(rest) = 0
        BY <3>1, EmptySeq
      <4> QED BY <1>8, <4>1
    <3>2. CASE rest # <<>>
      <4>1. Len(rest) # 0
        BY <1>2, <3>2, EmptySeq DEF Text
      <4>2. 1 \in 1..Len(rest)
        BY <1>8, <4>1
      <4>3. url[Len(op) + 1] = rest[1]
        BY <1>8, <4>2
      <4> QED BY <1>4, <3>2, <4>3 DEF Marked
    <3> QED BY <3>1, <3>2
  <2> QED BY <2>1, <2>2, <2>3 DEF EndsAt
<1>11. get_scheme_hostname_port_path(url) = op
  BY <1>8, <1>9, <1>10, PathEnds
<1>12. get_scheme_hostname_port(op) = o
  BY <1>1, <1>5, OriginFound DEF op
<1>13. Origin(url) = o
  BY <1>11, <1>12 DEF Origin
<1>14. From(op, Len(o) + 1) = path
  BY <1>1, TakenApart DEF op
<1>15. PathOf(url) = path
  BY <1>1, <1>11, <1>13, <1>14 DEF PathOf
<1>16. Begins(url) /\ get_scheme_hostname_port(url) = o
  <2> DEFINE t == path \o rest
  <2>1. url = o \o t
    <3>1. o \o path \o rest = o \o (path \o rest)
      <4>1. o \in Text /\ path \in Text /\ rest \in Text
        BY <1>1, <1>2
      <4> HIDE DEF rest
      <4> QED BY <4>1, JoinedAlike
    <3> QED BY <3>1 DEF url, op
  <2>2. t \in Text /\ t[1] = path[1]
    <3>1. t \in Text /\ \A i \in 1..Len(path) : t[i] = path[i]
      BY <1>1, <1>2, JoinedAt
    <3>2. 1 \in 1..Len(path)
      BY <1>6
    <3> QED BY <3>1, <3>2
  <2> HIDE DEF t
  <2>3. Slash(t, 1)
    BY <1>1, <2>2 DEF Slash
  <2> QED BY <2>1, <2>2, <2>3, OriginFound
<1> QED BY <1>3, <1>8, <1>11, <1>13, <1>15, <1>16 DEF op

-----------------------------------------------------------------------------
(* URLs that begin like the base.                                          *)

\* The base of the server: an origin, or the reference of an initial redirect.
Based(B) == Foreign(B) \/ (B \in Text /\ B # <<>> /\ is_relative_url(B) /\ ~Web(B, 1))

\* What a URL of an origin begins with is at most the origin.
LEMMA BaseInOrigin ==
  ASSUME NEW o, Foreign(o), NEW t \in Text, t = <<>> \/ Slash(t, 1),
         NEW B, Based(B), IsPrefix(B, o \o t)
  PROVE  /\ Foreign(B) /\ Len(B) \in Nat /\ Len(o) \in Nat /\ Len(B) <= Len(o)
         /\ \A i \in 1..Len(B) : o[i] = B[i]
<1> DEFINE A == o \o t
<1>1. o \in Text /\ Begins(o) /\ B \in Text
  BY DEF IsOrigin, Based, Foreign
<1>2. /\ A \in Text /\ Len(A) = Len(o) + Len(t) /\ Len(o) \in Nat /\ Len(t) \in Nat
      /\ \A i \in 1..Len(o) : A[i] = o[i]
      /\ \A i \in 1..Len(t) : A[Len(o) + i] = t[i]
  BY <1>1, JoinedAt
<1>3. Len(B) <= Len(A) /\ Len(B) \in Nat /\ \A i \in 1..Len(B) : A[i] = B[i]
  <2>1. A \in Text /\ IsPrefix(B, A)
    BY <1>2
  <2> HIDE DEF A
  <2>2. Len(B) <= Len(A) /\ \A i \in 1..Len(B) : A[i] = B[i]
    BY <1>1, <2>1, Continues
  <2> QED BY <1>1, <2>2, TextLength
<1> HIDE DEF A
<1>4. Foreign(B)
  <2> SUFFICES ASSUME B # <<>>, ~Web(B, 1) PROVE FALSE
    BY DEF Based
  <2>1. Len(B) # 0
    BY <1>1, EmptySeq DEF Text
  <2>2. 1 \in 1..Len(B) /\ 1 \in 1..Len(o)
    BY <1>1, <1>2, <1>3, <2>1 DEF Begins
  <2>3. A[1] = B[1] /\ A[1] = o[1]
    BY <1>2, <1>3, <2>2
  <2>4. Web(B, 1)
    BY <2>3 DEF Web, Foreign
  <2> QED BY <2>4
<1>5. Len(B) <= Len(o)
  <2> SUFFICES ASSUME ~(Len(B) <= Len(o)) PROVE FALSE
    OBVIOUS
  <2>1. Len(o) >= 5
    BY <1>1 DEF Begins
  <2>2. Len(t) >= 1 /\ 1 \in 1..Len(t) /\ Len(o) + 1 \in 5..Len(B) /\ Len(o) + 1 \in 1..Len(B)
    BY <1>2, <1>3, <2>1
  <2>3. t # <<>>
    BY <2>2, EmptySeq
  <2>4. A[Len(o) + 1] = t[1] /\ A[Len(o) + 1] = B[Len(o) + 1]
    BY <1>2, <1>3, <2>2
  <2>5. Slash(B, Len(o) + 1)
    BY <2>3, <2>4 DEF Slash
  <2> QED BY <1>4, <2>2, <2>5 DEF Foreign, IsOrigin
<1>6. ASSUME NEW i \in 1..Len(B) PROVE o[i] = B[i]
  <2>1. i \in 1..Len(o)
    BY <1>2, <1>3, <1>5
  <2> QED BY <1>2, <1>3, <2>1
<1> QED BY <1>2, <1>3, <1>4, <1>5, <1>6

\* The path of a server's root.
LEMMA RootIsPath == IsPath(<<"/">>) /\ ~Patched(<<"/">>)
<1> DEFINE s == <<"/">>
<1>1. s \in Text /\ Len(s) = 1 /\ s[1] = "/"
  BY SlashAndDot, One
<1>2. ~Patched(s)
  <2> HIDE DEF s
  <2> QED BY <1>1 DEF Patched
<1>3. Slash(s, 1) /\ ~Marked(s, 1)
  BY Zenon DEF Slash, Marked, s
<1> HIDE DEF s
<1>4. \A i \in 1..Len(s) : i = 1
  BY <1>1
<1>5. Unmarked(s)
  BY <1>1, <1>3, <1>4 DEF Unmarked
<1>6. NoDots(s)
  <2>1. \A i \in 1..Len(s) - 1 : FALSE
    BY <1>1
  <2> QED BY <2>1 DEF NoDots
<1>7. s # <<>>
  <2> SUFFICES ASSUME s = <<>> PROVE FALSE
    OBVIOUS
  <2>1. Len(s) = 0
    BY EmptySeq
  <2> QED BY <1>1, <2>1
<1>8. IsPath(s)
  BY <1>1, <1>3, <1>5, <1>6, <1>7 DEF IsPath
<1> QED BY <1>2, <1>8 DEF s

\* Relative to its own origin a URL is its path with the rest.
LEMMA SameOrigin ==
  ASSUME NEW o, NEW p, NEW q, NEW f, Parts(o, p, q, f)
  PROVE  to_relative_url(o \o p \o q \o f, o) = (IF p = <<>> THEN <<"/">> ELSE p) \o q \o f
<1> DEFINE t == p \o q \o f
           A == o \o t
           url == o \o p \o q \o f
<1>1. /\ o \in Text /\ p \in Text /\ q \in Text /\ f \in Text
      /\ ((p # <<>> /\ Slash(p, 1)) \/ (p = <<>> /\ q = <<>> /\ f = <<>>))
  BY DEF Parts, IsOrigin, Unmarked, IsQuery, IsFragment
<1>2. url = A
  BY UrlParts
<1>3. t \in Text /\ Len(t) \in Nat /\ Len(p) \in Nat /\ Len(p) <= Len(t)
  <2> DEFINE pq == p \o q
  <2>1. pq \in Text /\ Len(p) \in Nat /\ Len(q) \in Nat /\ Len(pq) = Len(p) + Len(q)
    BY <1>1, JoinedAt
  <2> HIDE DEF pq
  <2>2. pq \o f \in Text /\ Len(f) \in Nat /\ Len(pq \o f) = Len(pq) + Len(f)
    BY <1>1, <2>1, JoinedAt
  <2>3. t = pq \o f
    BY DEF pq
  <2> HIDE DEF t
  <2> QED BY <2>1, <2>2, <2>3
<1> HIDE DEF t
<1>4. /\ A \in Text /\ Len(o) \in Nat /\ Len(A) = Len(o) + Len(t)
      /\ \A i \in 1..Len(o) : A[i] = o[i]
  BY <1>1, <1>3, JoinedAt, SMTT(30)
<1>5. From(A, Len(o) + 1) = t
  BY <1>1, <1>3, TakenApart
<1>6. A = o <=> p = <<>>
  <2>1. CASE p = <<>> /\ q = <<>> /\ f = <<>>
    <3>1. <<>> \o <<>> = <<>> /\ o \o <<>> = o
      BY <1>1, Marks, ConcatEmptySeq DEF Text
    <3> QED BY <2>1, <3>1 DEF t
  <2>2. CASE p # <<>>
    <3>1. Len(p) # 0
      BY <1>1, <2>2, EmptySeq DEF Text
    <3>2. Len(A) # Len(o)
      BY <1>3, <1>4, <3>1
    <3> QED BY <2>2, <3>2
  <2> QED BY <1>1, <2>1, <2>2
<1> HIDE DEF A, url
<1>7. IsPrefix(o, A)
  <2>1. Len(o) <= Len(A) /\ \A k \in 1..Len(o) : o[k] = A[k]
    BY <1>3, <1>4
  <2> QED BY <1>1, <1>4, <2>1, PrefixOf
<1>8. to_relative_url(A, o) = IF A = o THEN <<"/">> ELSE t
  BY <1>5, <1>7 DEF to_relative_url
<1>9. CASE p = <<>>
  <2> DEFINE s == <<"/">>
  <2>1. s \in Text
    BY Marks
  <2> HIDE DEF s
  <2>2. s \o <<>> = s
    BY <2>1, ConcatEmptySeq DEF Text
  <2>3. s \o q \o f = s
    BY <1>1, <1>9, <2>2
  <2> QED BY <1>2, <1>6, <1>8, <1>9, <2>3 DEF s, url
<1>10. CASE p # <<>>
  BY <1>2, <1>6, <1>8, <1>10 DEF t, url
<1> QED BY <1>9, <1>10

\* Relative to a shorter base it is what remains of the host with the rest.
LEMMA OtherOrigin ==
  ASSUME NEW o, NEW p, NEW q, NEW f, Parts(o, p, q, f), Foreign(o),
         NEW B, Foreign(B), Len(B) < Len(o), \A i \in 1..Len(B) : o[i] = B[i]
  PROVE  LET R == From(o, Len(B) + 1) \o p
         IN /\ Remainder(R) /\ Separates(R, 1)
            /\ to_relative_url(o \o p \o q \o f, B) = R \o q \o f
            /\ IsPrefix(B, o \o p \o q \o f)
<1> DEFINE d == From(o, Len(B) + 1)
           R == d \o p
           url == o \o p \o q \o f
<1>1. /\ o \in Text /\ p \in Text /\ q \in Text /\ f \in Text /\ B \in Text
      /\ ((p # <<>> /\ Slash(p, 1)) \/ (p = <<>> /\ q = <<>> /\ f = <<>>))
      /\ Unmarked(p) /\ NoDots(p) /\ IsQuery(q) /\ IsFragment(f) /\ IsOrigin(o)
  BY DEF Foreign, Parts, IsOrigin, Unmarked, IsQuery, IsFragment
<1>2. Len(B) \in Nat /\ Len(o) \in Nat /\ Len(B) >= 5 /\ Len(B) <= Len(o) - 1
  <2>1. Len(B) \in Nat /\ Len(o) \in Nat
    BY <1>1, TextLength
  <2>2. Len(B) >= 5
    BY DEF Foreign, IsOrigin, Begins
  <2> QED BY <2>1, <2>2
<1>3. /\ d \in Text /\ Len(d) = Len(o) - Len(B) /\ o = B \o d
      /\ \A i \in 1..Len(o) - Len(B) : d[i] = o[Len(B) + i]
  <2>1. Len(B) <= Len(o)
    BY <1>2
  <2>2. o = B \o d
    BY <1>1, <2>1, Continues
  <2>3. Len(B) \in 0..Len(o)
    BY <1>2
  <2>4. /\ d \in Text /\ Len(d) = Len(o) - Len(B)
        /\ \A i \in 1..Len(o) - Len(B) : d[i] = o[Len(B) + i]
    BY <1>1, <2>3, Divided
  <2> QED BY <2>2, <2>4
<1> HIDE DEF d
<1>4. /\ R \in Text /\ Len(p) \in Nat /\ Len(R) = Len(d) + Len(p)
      /\ \A i \in 1..Len(d) : R[i] = d[i]
      /\ \A i \in 1..Len(p) : R[Len(d) + i] = p[i]
  <2>1. d \in Text /\ p \in Text
    BY <1>1, <1>3
  <2> QED BY <2>1, JoinedAt
<1> HIDE DEF R
<1>5. Separates(d, 1) /\ Len(d) >= 2 /\ ~Separates(d, 2) /\ Len(d) \in Nat
  <2>1. /\ Len(B) \in 5..Len(o) - 1 /\ Len(B) \in 1..Len(B) /\ Len(B) \in 1..Len(o)
        /\ 1 \in 1..Len(o) - Len(B) /\ Len(d) \in Nat
    BY <1>2, <1>3
  <2>2. o[Len(B)] = B[Len(B)] /\ d[1] = o[Len(B) + 1]
    BY <1>3, <2>1
  <2>3. ~Separates(o, Len(B))
    BY <2>2 DEF Foreign, Separates
  <2>4. Separates(o, Len(B) + 1)
    BY <2>1, <2>3 DEF Foreign
  <2>5. Separates(d, 1)
    BY <2>2, <2>4 DEF Separates
  <2>6. Len(o) # Len(B) + 1
    BY <2>4 DEF Foreign
  <2>7. /\ Len(d) >= 2 /\ Len(B) + 1 \in 5..Len(o) - 1 /\ 2 \in 1..Len(o) - Len(B)
        /\ Len(B) + 1 + 1 = Len(B) + 2
    BY <1>2, <1>3, <2>6
  <2>8. ~Separates(o, Len(B) + 1 + 1)
    BY <2>4, <2>7 DEF Foreign
  <2>9. d[2] = o[Len(B) + 2]
    BY <1>3, <2>7
  <2>10. ~Separates(d, 2)
    BY <2>7, <2>8, <2>9 DEF Separates
  <2> QED BY <2>1, <2>5, <2>7, <2>10
<1>6. ASSUME NEW i \in 1..Len(d) PROVE ~Slash(R, i) /\ ~Marked(R, i)
  <2>1. i \in 1..Len(o) - Len(B) /\ Len(B) + i \in 5..Len(o)
    BY <1>2, <1>3
  <2>2. R[i] = o[Len(B) + i]
    BY <1>3, <1>4, <2>1
  <2>3. ~Slash(o, Len(B) + i) /\ ~Marked(o, Len(B) + i)
    BY <1>1, <2>1 DEF IsOrigin
  <2> QED BY <2>2, <2>3 DEF Slash, Marked
<1>7. ASSUME NEW i \in 1..Len(R)
      PROVE  i \in 1..Len(d) \/ \E k \in 1..Len(p) : i = Len(d) + k
  <2>1. CASE i <= Len(d)
    BY <2>1
  <2>2. CASE ~(i <= Len(d))
    <3>1. i - Len(d) \in 1..Len(p) /\ i = Len(d) + (i - Len(d))
      BY <1>4, <1>5, <2>2
    <3> QED BY <3>1
  <2> QED BY <2>1, <2>2
<1>8. Unmarked(R)
  <2>1. ASSUME NEW i \in 1..Len(R), NEW k \in 1..Len(p), i = Len(d) + k PROVE ~Marked(R, i)
    <3>1. R[i] = p[k] /\ ~Marked(p, k)
      BY <1>1, <1>4, <2>1 DEF Unmarked
    <3> QED BY <3>1 DEF Marked
  <2> QED BY <1>4, <1>6, <1>7, <2>1 DEF Unmarked
<1>9. NoDots(R)
  <2>1. ASSUME NEW i \in 1..Len(R) - 1, Slash(R, i), Dot(R, i + 1)
        PROVE  i + 2 <= Len(R) /\ ~Slash(R, i + 2) /\ ~Dot(R, i + 2)
    <3>1. i \in 1..Len(R) /\ i \in Nat
      BY <1>4, <1>5
    <3>2. PICK k \in 1..Len(p) : i = Len(d) + k
      BY <1>6, <1>7, <2>1, <3>1
    <3>3. /\ k \in 1..Len(p) - 1 /\ k + 1 \in 1..Len(p) /\ k \in Nat
          /\ Len(d) + (k + 1) = i + 1 /\ Len(d) + (k + 2) = i + 2
      BY <1>4, <1>5, <3>1, <3>2
    <3>4. R[i] = p[k] /\ R[i + 1] = p[k + 1]
      BY <1>4, <3>2, <3>3
    <3>5. Slash(p, k) /\ Dot(p, k + 1)
      BY <2>1, <3>4 DEF Slash, Dot
    <3>6. k + 2 <= Len(p) /\ ~Slash(p, k + 2) /\ ~Dot(p, k + 2)
      BY <1>1, <3>3, <3>5 DEF NoDots
    <3>7. k + 2 \in 1..Len(p)
      BY <1>4, <3>3, <3>6, SMTT(30)
    <3>8. R[i + 2] = p[k + 2]
      BY <1>4, <3>3, <3>7
    <3>9. i + 2 <= Len(R)
      <4>1. Len(R) = Len(d) + Len(p) /\ i = Len(d) + k /\ k + 2 <= Len(p)
        BY <1>4, <3>2, <3>6
      <4> QED BY <1>4, <1>5, <3>3, <4>1
    <3> QED BY <3>6, <3>8, <3>9 DEF Slash, Dot
  <2> QED BY <2>1 DEF NoDots
<1>10. Remainder(R) /\ Separates(R, 1)
  <2>1. 1 \in 1..Len(d) /\ 2 \in 1..Len(d) /\ Len(R) >= 2
    BY <1>4, <1>5
  <2>2. R[1] = d[1] /\ R[2] = d[2] /\ ~Slash(R, 2)
    BY <1>4, <1>6, <2>1
  <2>3. Separates(R, 1) /\ ~Separates(R, 2)
    BY <1>5, <2>2 DEF Separates
  <2>4. ~Dot(R, 2) /\ ~Slash(R, 1) /\ ~(R[1] \in {"http", "https"})
    <3>1. "/" \notin {".", ":"} /\ "http" \notin {".", ":"} /\ "https" \notin {".", ":"}
      BY Zenon
    <3> QED BY <2>3, <3>1, Zenon DEF Separates, Dot, Slash
  <2>5. R # <<>>
    <3> SUFFICES ASSUME R = <<>> PROVE FALSE
      OBVIOUS
    <3>1. Len(R) = 0
      BY EmptySeq
    <3> QED BY <2>1, <3>1
  <2> QED BY <1>8, <1>9, <2>1, <2>2, <2>3, <2>4, <2>5 DEF Remainder
<1>11. url = B \o (R \o q \o f) /\ R \o q \o f \in Text
  <2>1. o \o p = B \o R
    <3>1. B \o d \o p = B \o (d \o p)
      <4>1. B \in Text /\ d \in Text /\ p \in Text
        BY <1>1, <1>3
      <4> QED BY <4>1, JoinedAlike
    <3> QED BY <1>3, <3>1 DEF R
  <2> DEFINE Rq == R \o q
  <2>2. Rq \in Text
    BY <1>1, <1>4, Joined
  <2>3. B \o R \o q = B \o Rq
    BY <1>1, <1>4, JoinedAlike
  <2> HIDE DEF Rq
  <2>4. B \o Rq \o f = B \o (Rq \o f) /\ Rq \o f \in Text
    BY <1>1, <2>2, JoinedAlike, Joined
  <2>5. url = B \o Rq \o f
    BY <2>1, <2>3
  <2> QED BY <2>4, <2>5 DEF Rq
<1> DEFINE rest == R \o q \o f
           whole == B \o rest
<1> HIDE DEF rest, url
<1>12. url = whole /\ rest \in Text
  BY <1>11 DEF rest
<1>13. /\ whole \in Text /\ Len(rest) \in Nat /\ Len(whole) = Len(B) + Len(rest)
       /\ \A i \in 1..Len(B) : whole[i] = B[i]
  BY <1>1, <1>12, JoinedAt
<1>14. From(whole, Len(B) + 1) = rest
  BY <1>1, <1>12, TakenApart
<1> HIDE DEF whole
<1>15. IsPrefix(B, whole)
  <2>1. Len(B) <= Len(whole) /\ \A k \in 1..Len(B) : B[k] = whole[k]
    BY <1>2, <1>13
  <2> QED BY <1>1, <1>13, <2>1, PrefixOf
<1>16. whole # B
  <2>1. Len(rest) >= 1
    <3>1. IsQuery(q) /\ IsFragment(f) /\ Unmarked(R)
      BY <1>1, <1>8
    <3>2. EndsAt(R \o q \o f, Len(R)) /\ R \o q \o f \in Text
      BY <3>1, PathCut
    <3>3. Len(R) \in 0..Len(rest)
      BY <3>2 DEF EndsAt, rest
    <3> QED BY <1>4, <1>5, <1>13, <3>3
  <2>2. Len(whole) # Len(B)
    BY <1>2, <1>13, <2>1
  <2> QED BY <2>2
<1>17. to_relative_url(whole, B) = rest
  BY <1>14, <1>15, <1>16 DEF to_relative_url
<1> QED BY <1>10, <1>12, <1>15, <1>17 DEF url, rest, R, d

\* URLs of web sites with all their parts, whose paths are no patched ones.
Site(o, p, q, f) == Parts(o, p, q, f) /\ Foreign(o) /\ (p = <<>> \/ (IsPath(p) /\ ~Patched(p)))

\* The path of a request stays a proper one when a remainder of a host is
\* resolved relative to it.
LEMMA StaysProper ==
  ASSUME NEW url \in Text, Proper(PathOf(url)), NEW R, Remainder(R)
  PROVE  Proper(Directory(url) \o R)
<1> DEFINE P == PathOf(url)
           D == Directory(url)
           X == D \o R
<1>1. IsPath(P) /\ P \in Text /\ Len(P) \in Nat
  <2>1. IsPath(P)
    BY DEF Proper
  <2> HIDE DEF P
  <2> QED BY <2>1, TextLength DEF IsPath, Unmarked
<1>2. PICK n \in 1..Len(P) : /\ Slash(P, n) /\ D = SubSeq(P, 1, n)
                             /\ \A i \in 1..Len(P) : Slash(P, i) => i <= n
  BY <1>1, DirectoryOf
<1>3. Proper(P)
  OBVIOUS
<1> HIDE DEF P, D
<1>4. /\ IsPath(X) /\ n < Len(X) /\ (\A i \in 1..n : X[i] = P[i])
      /\ (Patched(X) => n >= 3 /\ Patched(P))
  BY <1>1, <1>2, Appended
<1> HIDE DEF X
<1>5. ASSUME Patched(X)
      PROVE  \E o, t : Foreign(o) /\ IsPath(t) /\ ~Patched(t) /\ X = <<"/">> \o (o \o t)
  <2>1. PICK o, t : Foreign(o) /\ IsPath(t) /\ ~Patched(t) /\ P = <<"/">> \o (o \o t)
    BY <1>3, <1>4, <1>5 DEF Proper
  <2> DEFINE s == <<"/">>
             so == s \o o
  <2>2. s \in Text /\ o \in Text /\ t \in Text /\ R \in Text /\ Slash(t, 1) /\ t # <<>>
    BY <2>1, Marks DEF Foreign, IsOrigin, IsPath, Unmarked, Remainder
  <2>3. P = so \o t
    <3>1. s \o o \o t = s \o (o \o t)
      BY <2>2, JoinedAlike
    <3> QED BY <2>1, <3>1
  <2> HIDE DEF s
  <2>4. so \in Text
    BY <2>2, Joined
  <2> HIDE DEF so
  <2>5. /\ Len(so) \in Nat /\ Len(t) \in Nat /\ Len(P) = Len(so) + Len(t)
        /\ \A i \in 1..Len(so) : P[i] = so[i]
        /\ \A i \in 1..Len(t) : P[Len(so) + i] = t[i]
    <3>1. /\ Len(so) \in Nat /\ Len(t) \in Nat /\ Len(so \o t) = Len(so) + Len(t)
          /\ \A i \in 1..Len(so) : (so \o t)[i] = so[i]
          /\ \A i \in 1..Len(t) : (so \o t)[Len(so) + i] = t[i]
      BY <2>2, <2>4, JoinedAt
    <3> QED BY <2>3, <3>1
  <2>6. 1 \in 1..Len(t) /\ Len(so) + 1 \in 1..Len(P)
    <3>1. Len(t) # 0
      BY <2>2, EmptySeq DEF Text
    <3> QED BY <2>5, <3>1
  <2>7. Len(so) + 1 <= n
    <3>1. P[Len(so) + 1] = t[1]
      BY <2>5, <2>6
    <3>2. Slash(P, Len(so) + 1)
      BY <2>2, <3>1 DEF Slash
    <3> QED BY <1>2, <2>6, <3>2
  <2> DEFINE m == n - Len(so)
             E == SubSeq(t, 1, m)
  <2>8. m \in 1..Len(t) /\ m \in 0..Len(t) /\ Len(so) + m = n /\ n \in Nat /\ n <= Len(P)
    BY <1>1, <1>2, <2>5, <2>7
  <2> HIDE DEF m
  <2>9. Slash(t, m)
    <3>1. P[Len(so) + m] = t[m]
      BY <2>5, <2>8
    <3> QED BY <1>2, <2>8, <3>1 DEF Slash
  <2>10. E \in Text /\ Len(E) = m /\ \A i \in 1..m : E[i] = t[i]
    BY <2>2, <2>8, Divided
  <2>11. IsPath(E \o R) /\ (Patched(E \o R) => Patched(t))
    BY <2>1, <2>8, <2>9, Appended
  <2> HIDE DEF E
  <2>12. D = so \o E
    <3> DEFINE soE == so \o E
    <3>1. /\ soE \in Text /\ Len(soE) = Len(so) + Len(E)
          /\ \A i \in 1..Len(so) : soE[i] = so[i]
          /\ \A i \in 1..Len(E) : soE[Len(so) + i] = E[i]
      BY <2>4, <2>10, JoinedAt
    <3> HIDE DEF soE
    <3>2. n \in 0..Len(P)
      BY <2>5, <2>8
    <3>3. D \in Text /\ Len(D) = n /\ \A i \in 1..n : D[i] = P[i]
      BY <1>1, <1>2, <3>2, Divided
    <3>4. Len(soE) = n
      BY <2>8, <2>10, <3>1
    <3>5. ASSUME NEW i \in 1..n PROVE soE[i] = D[i]
      <4>1. CASE i \in 1..Len(so)
        BY <2>5, <3>1, <3>3, <4>1
      <4>2. CASE ~(i \in 1..Len(so))
        <5> DEFINE k == i - Len(so)
        <5>1. k \in 1..m /\ k \in 1..Len(t) /\ k \in 1..Len(E) /\ Len(so) + k = i
          BY <2>5, <2>8, <2>10, <4>2
        <5> HIDE DEF k
        <5>2. soE[i] = E[k] /\ E[k] = t[k] /\ P[i] = t[k]
          BY <2>5, <2>10, <3>1, <5>1
        <5> QED BY <3>3, <5>2
      <4> QED BY <4>1, <4>2
    <3>6. D = soE
      BY <3>1, <3>3, <3>4, <3>5, SeqEqual DEF Text
    <3> QED BY <3>6 DEF soE
  <2> DEFINE ER == E \o R
  <2>13. X = so \o ER /\ ER \in Text
    <3>1. so \o E \o R = so \o (E \o R)
      <4>1. so \in Text /\ E \in Text /\ R \in Text
        BY <2>2, <2>4, <2>10
      <4> HIDE DEF so
      <4> QED BY <4>1, JoinedAlike
    <3> QED BY <2>2, <2>10, <2>12, <3>1, Joined DEF X
  <2> HIDE DEF ER
  <2>14. X = s \o (o \o ER)
    <3>1. s \o o \o ER = s \o (o \o ER)
      <4>1. s \in Text /\ o \in Text /\ ER \in Text
        BY <2>2, <2>13
      <4> QED BY <4>1, JoinedAlike
    <3> QED BY <2>13, <3>1 DEF so
  <2>15. IsPath(ER) /\ ~Patched(ER)
    BY <2>1, <2>11 DEF ER
  <2> QED BY <2>1, <2>14, <2>15 DEF s
<1> QED BY <1>4, <1>5 DEF X, D, Proper

\* A reference that is absolute is not changed but for its path.
LEMMA ResolvedWhole ==
  ASSUME NEW x \in Text, Begins(x), NEW url
  PROVE  Resolve(x, url) = Absolute(x)
<1> DEFINE path == get_scheme_hostname_port_path(x)
           rest == From(x, Len(path) + 1)
           directory == SubSeq(PathOf(url), 1, RFind(PathOf(url), <<"/">>, Len(PathOf(url))))
           whole == IF Head(path) = "/" THEN path ELSE directory \o path
           query == IF Has(x, "?") THEN <<>> ELSE Query(url)
           network == get_scheme(url) \o <<":">> \o x
<1>1. Resolve(x, url) =
        CASE ~is_relative_url(x) -> Absolute(x)
          [] IsPrefix(<<"/", "/">>, x) -> Absolute(network)
          [] path = <<>> -> Origin(url) \o PathOf(url) \o query \o rest
          [] OTHER -> Origin(url) \o Simplified(whole) \o rest
  BY Zenon DEF Resolve
<1> HIDE DEF path, rest, directory, whole, query, network
<1>2. Len(x) >= 5 /\ Letters(x[1]) /\ Len(x) \in Nat
  BY TextLength DEF Begins
<1>3. ~Slash(x, 1) /\ ~Marked(x, 1)
  BY <1>2, NotLetters
<1>4. ~is_relative_url(x)
  BY HostFound
<1>5. ~IsPrefix(<<"/", "/">>, x)
  BY <1>3, TwoSlashes
<1>6. path # <<>>
  <2>1. PICK n : EndsAt(x, n)
    BY PathEnds
  <2>2. path = SubSeq(x, 1, n)
    BY <2>1, PathEnds DEF path
  <2>3. n \in 0..Len(x) /\ (n = Len(x) \/ Marked(x, n + 1))
    BY <2>1 DEF EndsAt
  <2>4. n # 0
    <3> SUFFICES ASSUME n = 0 PROVE FALSE
      OBVIOUS
    <3>1. n # Len(x) /\ n + 1 = 1
      BY <1>2
    <3> QED BY <1>3, <2>3, <3>1
  <2>5. Len(path) = n
    BY <2>2, <2>3, Divided
  <2> SUFFICES ASSUME path = <<>> PROVE FALSE
    OBVIOUS
  <2> QED BY <2>4, <2>5, EmptySeq
<1> QED BY <1>1, <1>4, <1>5, <1>6

\* A redirect to a URL of a web site leads, if it leads the browser back to the
\* local server, to a request for that URL, or the URL is of another origin
\* that begins like the base.
LEMMA RedirectReturns ==
  ASSUME NEW o, NEW p, NEW q, NEW f, Site(o, p, q, f), NEW B, Based(B),
         NEW url \in Text, Proper(PathOf(url))
  PROVE  LET A == o \o p \o q \o f
             target == Resolve(to_relative_url(A, B), url)
             query == IF Query(target) = <<>> THEN <<>> ELSE Tail(Query(target))
         IN Origin(url) = Local /\ Origin(target) = Local =>
              /\ Proper(PathOf(target))
              /\ \/ WithQuery(to_absolute_url(unpatch_url(PathOf(target)), B), query)
                      = Origin(A) \o PathOf(A) \o Query(A)
                 \/ IsPrefix(B, A) /\ Origin(A) # B
<1> DEFINE A == o \o p \o q \o f
           target == Resolve(to_relative_url(A, B), url)
           query == IF Query(target) = <<>> THEN <<>> ELSE Tail(Query(target))
           t == p \o q \o f
           w == IF p = <<>> THEN <<"/">> ELSE p
<1>1. /\ Parts(o, p, q, f) /\ IsOrigin(o) /\ Foreign(o) /\ IsQuery(q) /\ IsFragment(f)
      /\ o \in Text /\ p \in Text /\ q \in Text /\ f \in Text
  BY DEF Site, Parts, IsOrigin, Unmarked, IsQuery, IsFragment
<1>2. /\ A \in Text /\ A = o \o t /\ Begins(A) /\ Origin(A) = o
      /\ PathOf(A) = w /\ Query(A) = q /\ Absolute(A) = A
  <2>1. /\ A \in Text /\ Begins(A) /\ A = o \o (p \o q \o f)
        /\ ~is_relative_url(A)
        /\ get_scheme_hostname_port(A) = o /\ Origin(A) = o
        /\ PathOf(A) = (IF p = <<>> THEN <<"/">> ELSE p)
        /\ Query(A) = q
        /\ Absolute(A) = A
    BY <1>1, UrlParts, SMTT(30)
  <2> QED BY <2>1
<1>3. t \in Text /\ (t = <<>> \/ Slash(t, 1))
  <2>1. t \in Text
    BY <1>1, Joined
  <2>2. CASE p = <<>> /\ q = <<>> /\ f = <<>>
    <3>1. <<>> \o <<>> = <<>>
      BY Marks, ConcatEmptySeq DEF Text
    <3> QED BY <2>1, <2>2, <3>1
  <2>3. CASE p # <<>> /\ Slash(p, 1) /\ Unmarked(p)
    <3>1. \A i \in 1..Len(p) : t[i] = p[i]
      BY <1>1, <2>3, PathCut
    <3>2. Len(p) \in Nat \ {0}
      BY <1>1, <2>3, EmptySeq DEF Text
    <3>3. 1 \in 1..Len(p)
      BY <3>2
    <3> HIDE DEF t
    <3> QED BY <2>1, <2>3, <3>1, <3>3 DEF Slash
  <2> QED BY <1>1, <2>2, <2>3 DEF Parts
<1>4. IsPath(w) /\ ~Patched(w)
  BY RootIsPath DEF Site
<1> HIDE DEF A, t, w
<1>5. CASE ~IsPrefix(B, A)
  <2>1. to_relative_url(A, B) = A
    BY <1>5 DEF to_relative_url
  <2>2. target = A
    BY <1>2, <2>1, ResolvedWhole
  <2>3. Origin(target) # Local
    BY <1>1, <1>2, <2>2 DEF Foreign
  <2> QED BY <2>3 DEF A
<1>6. CASE IsPrefix(B, A)
  <2>1. /\ Foreign(B) /\ Len(B) \in Nat /\ Len(o) \in Nat /\ Len(B) <= Len(o)
        /\ \A i \in 1..Len(B) : o[i] = B[i]
    BY <1>1, <1>2, <1>3, <1>6, BaseInOrigin
  <2>2. B \in Text
    BY <2>1 DEF Foreign, IsOrigin
  <2>3. CASE Len(B) = Len(o)
    <3>1. B = o
      BY <1>1, <2>1, <2>2, <2>3, SeqEqual DEF Text
    <3>2. to_relative_url(A, B) = w \o q \o f
      BY <1>1, <3>1, SameOrigin DEF A, w
    <3>3. Origin(url) = Local =>
            LET x == Resolve(w \o q \o f, url)
            IN /\ PathOf(x) = w /\ Query(x) = q
               /\ WithQuery(to_absolute_url(unpatch_url(w), o), IF q = <<>> THEN <<>> ELSE Tail(q))
                    = o \o w \o q
      BY <1>1, <1>4, ComesBack
    <3>4. Proper(w)
      BY <1>4 DEF Proper
    <3>5. target = Resolve(w \o q \o f, url)
      BY <3>2
    <3> HIDE DEF target
    <3>6. Origin(url) = Local =>
            /\ Proper(PathOf(target))
            /\ WithQuery(to_absolute_url(unpatch_url(PathOf(target)), B), query)
                 = Origin(A) \o PathOf(A) \o Query(A)
      BY <1>2, <3>1, <3>3, <3>4, <3>5
    <3> QED BY <3>6 DEF target, A
  <2>4. CASE Len(B) # Len(o)
    <3> DEFINE R == From(o, Len(B) + 1) \o p
               X == Directory(url) \o R
    <3>1. Len(B) < Len(o)
      BY <2>1, <2>4
    <3>2. Remainder(R) /\ Separates(R, 1) /\ to_relative_url(A, B) = R \o q \o f
      BY <1>1, <2>1, <3>1, OtherOrigin, SMTT(30) DEF A
    <3> HIDE DEF R
    <3>3. Proper(X)
      BY <3>2, StaysProper
    <3>4. Unmarked(R) /\ R # <<>> /\ ~Slash(R, 1) /\ R \in Text
      BY <3>2 DEF Remainder, Unmarked
    <3> DEFINE x == R \o q \o f
    <3>5. is_relative_url(x)
      <4>1. /\ x \in Text /\ EndsAt(x, Len(R)) /\ \A i \in 1..Len(R) : x[i] = R[i]
        BY <1>1, <3>4, PathCut
      <4> HIDE DEF x
      <4>2. Len(R) \in Nat \ {0} /\ Len(R) \in 0..Len(x)
        BY <3>4, <4>1, EmptySeq DEF EndsAt, Text
      <4>3. 1 \in 1..Len(R) /\ Len(x) # 0
        BY <4>2
      <4>4. Separates(x, 1)
        BY <3>2, <4>1, <4>3 DEF Separates
      <4>5. x # <<>>
        BY <4>3, EmptySeq
      <4> QED BY <4>1, <4>4, <4>5, NoScheme
    <3>14. Resolve(R \o q \o f, url) =
            Origin(url) \o Simplified(IF Slash(R, 1) THEN R ELSE Directory(url) \o R) \o (q \o f)
      <4>1. /\ Unmarked(R) /\ R # <<>> /\ IsQuery(q) /\ IsFragment(f)
            /\ (IsPath(R) \/ (~Slash(R, 1) /\ is_relative_url(R \o q \o f)))
        BY <1>1, <3>4, <3>5
      <4> QED BY <4>1, ResolvedPath
    <3> HIDE DEF X
    <3>6. IsPath(X) /\ X \in Text /\ X # <<>> /\ Slash(X, 1) /\ Unmarked(X) /\ NoDots(X)
      BY <3>3 DEF Proper, IsPath, Unmarked
    <3>7. Simplified(X) = X
      BY <3>6, SimplifiedSame
    <3>8. target = Origin(url) \o X \o (q \o f)
      BY <3>2, <3>4, <3>7, <3>14 DEF X
    <3>9. LET whole == Local \o X \o q \o f IN PathOf(whole) = (IF X = <<>> THEN <<"/">> ELSE X)
      <4>1. Parts(Local, X, q, f)
        BY <1>1, <3>6, LocalIsOrigin DEF Parts
      <4> QED BY <4>1, UrlParts
    <3> DEFINE lx == Local \o X
    <3>10. lx \in Text
      BY <3>6, Marks, Joined
    <3> HIDE DEF lx, target
    <3>11. lx \o q \o f = lx \o (q \o f)
      BY <1>1, <3>10, JoinedAlike
    <3>12. Origin(url) = Local => PathOf(target) = X
      BY <3>6, <3>8, <3>9, <3>11 DEF lx
    <3>13. Origin(A) # B
      BY <1>2, <2>4
    <3> QED BY <1>6, <3>3, <3>12, <3>13 DEF target, A
  <2> QED BY <2>3, <2>4
<1> QED BY <1>5, <1>6

\* Of a URL that is absolute, to_absolute_url makes itself.
LEMMA AbsoluteStays ==
  ASSUME NEW x \in Text, Begins(x), NEW url
  PROVE  to_absolute_url(x, url) = x
<1> DEFINE base_ == get_scheme_hostname_port(url)
           with_scheme == get_scheme(url) \o <<":">> \o x
           path == From(get_scheme_hostname_port_path(url), Len(base_) + 1)
           directory == IF Has(path, "/") THEN SubSeq(path, 1, RFind(path, <<"/">>, Len(path)))
                                          ELSE path \o <<"/">>
<1>1. to_absolute_url(x, url) =
        CASE ~is_relative_url(x) -> x
          [] IsPrefix(<<"/", "/">>, x) /\ Has(get_hostname(with_scheme), ".") -> with_scheme
          [] OTHER -> IF IsPrefix(<<"/">>, x) THEN base_ \o x
                      ELSE base_ \o normalize_path(directory \o x)
  BY Zenon DEF to_absolute_url
<1> HIDE DEF base_, with_scheme, path, directory
<1>2. ~is_relative_url(x)
  BY HostFound
<1>3. ~Slash(x, 1)
  BY NotLetters DEF Begins
<1>4. ~IsPrefix(<<"/", "/">>, x)
  BY <1>3, TwoSlashes
<1> QED BY <1>1, <1>2, <1>4

\* A URL of a web site that is requested: its origin, a path that is no patched
\* one, and a query.
Requested(url, o, p, query) ==
  /\ Foreign(o) /\ IsPath(p) /\ ~Patched(p) /\ query \in Text
  /\ url = WithQuery(o \o p, query)

\* With transport security an origin stays one.
LEMMA Upgraded ==
  ASSUME NEW o, Foreign(o), NEW t \in Text
  PROVE  LET s == <<"https">> \o Tail(o)
         IN Foreign(s) /\ <<"https">> \o Tail(o \o t) = s \o t
<1> DEFINE h == <<"https">>
           s == h \o Tail(o)
<1>1. h \in Text /\ Len(h) = 1 /\ h[1] = "https"
  <2>1. "https" \in Token
    BY DEF Token
  <2> QED BY <2>1, One
<1> HIDE DEF h
<1>2. /\ IsOrigin(o) /\ o \in Text /\ Begins(o) /\ Len(o) >= 5 /\ Len(o) \in Nat
      /\ ~Separates(o, 5) /\ ~Separates(o, Len(o))
      /\ \A i \in 5..Len(o) : ~Slash(o, i) /\ ~Marked(o, i)
      /\ \A i \in 5..Len(o) - 1 : Separates(o, i) <=> ~Separates(o, i + 1)
  <2>1. IsOrigin(o) /\ o \in Text /\ Begins(o)
    BY DEF Foreign, IsOrigin
  <2> QED BY <2>1, TextLength DEF Foreign, IsOrigin, Begins
<1>3. o # <<>>
  <2> SUFFICES ASSUME o = <<>> PROVE FALSE
    OBVIOUS
  <2>1. Len(o) = 0
    BY EmptySeq
  <2> QED BY <1>2, <2>1
<1>4. /\ Tail(o) \in Text /\ Len(Tail(o)) = Len(o) - 1
      /\ \A i \in 1..Len(Tail(o)) : Tail(o)[i] = o[i + 1]
  BY <1>2, <1>3, HeadTailProperties DEF Text
<1> DEFINE r == Tail(o)
<1> HIDE DEF r
<1>5. r \in Text /\ Len(r) = Len(o) - 1 /\ \A i \in 1..Len(r) : r[i] = o[i + 1]
  BY <1>4 DEF r
<1>6. /\ s \in Text /\ Len(s) = Len(h) + Len(r)
      /\ \A i \in 1..Len(h) : s[i] = h[i]
      /\ \A i \in 1..Len(r) : s[Len(h) + i] = r[i]
  <2>1. /\ h \o r \in Text /\ Len(h \o r) = Len(h) + Len(r)
        /\ \A i \in 1..Len(h) : (h \o r)[i] = h[i]
        /\ \A i \in 1..Len(r) : (h \o r)[Len(h) + i] = r[i]
    BY <1>1, <1>5, JoinedAt
  <2>2. s = h \o r
    BY DEF r
  <2> HIDE DEF s
  <2> QED BY <2>1, <2>2
<1> HIDE DEF s
<1>7. Len(s) = Len(o) /\ Len(s) \in Nat
  BY <1>1, <1>2, <1>5, <1>6
<1>8. ASSUME NEW i \in 2..Len(o) PROVE s[i] = o[i]
  <2> DEFINE k == i - 1
  <2>1. k \in 1..Len(r) /\ Len(h) + k = i /\ k + 1 = i
    BY <1>1, <1>2, <1>5
  <2> HIDE DEF k
  <2>2. s[Len(h) + k] = r[k] /\ r[k] = o[k + 1]
    BY <1>5, <1>6, <2>1
  <2> QED BY <2>1, <2>2
<1>9. s[1] = "https"
  <2>1. 1 \in 1..Len(h)
    BY <1>1
  <2> QED BY <1>1, <1>6, <2>1
<1>10. /\ s[2] = o[2] /\ s[3] = o[3] /\ s[4] = o[4] /\ s[5] = o[5] /\ s[Len(o)] = o[Len(o)]
  <2>1. 2 \in 2..Len(o) /\ 3 \in 2..Len(o) /\ 4 \in 2..Len(o) /\ 5 \in 2..Len(o) /\ Len(o) \in 2..Len(o)
    BY <1>2
  <2> QED BY <1>8, <2>1
<1>11. Begins(s)
  BY <1>2, <1>7, <1>9, <1>10, NotLetters DEF Begins, Slash
<1>12. \A i \in 5..Len(s) : ~Slash(s, i) /\ ~Marked(s, i)
  <2>1. ASSUME NEW i \in 5..Len(s) PROVE ~Slash(s, i) /\ ~Marked(s, i)
    <3>1. i \in 2..Len(o) /\ i \in 5..Len(o)
      BY <1>7
    <3> QED BY <1>2, <1>8, <3>1 DEF Slash, Marked
  <2> QED BY <2>1
<1>13. s # Local
  <2>1. Local[1] = "http" /\ "http" # "https"
    BY DEF Local
  <2> QED BY <1>9, <2>1
<1>14. ~Separates(s, 5) /\ ~Separates(s, Len(s))
  BY <1>2, <1>7, <1>10 DEF Separates
<1>15. ASSUME NEW i \in 5..Len(s) - 1
       PROVE  Separates(s, i) <=> ~Separates(s, i + 1)
  <2>1. i \in 2..Len(o) /\ i + 1 \in 2..Len(o) /\ i \in 5..Len(o) - 1
    BY <1>2, <1>7
  <2>2. s[i] = o[i] /\ s[i + 1] = o[i + 1]
    BY <1>8, <2>1
  <2>3. Separates(o, i) <=> ~Separates(o, i + 1)
    BY <1>2, <2>1
  <2> QED BY <2>2, <2>3 DEF Separates
<1>16. Foreign(s)
  <2>1. Web(s, 1)
    BY <1>9 DEF Web
  <2> QED BY <1>6, <1>11, <1>12, <1>13, <1>14, <1>15, <2>1 DEF Foreign, IsOrigin
<1>17. Tail(o \o t) = r \o t
  <2> DEFINE ot == o \o t
             rt == r \o t
  <2>1. /\ ot \in Text /\ Len(t) \in Nat /\ Len(ot) = Len(o) + Len(t)
        /\ \A i \in 1..Len(o) : ot[i] = o[i]
        /\ \A i \in 1..Len(t) : ot[Len(o) + i] = t[i]
    BY <1>2, JoinedAt
  <2>2. /\ rt \in Text /\ Len(rt) = Len(r) + Len(t)
        /\ \A i \in 1..Len(r) : rt[i] = r[i]
        /\ \A i \in 1..Len(t) : rt[Len(r) + i] = t[i]
    BY <1>5, JoinedAt
  <2> HIDE DEF ot, rt
  <2>3. ot # <<>>
    <3> SUFFICES ASSUME ot = <<>> PROVE FALSE
      OBVIOUS
    <3>1. Len(ot) = 0
      BY EmptySeq
    <3> QED BY <1>2, <2>1, <3>1
  <2>4. /\ Tail(ot) \in Text /\ Len(Tail(ot)) = Len(ot) - 1
        /\ \A i \in 1..Len(Tail(ot)) : Tail(ot)[i] = ot[i + 1]
    BY <2>1, <2>3, HeadTailProperties DEF Text
  <2> DEFINE u == Tail(ot)
  <2> HIDE DEF u
  <2>5. u \in Text /\ Len(u) = Len(ot) - 1 /\ \A i \in 1..Len(u) : u[i] = ot[i + 1]
    BY <2>4 DEF u
  <2>6. Len(u) = Len(rt) /\ Len(u) = Len(o) - 1 + Len(t)
    BY <1>2, <1>5, <2>1, <2>2, <2>5
  <2>7. ASSUME NEW i \in 1..Len(u) PROVE u[i] = rt[i]
    <3>1. u[i] = ot[i + 1]
      BY <2>5
    <3>2. CASE i <= Len(r)
      <4>1. i \in 1..Len(r) /\ i + 1 \in 1..Len(o)
        BY <1>2, <1>5, <3>2
      <4>2. rt[i] = r[i] /\ r[i] = o[i + 1] /\ ot[i + 1] = o[i + 1]
        BY <1>5, <2>1, <2>2, <4>1
      <4> QED BY <3>1, <4>2
    <3>3. CASE ~(i <= Len(r))
      <4> DEFINE k == i - Len(r)
      <4>1. k \in 1..Len(t) /\ Len(r) + k = i /\ Len(o) + k = i + 1
        BY <1>2, <1>5, <2>1, <2>6, <3>3
      <4> HIDE DEF k
      <4>2. rt[Len(r) + k] = t[k] /\ ot[Len(o) + k] = t[k]
        BY <2>1, <2>2, <4>1
      <4> QED BY <3>1, <4>1, <4>2
    <3> QED BY <3>2, <3>3
  <2>8. u = rt
    BY <2>2, <2>5, <2>6, <2>7, SeqEqual DEF Text
  <2> QED BY <2>8 DEF u, ot, rt
<1>18. h \o (r \o t) = s \o t
  <2>1. h \o r \o t = h \o (r \o t)
    BY <1>1, <1>5, JoinedAlike
  <2> QED BY <2>1 DEF s, r
<1> QED BY <1>16, <1>17, <1>18 DEF h, s

\* A text without dots behind a slash is not changed by normalize_path.
LEMMA NormalizedSame ==
  ASSUME NEW x \in Text, NoDots(x)
  PROVE  normalize_path(x) = x
<1>1. Len(x) \in Nat /\ Len(x) \in 0..Len(x)
  BY TextLength
<1>2. ASSUME NEW i \in 1..Len(x) - 1 PROVE ~(Slash(x, i) /\ Dot(x, i + 1) /\ i + 2 <= Len(x)
                                             /\ (Slash(x, i + 2) \/ Dot(x, i + 2)))
  BY DEF NoDots
<1> DEFINE first == [path |-> x, from |-> 1]
           dot == <<"/", ".", "/">>
           parent == <<"/", ".", ".">>
<1>3. /\ dot \in Text /\ Len(dot) = 3 /\ dot[1] = "/" /\ dot[2] = "." /\ dot[3] = "/"
      /\ parent \in Text /\ Len(parent) = 3 /\ parent[1] = "/" /\ parent[2] = "." /\ parent[3] = "."
  BY SlashAndDot DEF Text
<1> HIDE DEF dot, parent
<1>4. ASSUME NEW part \in {dot, parent}
      PROVE  Matches(x, part) = {}
  <2> SUFFICES ASSUME NEW i \in Matches(x, part) PROVE FALSE
    OBVIOUS
  <2>1. Len(part) = 3 /\ part[1] = "/" /\ part[2] = "." /\ part[3] \in {"/", "."}
    BY <1>3
  <2>2. i \in 1..Len(x) + 1 - Len(part) /\ SubSeq(x, i, i + Len(part) - 1) = part
    BY DEF Matches
  <2>3. i \in Nat \ {0} /\ i + 2 <= Len(x) /\ i + Len(part) - 1 = i + 2 /\ i + 2 \in Int
    BY <1>1, <2>1, <2>2
  <2>4. SubSeq(x, i, i + 2) = part
    BY <2>2, <2>3
  <2>5. \A k \in 1..i + 2 - i + 1 : SubSeq(x, i, i + 2)[k] = x[i + k - 1]
    BY <2>3, Cut
  <2>6. /\ 1 \in 1..i + 2 - i + 1 /\ 2 \in 1..i + 2 - i + 1 /\ 3 \in 1..i + 2 - i + 1
        /\ i + 1 - 1 = i /\ i + 2 - 1 = i + 1 /\ i + 3 - 1 = i + 2
        /\ i \in 1..Len(x) - 1
    BY <1>1, <2>3
  <2>7. part[1] = x[i] /\ part[2] = x[i + 1] /\ part[3] = x[i + 2]
    BY <2>4, <2>5, <2>6
  <2>8. Slash(x, i) /\ Dot(x, i + 1) /\ (Slash(x, i + 2) \/ Dot(x, i + 2))
    BY <2>1, <2>7 DEF Slash, Dot
  <2> QED BY <1>2, <2>3, <2>6, <2>8
<1>5. \A from : Find(x, dot, from) = 0 /\ Find(x, parent, from) = 0
  <2> SUFFICES ASSUME NEW from, NEW part \in {dot, parent} PROVE Find(x, part, from) = 0
    OBVIOUS
  <2>1. {i \in Matches(x, part) : i >= from} = {}
    BY <1>4
  <2> QED BY <2>1, Zenon DEF Find
<1>6. RemoveDot(first) = first
  <2>1. first.path = x
    OBVIOUS
  <2>2. Find(first.path, dot, first.from) = 0
    BY <1>5, <2>1
  <2> HIDE DEF first
  <2> QED BY <2>2, Zenon DEF RemoveDot, dot
<1>7. RemoveParent(x) = x
  <2>1. Find(x, parent, 1) = 0
    BY <1>5
  <2> QED BY <2>1, Zenon DEF RemoveParent, parent
<1>8. RemoveDots(x) = x
  <2>1. PICK after : /\ after[0] = first
                     /\ \A n \in 1..Len(x) : after[n] = RemoveDot(after[n - 1])
                     /\ RemoveDots(x) = after[Len(x)].path
    BY DotsSteps
  <2>2. first.path = x
    OBVIOUS
  <2> HIDE DEF first
  <2> DEFINE same == {first}
  <2>3. after[0] \in same /\ \A n \in 1..Len(x) : after[n - 1] \in same => after[n] \in same
    BY <1>6, <2>1
  <2> HIDE DEF same
  <2>4. \A n \in 0..Len(x) : after[n] \in same
    BY <1>1, <2>3, Stepping
  <2>5. after[Len(x)] \in same
    BY <1>1, <2>4
  <2> QED BY <2>1, <2>2, <2>5 DEF same
<1>9. RemoveParents(x) = x
  <2>1. PICK after : /\ after[0] = x
                     /\ \A n \in 1..Len(x) : after[n] = RemoveParent(after[n - 1])
                     /\ RemoveParents(x) = after[Len(x)]
    BY ParentsSteps
  <2> DEFINE same == {x}
  <2>2. after[0] \in same /\ \A n \in 1..Len(x) : after[n - 1] \in same => after[n] \in same
    BY <1>7, <2>1
  <2> HIDE DEF same
  <2>3. \A n \in 0..Len(x) : after[n] \in same
    BY <1>1, <2>2, Stepping
  <2>4. after[Len(x)] \in same
    BY <1>1, <2>3
  <2> QED BY <2>1, <2>4 DEF same
<1> QED BY <1>8, <1>9 DEF normalize_path

\* A query is appended with its mark.
LEMMA QueryAppended ==
  ASSUME NEW x \in Text, NEW query \in Text
  PROVE  LET rest == IF query = <<>> THEN <<>> ELSE <<"?">> \o query
         IN rest \in Text /\ WithQuery(x, query) = x \o rest
<1> DEFINE rest == IF query = <<>> THEN <<>> ELSE <<"?">> \o query
<1>1. rest \in Text
  BY Marks, Joined
<1>2. CASE query = <<>>
  <2>1. x \o <<>> = x
    BY ConcatEmptySeq DEF Text
  <2> QED BY <1>1, <1>2, <2>1 DEF WithQuery
<1>3. CASE query # <<>>
  <2> DEFINE mark == <<"?">>
  <2>1. mark \in Text
    BY Marks
  <2>2. rest = mark \o query
    BY <1>3
  <2>3. WithQuery(x, query) = x \o mark \o query
    BY <1>3 DEF WithQuery
  <2> HIDE DEF mark, rest
  <2>4. x \o mark \o query = x \o (mark \o query)
    BY <2>1, JoinedAlike
  <2>5. WithQuery(x, query) = x \o rest
    BY <2>2, <2>3, <2>4
  <2> QED BY <1>1, <2>5 DEF rest
<1> QED BY <1>2, <1>3

\* A request for a proper path means a URL of a web site, if it is an HTTP one.
LEMMA MeansRequested ==
  ASSUME NEW known, Based(known.server_base), NEW r, Proper(r.path), r.query \in Text,
         IsHttp(Meaning(known, r))
  PROVE  \E o, p : Requested(Meaning(known, r), o, p, r.query)
<1> DEFINE B == known.server_base
           path == r.path
           query == r.query
           plain == WithQuery(to_absolute_url(unpatch_url(path), B), query)
<1>1. Based(B) /\ B \in Text /\ Proper(path) /\ IsPath(path) /\ query \in Text
  BY DEF Based, Foreign, IsOrigin, Proper
<1>2. /\ path \in Text /\ path # <<>> /\ Slash(path, 1) /\ (Len(path) >= 2 => ~Slash(path, 2))
      /\ unpatch_url(path) = IF Patched(path) THEN Tail(path) ELSE path
  BY <1>1, Unpatching DEF IsPath
<1>3. \/ Meaning(known, r) = plain
      \/ get_scheme(plain) = <<"http">> /\ Meaning(known, r) = <<"https">> \o Tail(plain)
  BY Zenon DEF Meaning
<1> HIDE DEF path, B, query
<1>4. ASSUME Patched(path)
      PROVE  (\E o, p : Requested(plain, o, p, query)) \/ ~IsHttp(plain)
  <2>1. PICK o, t : Foreign(o) /\ IsPath(t) /\ ~Patched(t) /\ path = <<"/">> \o (o \o t)
    BY <1>1, <1>4 DEF Proper
  <2> DEFINE s == <<"/">>
             ot == o \o t
  <2>2. IsOrigin(o) /\ o \in Text /\ t \in Text /\ Slash(t, 1)
    BY <2>1 DEF Foreign, IsOrigin, IsPath, Unmarked
  <2>3. s \in Text /\ Len(s) = 1
    BY SlashAndDot, One
  <2>4. ot \in Text /\ Begins(ot)
    BY <2>2, OriginFound
  <2> HIDE DEF s, ot
  <2>5. path = s \o ot
    BY <2>1 DEF s, ot
  <2>6. From(path, Len(s) + 1) = ot
    BY <2>3, <2>4, <2>5, TakenApart
  <2>7. Tail(path) = ot
    <3>1. Tail(path) = SubSeq(path, 2, Len(path))
      BY <1>2, TailIsSubSeq DEF Text
    <3>2. Len(s) + 1 = 2
      BY <2>3
    <3> QED BY <2>6, <3>1, <3>2 DEF From
  <2>8. to_absolute_url(ot, B) = ot
    BY <2>4, AbsoluteStays
  <2>9. plain = WithQuery(o \o t, query)
    BY <1>2, <1>4, <2>7, <2>8 DEF ot
  <2>10. Requested(plain, o, t, query)
    BY <1>1, <2>1, <2>9 DEF Requested
  <2> QED BY <2>10
<1>5. ASSUME ~Patched(path)
      PROVE  (\E o, p : Requested(plain, o, p, query)) \/ ~IsHttp(plain)
  <2>1. plain = WithQuery(get_scheme_hostname_port(B) \o path, query)
    <3>1. to_absolute_url(path, B) = get_scheme_hostname_port(B) \o path
      BY <1>2, RootedAbsolute
    <3> QED BY <1>2, <1>5, <3>1
  <2>2. CASE Foreign(B)
    <3>1. get_scheme_hostname_port(B) = B
      <4>1. IsOrigin(B)
        BY <2>2 DEF Foreign
      <4>2. get_scheme_hostname_port(B \o <<>>) = B
        BY <4>1, Marks, OriginFound
      <4>3. B \o <<>> = B
        BY <1>1, ConcatEmptySeq DEF Text
      <4> QED BY <4>2, <4>3
    <3>2. Requested(plain, B, path, query)
      BY <1>1, <1>5, <2>1, <2>2, <3>1 DEF Requested
    <3> QED BY <3>2
  <2>3. CASE B # <<>> /\ is_relative_url(B) /\ ~Web(B, 1)
    <3> DEFINE x == B \o path
               rest == IF query = <<>> THEN <<>> ELSE <<"?">> \o query
               y == x \o rest
    <3>1. get_scheme_hostname_port(B) = B
      <4>1. is_relative_url(B)
        BY <2>3
      <4> QED BY <4>1 DEF get_scheme_hostname_port
    <3>2. plain = WithQuery(x, query)
      BY <2>1, <3>1
    <3>3. x \in Text /\ Len(B) \in Nat /\ \A i \in 1..Len(B) : x[i] = B[i]
      BY <1>1, <1>2, JoinedAt
    <3>4. Len(B) # 0
      BY <1>1, <2>3, EmptySeq DEF Text
    <3>5. 1 \in 1..Len(B)
      BY <3>3, <3>4
    <3>6. Len(x) \in Nat /\ Len(x) = Len(B) + Len(path) /\ Len(path) \in Nat
      BY <1>1, <1>2, JoinedAt
    <3> HIDE DEF x
    <3>7. rest \in Text /\ WithQuery(x, query) = y
      BY <1>1, <3>3, QueryAppended
    <3> HIDE DEF rest
    <3>8. y \in Text /\ \A i \in 1..Len(x) : y[i] = x[i]
      BY <3>3, <3>7, JoinedAt
    <3> HIDE DEF y
    <3>9. 1 \in 1..Len(x)
      BY <3>3, <3>5, <3>6
    <3>10. ~Web(y, 1)
      <4>1. y[1] = x[1] /\ x[1] = B[1]
        BY <3>3, <3>5, <3>8, <3>9
      <4> QED BY <2>3, <4>1 DEF Web
    <3>11. plain = y
      BY <3>2, <3>7
    <3>12. ~IsHttp(y)
      <4>1. IsHttp(y) => y[1] \in {"http", "https"}
        BY <3>8, HttpBegins
      <4> QED BY <3>10, <4>1, Zenon DEF Web
    <3> QED BY <3>11, <3>12
  <2> QED BY <1>1, <2>2, <2>3 DEF Based
<1>6. (\E o, p : Requested(plain, o, p, query)) \/ ~IsHttp(plain)
  BY <1>4, <1>5
<1> HIDE DEF plain
<1>7. CASE Meaning(known, r) = plain
  BY <1>6, <1>7 DEF query
<1>8. CASE get_scheme(plain) = <<"http">> /\ Meaning(known, r) = <<"https">> \o Tail(plain)
  <2>1. IsHttp(plain)
    BY <1>8, Zenon DEF IsHttp
  <2>2. PICK o, p : Requested(plain, o, p, query)
    BY <1>6, <2>1
  <2>3. Foreign(o) /\ IsPath(p) /\ ~Patched(p) /\ plain = WithQuery(o \o p, query)
    BY <2>2 DEF Requested
  <2> DEFINE rest == IF query = <<>> THEN <<>> ELSE <<"?">> \o query
             op == o \o p
             t == p \o rest
             s == <<"https">> \o Tail(o)
             sp == s \o p
  <2>4. o \in Text /\ p \in Text /\ op \in Text
    BY <2>3, Joined DEF Foreign, IsOrigin, IsPath, Unmarked
  <2>5. rest \in Text /\ WithQuery(op, query) = op \o rest
    <3> HIDE DEF op
    <3> QED BY <1>1, <2>4, QueryAppended
  <2> HIDE DEF rest
  <2>6. t \in Text /\ op \o rest = o \o t
    <3>1. o \in Text /\ p \in Text /\ rest \in Text
      BY <2>4, <2>5
    <3>2. t \in Text
      BY <3>1, Joined
    <3>3. op \o rest = o \o t
      BY <3>1, JoinedAlike
    <3> QED BY <3>2, <3>3
  <2>7. plain = o \o t
    BY <2>3, <2>5, <2>6
  <2> HIDE DEF t
  <2>8. Foreign(s) /\ <<"https">> \o Tail(o \o t) = s \o t
    BY <2>3, <2>6, Upgraded
  <2>9. Meaning(known, r) = s \o t
    BY <1>8, <2>7, <2>8
  <2> HIDE DEF s
  <2>10. s \in Text
    BY <2>8 DEF Foreign, IsOrigin
  <2>11. sp \in Text /\ sp \o rest = s \o t
    <3>1. s \in Text /\ p \in Text /\ rest \in Text
      BY <2>4, <2>5, <2>10
    <3>2. sp \in Text
      BY <3>1, Joined
    <3>3. sp \o rest = s \o (p \o rest)
      BY <3>1, JoinedAlike
    <3> QED BY <3>2, <3>3 DEF t
  <2>12. WithQuery(sp, query) = sp \o rest
    <3> HIDE DEF sp
    <3> QED BY <1>1, <2>11, QueryAppended DEF rest
  <2>13. Requested(Meaning(known, r), s, p, query)
    BY <1>1, <2>3, <2>8, <2>9, <2>11, <2>12 DEF Requested
  <2> QED BY <2>13 DEF query
<1> QED BY <1>3, <1>7, <1>8

\* A query or fragment behind a path without dots makes none.
LEMMA Extended ==
  ASSUME NEW x \in Text, NoDots(x), NEW y \in Text, NoDots(y), y = <<>> \/ Marked(y, 1)
  PROVE  NoDots(x \o y)
<1> DEFINE z == x \o y
<1>1. /\ z \in Text /\ Len(x) \in Nat /\ Len(y) \in Nat /\ Len(z) = Len(x) + Len(y)
      /\ \A i \in 1..Len(x) : z[i] = x[i]
      /\ \A i \in 1..Len(y) : z[Len(x) + i] = y[i]
  BY JoinedAt
<1> HIDE DEF z
<1>2. ASSUME NEW i \in 1..Len(z) - 1, Slash(z, i), Dot(z, i + 1)
      PROVE  i + 2 <= Len(z) /\ ~Slash(z, i + 2) /\ ~Dot(z, i + 2)
  <2>1. i \in Nat /\ i >= 1 /\ i <= Len(x) + Len(y) - 1
    BY <1>1
  <2>2. CASE i < Len(x)
    <3>1. i \in 1..Len(x) - 1 /\ i \in 1..Len(x) /\ i + 1 \in 1..Len(x)
      BY <1>1, <2>1, <2>2
    <3>2. z[i] = x[i] /\ z[i + 1] = x[i + 1]
      BY <1>1, <3>1
    <3>3. Slash(x, i) /\ Dot(x, i + 1)
      BY <1>2, <3>2 DEF Slash, Dot
    <3>4. i + 2 <= Len(x) /\ ~Slash(x, i + 2) /\ ~Dot(x, i + 2)
      BY <3>1, <3>3 DEF NoDots
    <3>5. i + 2 \in 1..Len(x) /\ i + 2 <= Len(x) + Len(y)
      BY <1>1, <2>1, <3>4
    <3>6. z[i + 2] = x[i + 2]
      BY <1>1, <3>5
    <3> QED BY <1>1, <3>4, <3>5, <3>6 DEF Slash, Dot
  <2>3. CASE i = Len(x)
    <3>1. 1 \in 1..Len(y) /\ Len(y) # 0
      BY <1>1, <2>1, <2>3
    <3>2. y # <<>>
      BY <3>1, EmptySeq
    <3>3. z[i + 1] = y[1] /\ y[1] \in {"?", "#"}
      BY <1>1, <2>3, <3>1, <3>2 DEF Marked
    <3>4. "." \notin {"?", "#"}
      BY Zenon
    <3> QED BY <1>2, <3>3, <3>4 DEF Dot
  <2>4. CASE Len(x) < i
    <3> DEFINE k == i - Len(x)
    <3>1. /\ k \in 1..Len(y) - 1 /\ k \in 1..Len(y) /\ k + 1 \in 1..Len(y) /\ k \in Nat
          /\ Len(x) + k = i /\ Len(x) + (k + 1) = i + 1 /\ Len(x) + (k + 2) = i + 2
      BY <1>1, <2>1, <2>4
    <3> HIDE DEF k
    <3>2. z[i] = y[k] /\ z[i + 1] = y[k + 1]
      BY <1>1, <3>1
    <3>3. Slash(y, k) /\ Dot(y, k + 1)
      BY <1>2, <3>2 DEF Slash, Dot
    <3>4. k + 2 <= Len(y) /\ ~Slash(y, k + 2) /\ ~Dot(y, k + 2)
      BY <3>1, <3>3 DEF NoDots
    <3>5. k + 2 \in 1..Len(y)
      BY <1>1, <3>1, <3>4
    <3>6. z[i + 2] = y[k + 2]
      BY <1>1, <3>1, <3>5
    <3>7. i + 2 <= Len(z)
      <4>1. Len(z) = Len(x) + Len(y) /\ i = Len(x) + k /\ k + 2 <= Len(y)
        BY <1>1, <3>1, <3>4
      <4> QED BY <1>1, <3>1, <4>1
    <3> QED BY <3>4, <3>6, <3>7 DEF Slash, Dot
  <2> QED BY <1>1, <2>1, <2>2, <2>3, <2>4
<1> QED BY <1>2 DEF NoDots, z

\* What web sites redirect to: a URL, or a path of the server or one relative to
\* the page's, without dot segments.
Reference(L) ==
  \/ \E o, p, q, f : Site(o, p, q, f) /\ L = o \o p \o q \o f
  \/ \E p, q, f : IsPath(p) /\ ~Patched(p) /\ IsQuery(q) /\ IsFragment(f) /\ L = p \o q \o f
  \/ \E w, q, f : /\ Remainder(w) /\ IsQuery(q) /\ IsFragment(f) /\ NoDots(q \o f)
                  /\ ~Web(w, 1)
                  /\ L = w \o q \o f /\ is_relative_url(L)

\* What a page that is no URL is relative to the page it is made absolute with.
LEMMA RelativeAbsolute ==
  ASSUME NEW x \in Text, is_relative_url(x), x # <<>>, ~Slash(x, 1),
         NEW url, NEW o, NEW p, NEW query, Requested(url, o, p, query),
         NoDots(Directory(url) \o x), Directory(url) \in Text
  PROVE  to_absolute_url(x, url) = o \o (Directory(url) \o x)
<1> DEFINE base_ == get_scheme_hostname_port(url)
           with_scheme == get_scheme(url) \o <<":">> \o x
           path == From(get_scheme_hostname_port_path(url), Len(base_) + 1)
           directory == IF Has(path, "/") THEN SubSeq(path, 1, RFind(path, <<"/">>, Len(path)))
                                          ELSE path \o <<"/">>
<1>1. to_absolute_url(x, url) =
        CASE ~is_relative_url(x) -> x
          [] IsPrefix(<<"/", "/">>, x) /\ Has(get_hostname(with_scheme), ".") -> with_scheme
          [] OTHER -> IF IsPrefix(<<"/">>, x) THEN base_ \o x
                      ELSE base_ \o normalize_path(directory \o x)
  BY Zenon DEF to_absolute_url
<1>2. IsOrigin(o) /\ IsPath(p) /\ p \in Text /\ o \in Text /\ query \in Text /\ p # <<>> /\ Slash(p, 1)
  BY DEF Requested, Foreign, IsOrigin, IsPath, Unmarked
<1>3. /\ get_scheme_hostname_port(url) = o /\ get_scheme_hostname_port_path(url) = o \o p
      /\ PathOf(url) = p
  <2>1. LET u == WithQuery(o \o p, query)
        IN /\ u \in Text /\ Begins(u)
           /\ get_scheme_hostname_port(u) = o /\ Origin(u) = o
           /\ get_scheme_hostname_port_path(u) = o \o p /\ PathOf(u) = p
    BY <1>2, RequestUrl
  <2> QED BY <2>1, Zenon DEF Requested
<1>4. path = p
  <2>1. From(o \o p, Len(o) + 1) = p
    BY <1>2, TakenApart
  <2> QED BY <1>3, <2>1
<1>5. Has(p, "/")
  <2>1. Len(p) # 0 /\ Len(p) \in Nat
    BY <1>2, EmptySeq, TextLength DEF Text
  <2>2. 1 \in 1..Len(p)
    BY <2>1
  <2> QED BY <1>2, <2>2 DEF Has, Contains, Slash
<1>6. directory = Directory(url)
  BY <1>3, <1>4, <1>5, Zenon DEF Directory
<1> HIDE DEF base_, with_scheme, path, directory
<1>7. ~IsPrefix(<<"/", "/">>, x)
  BY TwoSlashes
<1>8. ~IsPrefix(<<"/">>, x)
  <2> DEFINE s == <<"/">>
  <2>1. s \in Text /\ Len(s) = 1 /\ s[1] = "/"
    BY SlashAndDot, One
  <2> HIDE DEF s
  <2> SUFFICES ASSUME IsPrefix(s, x) PROVE FALSE
    BY DEF s
  <2>2. \A i \in 1..Len(s) : x[i] = s[i]
    BY <2>1, Continues
  <2>3. 1 \in 1..Len(s)
    BY <2>1
  <2> QED BY <2>1, <2>2, <2>3 DEF Slash
<1>9. to_absolute_url(x, url) = base_ \o normalize_path(directory \o x)
  BY <1>1, <1>7, <1>8
<1> DEFINE dx == Directory(url) \o x
<1>10. dx \in Text /\ NoDots(dx)
  BY Joined
<1> HIDE DEF dx
<1>11. normalize_path(dx) = dx
  BY <1>10, NormalizedSame
<1> QED BY <1>3, <1>6, <1>9, <1>11 DEF dx, base_

\* What begins with a path of a server: it is one of no other server, and its
\* first token is a slash.
LEMMA RootedText ==
  ASSUME NEW w, Unmarked(w), w # <<>>, NEW q, IsQuery(q), NEW f, IsFragment(f)
  PROVE  LET x == w \o q \o f
         IN /\ x \in Text /\ x # <<>> /\ x[1] = w[1]
            /\ IsPath(w) => Slash(x, 1) /\ (Len(x) >= 2 => ~Slash(x, 2))
<1> DEFINE x == w \o q \o f
<1>1. w \in Text /\ Len(w) \in Nat \ {0}
  <2>1. w \in Text
    BY DEF Unmarked
  <2> QED BY <2>1, EmptySeq DEF Text
<1>2. /\ x \in Text /\ EndsAt(x, Len(w))
      /\ \A i \in 1..Len(w) : x[i] = w[i]
  BY PathCut
<1> HIDE DEF x
<1>3. Len(w) \in 0..Len(x) /\ Len(x) \in Nat /\ (Len(w) = Len(x) \/ Marked(x, Len(w) + 1))
  BY <1>2, TextLength DEF EndsAt
<1>4. 1 \in 1..Len(w) /\ Len(x) # 0
  BY <1>1, <1>3
<1>5. x[1] = w[1] /\ x # <<>>
  BY <1>2, <1>4, EmptySeq
<1>6. ASSUME IsPath(w), Len(x) >= 2 PROVE ~Slash(x, 2)
  <2>1. CASE Len(w) >= 2
    <3>1. 2 \in 1..Len(w)
      BY <1>1, <2>1
    <3>2. x[2] = w[2]
      BY <1>2, <3>1
    <3> QED BY <1>6, <2>1, <3>2 DEF IsPath, Slash
  <2>2. CASE ~(Len(w) >= 2)
    <3>1. Len(w) = 1
      <4>1. \A n \in Nat \ {0} : ~(n >= 2) => n = 1
        OBVIOUS
      <4> QED BY <1>1, <2>2, <4>1
    <3>2. Len(x) # 1
      <4>1. \A n \in Nat : n >= 2 => n # 1
        OBVIOUS
      <4> QED BY <1>3, <1>6, <4>1
    <3>3. Marked(x, 1 + 1)
      BY <1>3, <3>1, <3>2
    <3>4. Marked(x, 2)
      BY <3>3
    <3>5. "/" \notin {"?", "#"}
      BY Zenon
    <3> QED BY <3>4, <3>5, Zenon DEF Marked, Slash
  <2> QED BY <2>1, <2>2
<1>7. IsPath(w) => Slash(x, 1)
  BY <1>5 DEF IsPath, Slash
<1> QED BY <1>2, <1>5, <1>6, <1>7 DEF x

\* A URL of a web site is absolute, wherever it is referred to.
LEMMA SiteStays ==
  ASSUME NEW o, NEW p, NEW q, NEW f, Site(o, p, q, f), NEW from
  PROVE  LET A == o \o p \o q \o f
         IN to_absolute_url(A, from) = A /\ Resolve(A, from) = A
<1>1. Parts(o, p, q, f)
  BY DEF Site
<1>2. LET url == o \o p \o q \o f
      IN url \in Text /\ Begins(url) /\ Absolute(url) = url
  BY <1>1, UrlParts, SMTT(60)
<1> DEFINE A == o \o p \o q \o f
<1>3. A \in Text /\ Begins(A) /\ Absolute(A) = A
  BY <1>2
<1> HIDE DEF A
<1>4. to_absolute_url(A, from) = A /\ Resolve(A, from) = A
  BY <1>3, AbsoluteStays, ResolvedWhole
<1> QED BY <1>4 DEF A

\* What a page's redirect means is made absolute as browsers resolve it.
LEMMA Meant ==
  ASSUME NEW L, Reference(L),
         NEW url, NEW u, NEW path, NEW query, Requested(url, u, path, query)
  PROVE  \E o, p, q, f :
           /\ Site(o, p, q, f)
           /\ to_absolute_url(L, url) = o \o p \o q \o f
           /\ Resolve(L, url) = o \o p \o q \o f
<1>1. /\ IsOrigin(u) /\ IsPath(path) /\ ~Patched(path) /\ path \in Text /\ u \in Text
      /\ query \in Text /\ path # <<>> /\ Slash(path, 1) /\ Foreign(u)
  BY DEF Requested, Foreign, IsOrigin, IsPath, Unmarked
<1>2. /\ get_scheme_hostname_port(url) = u /\ Origin(url) = u
      /\ PathOf(url) = path /\ url \in Text
  <2>1. LET x == WithQuery(u \o path, query)
        IN /\ x \in Text /\ Begins(x)
           /\ get_scheme_hostname_port(x) = u /\ Origin(x) = u
           /\ get_scheme_hostname_port_path(x) = u \o path /\ PathOf(x) = path
    BY <1>1, RequestUrl
  <2> QED BY <2>1, Zenon DEF Requested
<1>3. ASSUME NEW o, NEW p, NEW q, NEW f, Site(o, p, q, f)
      PROVE  LET A == o \o p \o q \o f
             IN to_absolute_url(A, url) = A /\ Resolve(A, url) = A
  BY <1>3, SiteStays
<1>4. ASSUME NEW p, NEW q, NEW f,
             IsPath(p), ~Patched(p), IsQuery(q), IsFragment(f)
      PROVE  /\ Site(u, p, q, f)
             /\ to_absolute_url(p \o q \o f, url) = u \o p \o q \o f
             /\ Resolve(p \o q \o f, url) = u \o p \o q \o f
  <2> DEFINE x == p \o q \o f
  <2>1. /\ Unmarked(p) /\ NoDots(p) /\ p # <<>> /\ Slash(p, 1) /\ p \in Text /\ q \in Text
        /\ f \in Text
    BY <1>4 DEF IsPath, Unmarked, IsQuery, IsFragment
  <2>2. Site(u, p, q, f)
    BY <1>1, <1>4, <2>1 DEF Site, Parts
  <2>3. u \o p \o q \o f = u \o x
    <3>1. Parts(u, p, q, f)
      BY <2>2 DEF Site
    <3> QED BY <3>1, UrlParts, SMTT(30)
  <2>4. Resolve(x, url) = Origin(url) \o p \o (q \o f)
    BY <1>4, ResolvedRoot
  <2>5. u \o p \o q \o f = u \o p \o (q \o f)
    <3> DEFINE up == u \o p
    <3>1. up \in Text
      BY <1>1, <2>1, Joined
    <3> HIDE DEF up
    <3>2. up \o q \o f = up \o (q \o f)
      BY <2>1, <3>1, JoinedAlike
    <3> QED BY <3>2 DEF up
  <2>6. x \in Text /\ x # <<>> /\ Slash(x, 1) /\ (Len(x) >= 2 => ~Slash(x, 2))
    BY <1>4, <2>1, RootedText
  <2> HIDE DEF x
  <2>7. to_absolute_url(x, url) = get_scheme_hostname_port(url) \o x
    BY <2>6, RootedAbsolute
  <2> QED BY <1>2, <2>2, <2>3, <2>4, <2>5, <2>7 DEF x
<1>5. ASSUME NEW w, NEW q, NEW f,
             Remainder(w), IsQuery(q), IsFragment(f), NoDots(q \o f),
             is_relative_url(w \o q \o f)
      PROVE  LET X == Directory(url) \o w
             IN /\ Site(u, X, q, f)
                /\ to_absolute_url(w \o q \o f, url) = u \o X \o q \o f
                /\ Resolve(w \o q \o f, url) = u \o X \o q \o f
  <2> DEFINE D == Directory(url)
             X == D \o w
             x == w \o q \o f
             y == q \o f
  <2>1. /\ Unmarked(w) /\ w # <<>> /\ ~Slash(w, 1) /\ w \in Text /\ q \in Text /\ f \in Text
    BY <1>5 DEF Remainder, Unmarked, IsQuery, IsFragment
  <2>2. PICK n \in 1..Len(path) : Slash(path, n) /\ D = SubSeq(path, 1, n)
    BY <1>1, <1>2, DirectoryOf
  <2>3. D \in Text
    <3>1. Len(path) \in Nat
      BY <1>1, TextLength
    <3>2. n \in 0..Len(path)
      BY <3>1
    <3> QED BY <1>1, <2>2, <3>2, Divided
  <2>4. IsPath(X) /\ ~Patched(X)
    <3>1. IsPath(SubSeq(path, 1, n) \o w) /\ (Patched(SubSeq(path, 1, n) \o w) => Patched(path))
      BY <1>1, <1>5, <2>2, Appended
    <3> QED BY <1>1, <2>2, <3>1
  <2> HIDE DEF D
  <2>5. /\ X \in Text /\ X # <<>> /\ Slash(X, 1) /\ Unmarked(X) /\ NoDots(X)
    BY <2>4 DEF IsPath, Unmarked
  <2>6. y \in Text /\ (y = <<>> \/ Marked(y, 1))
    <3>1. y \in Text
      BY <2>1, Joined
    <3>2. CASE q = <<>>
      <4>1. <<>> \o f = f
        BY <2>1, ConcatEmptySeq DEF Text
      <4> QED BY <1>5, <3>1, <3>2, <4>1 DEF IsFragment, Marked, Hashed
    <3>3. CASE q # <<>>
      <4>1. q[1] = "?" /\ Len(q) >= 2 /\ Len(q) \in Nat
        BY <1>5, <2>1, <3>3, TextLength DEF IsQuery
      <4>2. 1 \in 1..Len(q) /\ \A i \in 1..Len(q) : y[i] = q[i]
        BY <2>1, <4>1, JoinedAt
      <4>3. y[1] = "?"
        BY <4>1, <4>2
      <4> QED BY <3>1, <4>3 DEF Marked
    <3> QED BY <3>2, <3>3
  <2>7. x = w \o y
    BY <2>1, JoinedAlike
  <2>8. D \o x = X \o y
    <3>1. D \in Text /\ w \in Text /\ y \in Text
      BY <2>1, <2>3, <2>6
    <3> HIDE DEF y
    <3>2. D \o w \o y = D \o (w \o y)
      BY <3>1, JoinedAlike
    <3> QED BY <2>7, <3>2
  <2>9. u \o (X \o y) = u \o X \o q \o f /\ u \o X \o y = u \o X \o q \o f
    <3> HIDE DEF X
    <3> DEFINE uX == u \o X
    <3>1. uX \in Text
      BY <1>1, <2>5, Joined
    <3> HIDE DEF uX
    <3>2. uX \o q \o f = uX \o (q \o f)
      BY <2>1, <3>1, JoinedAlike
    <3>3. u \in Text /\ X \in Text /\ y \in Text
      BY <1>1, <2>5, <2>6
    <3> HIDE DEF y
    <3>4. u \o X \o y = u \o (X \o y)
      BY <3>3, JoinedAlike
    <3> QED BY <3>2, <3>4 DEF uX, y
  <2>10. x \in Text /\ x # <<>> /\ x[1] = w[1]
    BY <1>5, <2>1, RootedText
  <2>11. NoDots(X \o y)
    <3>1. NoDots(y)
      BY <1>5
    <3> HIDE DEF X, y
    <3> QED BY <2>5, <2>6, <3>1, Extended
  <2>12. Resolve(x, url) = Origin(url) \o Simplified(IF Slash(w, 1) THEN w ELSE Directory(url) \o w) \o y
    <3>1. /\ Unmarked(w) /\ w # <<>> /\ IsQuery(q) /\ IsFragment(f)
          /\ (IsPath(w) \/ (~Slash(w, 1) /\ is_relative_url(w \o q \o f)))
      BY <1>5, <2>1
    <3> QED BY <3>1, ResolvedPath
  <2>13. is_relative_url(x)
    BY <1>5
  <2> HIDE DEF x, y
  <2>14. ~Slash(x, 1)
    BY <2>1, <2>10 DEF Slash
  <2>15. to_absolute_url(x, url) = u \o (Directory(url) \o x)
    <3>1. NoDots(Directory(url) \o x) /\ Directory(url) \in Text
      BY <2>3, <2>8, <2>11 DEF D
    <3> QED BY <2>10, <2>13, <2>14, <3>1, RelativeAbsolute
  <2>16. to_absolute_url(x, url) = u \o X \o q \o f
    BY <2>8, <2>9, <2>13, <2>15 DEF D
  <2> HIDE DEF X
  <2>17. Simplified(X) = X
    BY <2>5, SimplifiedSame
  <2>18. Resolve(x, url) = u \o X \o q \o f
    BY <1>2, <2>1, <2>9, <2>12, <2>13, <2>17 DEF X, D
  <2>19. Site(u, X, q, f)
    BY <1>1, <1>5, <2>4, <2>5 DEF Site, Parts
  <2> QED BY <2>16, <2>18, <2>19 DEF X, D, x
<1>6. CASE \E o, p, q, f : Site(o, p, q, f) /\ L = o \o p \o q \o f
  <2>1. PICK o, p, q, f : Site(o, p, q, f) /\ L = o \o p \o q \o f
    BY <1>6
  <2> DEFINE A == o \o p \o q \o f
  <2>2. to_absolute_url(A, url) = A /\ Resolve(A, url) = A
    BY <1>3, <2>1
  <2> QED BY <2>1, <2>2
<1>7. CASE \E p, q, f : IsPath(p) /\ ~Patched(p) /\ IsQuery(q) /\ IsFragment(f) /\ L = p \o q \o f
  <2>1. PICK p, q, f : IsPath(p) /\ ~Patched(p) /\ IsQuery(q) /\ IsFragment(f) /\ L = p \o q \o f
    BY <1>7
  <2>2. /\ Site(u, p, q, f)
        /\ to_absolute_url(p \o q \o f, url) = u \o p \o q \o f
        /\ Resolve(p \o q \o f, url) = u \o p \o q \o f
    BY <1>4, <2>1
  <2> QED BY <2>1, <2>2
<1>8. CASE \E w, q, f : /\ Remainder(w) /\ IsQuery(q) /\ IsFragment(f) /\ NoDots(q \o f)
                        /\ ~Web(w, 1)
                        /\ L = w \o q \o f /\ is_relative_url(L)
  <2>1. PICK w, q, f : /\ Remainder(w) /\ IsQuery(q) /\ IsFragment(f) /\ NoDots(q \o f)
                       /\ ~Web(w, 1)
                       /\ L = w \o q \o f /\ is_relative_url(L)
    BY <1>8
  <2> DEFINE X == Directory(url) \o w
  <2>2. /\ Site(u, X, q, f)
        /\ to_absolute_url(w \o q \o f, url) = u \o X \o q \o f
        /\ Resolve(w \o q \o f, url) = u \o X \o q \o f
    BY <1>5, <2>1, SMTT(30)
  <2> HIDE DEF X
  <2> QED BY <2>1, <2>2
<1> QED BY <1>6, <1>7, <1>8 DEF Reference

-----------------------------------------------------------------------------
(* Redirects that are followed.                                            *)

\* The request that the browser makes when it follows an answer.
FollowUp(note) ==
  Resolve(note.answer.location, WithQuery(Local \o note.request.path, note.request.query))
QueryOf(url) == IF Query(url) = <<>> THEN <<>> ELSE Tail(Query(url))
Followed(r, note) ==
  /\ note.answer.location # None
  /\ Origin(FollowUp(note)) = Local
  /\ r.path = PathOf(FollowUp(note)) /\ r.query = QueryOf(FollowUp(note))

\* Where web sites redirect to.
References ==
  \A response \in Responses : response.location = None \/ Reference(response.location)

\* What is requested of a site has a proper path, and what is served is an http URL.
Sound(note) ==
  /\ Proper(note.request.path)
  /\ Based(note.known.server_base)
  /\ note.response # None => IsHttp(note.url)

\* The request with which a redirect is followed means what the site meant.
LEMMA FollowUpReturns ==
  ASSUME References, NEW note, NEW known, Follows(note, known), Based(known.server_base),
         Sound(note), ProperNote(note), NEW r, Followed(r, note)
  PROVE  LET B == note.known.server_base
             meant == Resolve(note.response.location, note.url)
         IN /\ Proper(r.path)
            /\ \/ WithQuery(to_absolute_url(unpatch_url(r.path), B), r.query)
                    = Origin(meant) \o PathOf(meant) \o Query(meant)
               \/ IsPrefix(B, meant) /\ Origin(meant) # B
<1> DEFINE B == note.known.server_base
           L == note.response.location
           from == note.url
           path == note.request.path
           query == note.request.query
           local == WithQuery(Local \o path, query)
<1>1. /\ note.response \in Responses /\ note.response # None /\ L # None
      /\ note.answer.location = to_relative_url(to_absolute_url(L, from), B)
      /\ from = Meaning(known, note.request)
  <2>1. note.answer.location # None
    BY DEF Followed
  <2>2. note.response # None
    <3> SUFFICES ASSUME note.response = None PROVE FALSE
      OBVIOUS
    <3>1. None \notin Responses
      BY BrowsingAssumption
    <3>2. note.answer = Answer(note.answer.status, None, None)
      BY <3>1 DEF Follows
    <3>3. note.answer.location = None
      BY <3>2 DEF Answer
    <3> QED BY <2>1, <3>3
  <2>3. /\ note.response \in Responses
        /\ note.answer = Answer(note.response.status,
                                Location(note.known, note.url, note.response), note.answer.body)
    BY <2>2 DEF Follows
  <2>4. note.answer.location = Location(note.known, note.url, note.response)
    BY <2>3 DEF Answer
  <2>5. from = Meaning(known, note.request)
    BY DEF Follows
  <2> QED BY <2>1, <2>2, <2>3, <2>4, <2>5 DEF Location
<1>2. Reference(L)
  BY <1>1 DEF References
<1>3. Proper(path) /\ Based(B) /\ IsHttp(from) /\ query \in Text /\ IsPath(path)
  BY <1>1 DEF Sound, ProperNote, ProperRequest, Proper
<1>4. PICK u, w : Requested(from, u, w, query)
  <2>1. \E o, p : Requested(Meaning(known, note.request), o, p, note.request.query)
    BY <1>1, <1>3, MeansRequested
  <2> QED BY <1>1, <2>1
<1>5. local \in Text /\ Origin(local) = Local /\ PathOf(local) = path
  <2>1. LET url == WithQuery(Local \o path, query)
        IN /\ url \in Text /\ Begins(url)
           /\ get_scheme_hostname_port(url) = Local /\ Origin(url) = Local
           /\ get_scheme_hostname_port_path(url) = Local \o path /\ PathOf(url) = path
    BY <1>3, LocalIsOrigin, RequestUrl
  <2> QED BY <2>1
<1>6. Followed(r, note) /\ FollowUp(note) = Resolve(note.answer.location, local)
  BY DEF FollowUp
<1> HIDE DEF B, L, from, path, query, local
<1>7. PICK o, p, q, f : /\ Site(o, p, q, f)
                        /\ to_absolute_url(L, from) = o \o p \o q \o f
                        /\ Resolve(L, from) = o \o p \o q \o f
  BY <1>2, <1>4, Meant, SMTT(30)
<1> DEFINE A == o \o p \o q \o f
           target == Resolve(to_relative_url(A, B), local)
<1>8. Proper(PathOf(local))
  BY <1>3, <1>5
<1>9. LET x == Resolve(to_relative_url(o \o p \o q \o f, B), local)
          a == o \o p \o q \o f
      IN Origin(local) = Local /\ Origin(x) = Local =>
           /\ Proper(PathOf(x))
           /\ \/ WithQuery(to_absolute_url(unpatch_url(PathOf(x)), B),
                           IF Query(x) = <<>> THEN <<>> ELSE Tail(Query(x)))
                   = Origin(a) \o PathOf(a) \o Query(a)
              \/ IsPrefix(B, a) /\ Origin(a) # B
  BY <1>3, <1>5, <1>7, <1>8, RedirectReturns
<1>10. target = FollowUp(note) /\ A = Resolve(L, from)
  BY <1>1, <1>6, <1>7
<1>11. Origin(local) = Local /\ Origin(target) = Local =>
         /\ Proper(PathOf(target))
         /\ \/ WithQuery(to_absolute_url(unpatch_url(PathOf(target)), B), QueryOf(target))
                 = Origin(A) \o PathOf(A) \o Query(A)
            \/ IsPrefix(B, A) /\ Origin(A) # B
  BY <1>9 DEF QueryOf
<1> HIDE DEF target, A
<1>12. /\ Origin(target) = Local /\ r.path = PathOf(target) /\ r.query = QueryOf(target)
  BY <1>6, <1>10 DEF Followed
<1>13. /\ Proper(r.path)
       /\ \/ WithQuery(to_absolute_url(unpatch_url(r.path), B), r.query)
               = Origin(A) \o PathOf(A) \o Query(A)
          \/ IsPrefix(B, A) /\ Origin(A) # B
  BY <1>5, <1>11, <1>12
<1> QED BY <1>10, <1>13 DEF B, L, from

\* A redirect is followed by one request.
LEMMA FollowingFollows ==
  ASSUME NEW r \in Following
  PROVE  /\ Done # <<>> /\ Followed(r, Last(Done))
         /\ r.data = <<>> /\ r.follows = TRUE
<1> DEFINE last == Last(Done)
           target == Resolve(last.answer.location,
                             WithQuery(Local \o last.request.path, last.request.query))
           request == [method |-> "GET", path |-> PathOf(target), data |-> <<>>,
                       follows |-> TRUE, query |-> IF Query(target) = <<>> THEN <<>>
                                                   ELSE Tail(Query(target))]
<1>1. /\ ~(Done = <<>> \/ last.answer.status \notin Redirected \/ last.answer.location = None)
      /\ r \in IF Origin(target) # Local THEN {} ELSE {request}
  BY Zenon DEF Following
<1>2. /\ request.path = PathOf(target) /\ request.data = <<>> /\ request.follows = TRUE
      /\ request.query = QueryOf(target)
  BY Zenon DEF QueryOf
<1>3. target = FollowUp(last)
  BY DEF FollowUp
<1> HIDE DEF request, target, last
<1>4. r = request /\ Origin(target) = Local
  BY <1>1
<1>5. Followed(r, last)
  BY <1>1, <1>2, <1>3, <1>4 DEF Followed
<1> QED BY <1>1, <1>2, <1>4, <1>5 DEF last

\* What a program starts with is the URL of a web site.
StartsAtSites ==
  \A start \in Starts : \E o, p, q, f : Site(o, p, q, f) /\ start = o \o p \o q \o f

\* What is requested without being redirected are paths of the site, or URLs of
\* other hosts that were patched.
RequestsOfSites ==
  \A r \in Requests : Proper(r.path) /\ r.follows = FALSE

\* A session begins with a base.
LEMMA InitiallyBased ==
  ASSUME StartsAtSites, settings.url \in Starts
  PROVE  Based(get_scheme_hostname_port(settings.url))
<1>1. PICK o, p, q, f : Site(o, p, q, f) /\ settings.url = o \o p \o q \o f
  BY DEF StartsAtSites
<1>2. Foreign(o) /\ Parts(o, p, q, f)
  BY <1>1 DEF Site
<1>3. LET url == o \o p \o q \o f IN get_scheme_hostname_port(url) = o
  BY <1>2, UrlParts, SMTT(60)
<1> QED BY <1>1, <1>2, <1>3 DEF Based

\* What is redirected to is a base.
LEMMA ReferenceBased ==
  ASSUME NEW L, Reference(L)
  PROVE  Based(get_scheme_hostname_port(L))
<1>1. CASE \E o, p, q, f : Site(o, p, q, f) /\ L = o \o p \o q \o f
  <2>1. PICK o, p, q, f : Site(o, p, q, f) /\ L = o \o p \o q \o f
    BY <1>1
  <2>2. Foreign(o) /\ Parts(o, p, q, f)
    BY <2>1 DEF Site
  <2>3. LET url == o \o p \o q \o f IN get_scheme_hostname_port(url) = o
    BY <2>2, UrlParts, SMTT(60)
  <2> QED BY <2>1, <2>2, <2>3 DEF Based
<1>2. ASSUME NEW w, Unmarked(w), w # <<>>, ~Web(w, 1), NEW q, IsQuery(q), NEW f, IsFragment(f),
             L = w \o q \o f, is_relative_url(L)
      PROVE  Based(get_scheme_hostname_port(L))
  <2>1. LET x == w \o q \o f
        IN /\ x \in Text /\ x # <<>> /\ x[1] = w[1]
           /\ IsPath(w) => Slash(x, 1) /\ (Len(x) >= 2 => ~Slash(x, 2))
    BY <1>2, RootedText
  <2>2. L \in Text /\ L # <<>> /\ L[1] = w[1]
    BY <1>2, <2>1
  <2>3. ~Web(L, 1)
    BY <1>2, <2>2 DEF Web
  <2>4. get_scheme_hostname_port(L) = L
    BY <1>2 DEF get_scheme_hostname_port
  <2> QED BY <1>2, <2>2, <2>3, <2>4 DEF Based
<1>3. CASE \E p, q, f : IsPath(p) /\ ~Patched(p) /\ IsQuery(q) /\ IsFragment(f) /\ L = p \o q \o f
  <2>1. PICK p, q, f : IsPath(p) /\ ~Patched(p) /\ IsQuery(q) /\ IsFragment(f) /\ L = p \o q \o f
    BY <1>3
  <2>2. Unmarked(p) /\ p # <<>> /\ Slash(p, 1)
    BY <2>1 DEF IsPath
  <2>3. ~Web(p, 1)
    <3>1. "/" \notin {"http", "https"}
      BY Zenon
    <3> QED BY <2>2, <3>1, Zenon DEF Web, Slash
  <2>4. LET x == p \o q \o f
        IN /\ x \in Text /\ x # <<>> /\ x[1] = p[1]
           /\ IsPath(p) => Slash(x, 1) /\ (Len(x) >= 2 => ~Slash(x, 2))
    BY <2>1, <2>2, RootedText
  <2>5. L \in Text /\ L # <<>> /\ Slash(L, 1)
    BY <2>1, <2>4
  <2>6. is_relative_url(L)
    BY <2>5, NoScheme
  <2> QED BY <1>2, <2>1, <2>2, <2>3, <2>6
<1>4. CASE \E w, q, f : /\ Remainder(w) /\ IsQuery(q) /\ IsFragment(f) /\ NoDots(q \o f)
                        /\ ~Web(w, 1)
                        /\ L = w \o q \o f /\ is_relative_url(L)
  <2>1. PICK w, q, f : /\ Remainder(w) /\ IsQuery(q) /\ IsFragment(f) /\ NoDots(q \o f)
                       /\ ~Web(w, 1)
                       /\ L = w \o q \o f /\ is_relative_url(L)
    BY <1>4
  <2>2. Unmarked(w) /\ w # <<>>
    BY <2>1 DEF Remainder
  <2> QED BY <1>2, <2>1, <2>2
<1> QED BY <1>1, <1>3, <1>4 DEF Reference

\* What is recorded has come by http.
OnlyHttp == \A identity \in DOMAIN writer.headers : IsHttp(identity)

\* What the first session serves, and records, has come by http.
LEMMA ServedByHttp ==
  ASSUME reader = NoArchive, OnlyHttp, NEW r, NEW url \in Text, r.data \in Text,
         Serving(r, url)
  PROVE  IsHttp(url) /\ OnlyHttp'
<1>1. IsHttp(IdentityOf(r, url)) <=> IsHttp(url)
  BY IdentityIsHttp DEF IdentityOf
<1>2. ~Archived(r, url)
  BY DEF Archived, NoArchive, Empty
<1>3. CASE serve_previously_served(r, url)
  <2>1. IdentityOf(r, url) \in DOMAIN writer.headers /\ writer' = writer
    BY <1>3 DEF serve_previously_served, Previously
  <2> QED BY <1>1, <2>1 DEF OnlyHttp
<1>4. CASE handle_response(r, url)
  <2>1. IsHttp(url)
    BY <1>4, Zenon DEF handle_response, IsHttp
  <2>2. \E response, body : async_write_file(IdentityOf(r, url), response, body)
    BY <1>2, <1>4 DEF handle_response
  <2>3. PICK response, body : async_write_file(IdentityOf(r, url), response, body)
    BY <2>2
  <2>4. \/ writer' = writer
        \/ writer'.headers = Assign(writer.headers, IdentityOf(r, url), response)
    BY <2>3 DEF async_write_file
  <2>5. DOMAIN writer'.headers \subseteq DOMAIN writer.headers \cup {IdentityOf(r, url)}
    BY <2>4 DEF Assign
  <2> QED BY <1>1, <2>1, <2>5 DEF OnlyHttp
<1> QED BY <1>2, <1>3, <1>4 DEF Serving, handle_file_request

\* A browser that is redirected comes back to what it was redirected to.
Returning ==
  /\ session = "recording" => Based(server_base) /\ OnlyHttp
  /\ \A i \in DOMAIN journal :
       /\ Sound(journal[i])
       /\ journal[i].request.follows => i > 1 /\ Followed(journal[i].request, journal[i - 1])

\* Before every request there is a base.
LEMMA BasedBefore ==
  ASSUME StartsAtSites, TypeOK, Histories, Returning, NEW i \in DOMAIN journal
  PROVE  Based(KnownBefore(journal, i).server_base)
<1>1. DOMAIN journal = 1..Len(journal) /\ Len(journal) \in Nat
  BY Longer DEF Histories
<1>2. CASE i = 1
  <2>1. settings.url \in Starts
    BY DEF TypeOK
  <2>2. Based(get_scheme_hostname_port(settings.url))
    BY <2>1, InitiallyBased
  <2> QED BY <1>2, <2>2 DEF KnownBefore, Initially
<1>3. CASE i # 1
  <2>1. i - 1 \in DOMAIN journal
    BY <1>1, <1>3
  <2>2. Sound(journal[i - 1])
    BY <2>1 DEF Returning
  <2> QED BY <1>3, <2>2 DEF KnownBefore, Sound
<1> QED BY <1>2, <1>3

\* What a browser requests is a page of a site, or follows the answer before.
LEMMA NextRequestsReturn ==
  ASSUME StartsAtSites, References, RequestsOfSites, TypeOK, Histories, Texts, Learning, Returning,
         session = "recording", NEW r \in NextRequests
  PROVE  /\ Proper(r.path) /\ r.data \in Text
         /\ r.follows => journal # <<>> /\ Followed(r, Last(journal))
<1>1. r \in Requests \cup Following
  BY DEF NextRequests
<1>2. CASE r \in Requests
  <2>1. r.data \in Text
    BY <1>2, BrowsingAssumption, TextOfStrings
  <2>2. Proper(r.path) /\ r.follows = FALSE
    BY <1>2 DEF RequestsOfSites
  <2> QED BY <2>1, <2>2
<1>3. CASE r \in Following
  <2>1. journal # <<>> /\ Followed(r, Last(journal)) /\ r.data = <<>>
    BY <1>3, FollowingFollows DEF Done
  <2> DEFINE n == Len(journal)
             note == journal[n]
  <2>2. n \in DOMAIN journal
    <3>1. journal \in Seq(Range(journal)) /\ journal # <<>>
      BY <2>1 DEF Histories
    <3> QED BY <3>1, EmptySeq, LenProperties
  <2>3. Follows(note, KnownBefore(journal, n)) /\ Sound(note) /\ ProperNote(note)
    BY <2>2 DEF Learning, Returning, Texts
  <2>4. Based(KnownBefore(journal, n).server_base)
    BY <2>2, BasedBefore
  <2>5. Followed(r, note)
    BY <2>1 DEF Last
  <2> HIDE DEF n, note
  <2>6. Proper(r.path)
    BY <2>3, <2>4, <2>5, FollowUpReturns
  <2> QED BY <2>1, <2>6, Marks
<1> QED BY <1>1, <1>2, <1>3

\* In the beginning nothing was requested, ...
LEMMA ReturningInit == ASSUME StartsAtSites, Init PROVE Returning
<1>1. Based(server_base)
  BY InitiallyBased DEF Init
<1>2. DOMAIN journal = {} /\ OnlyHttp
  BY DEF Init, OnlyHttp, NoArchive, Empty
<1> QED BY <1>1, <1>2 DEF Returning

\* ... and every step of the first session adds a request to what returned before.
LEMMA ReturningStep ==
  ASSUME StartsAtSites, References, RequestsOfSites, TypeOK, Histories, Texts, Learning, Recording,
         Returning, [Next]_vars
  PROVE  Returning'
<1>1. ASSUME NEW r \in NextRequests, NEW answer, NEW response,
             Note(r, UrlOf(r), answer, response), session' = session,
             session = "recording" => Based(Known'.server_base) /\ OnlyHttp',
             session = "recording" /\ response # None => IsHttp(UrlOf(r))
      PROVE  Returning'
  <2> DEFINE note == Noted(r, UrlOf(r), answer, response)
  <2>1. \/ session = "recording" /\ journal' = Append(journal, note)
        \/ session # "recording" /\ journal' = journal
    BY <1>1, Noting
  <2>2. CASE session # "recording" /\ journal' = journal
    BY <1>1, <2>2 DEF Returning
  <2>3. CASE session = "recording" /\ journal' = Append(journal, note)
    <3>1. /\ Proper(r.path)
          /\ r.follows => journal # <<>> /\ Followed(r, Last(journal))
      BY <2>3, NextRequestsReturn
    <3>2. /\ note.request = r /\ note.url = UrlOf(r) /\ note.response = response
          /\ note.known = Known'
      BY DEF Noted
    <3>3. Sound(note)
      BY <1>1, <2>3, <3>1, <3>2 DEF Sound
    <3> HIDE DEF note
    <3> DEFINE n == Len(journal) + 1
    <3>4. /\ Len(journal) \in Nat /\ DOMAIN journal = 1..Len(journal)
          /\ DOMAIN journal' = 1..Len(journal) + 1
          /\ \A i \in 1..Len(journal) : journal'[i] = journal[i]
          /\ journal'[n] = note
      BY <2>3, Longer DEF Histories
    <3>5. ASSUME NEW i \in 1..Len(journal)
          PROVE  /\ Sound(journal'[i])
                 /\ journal'[i].request.follows =>
                      i > 1 /\ Followed(journal'[i].request, journal'[i - 1])
      <4>1. journal'[i] = journal[i] /\ (i > 1 => journal'[i - 1] = journal[i - 1])
        BY <3>4
      <4>2. /\ Sound(journal[i])
            /\ journal[i].request.follows => i > 1 /\ Followed(journal[i].request, journal[i - 1])
        BY <3>4 DEF Returning
      <4> QED BY <4>1, <4>2
    <3>6. /\ Sound(journal'[n])
          /\ journal'[n].request.follows =>
               n > 1 /\ Followed(journal'[n].request, journal'[n - 1])
      <4>1. Sound(journal'[n])
        BY <3>3, <3>4
      <4>2. ASSUME r.follows PROVE n > 1 /\ Followed(r, journal'[n - 1])
        <5>1. journal \in Seq(Range(journal)) /\ journal # <<>>
          BY <3>1, <4>2 DEF Histories
        <5>2. Len(journal) # 0
          BY <5>1, EmptySeq
        <5>3. n > 1 /\ n - 1 = Len(journal) /\ n - 1 \in 1..Len(journal)
          BY <3>4, <5>2
        <5>4. journal'[n - 1] = Last(journal)
          BY <3>4, <5>3 DEF Last
        <5> QED BY <3>1, <4>2, <5>3, <5>4
      <4> QED BY <3>2, <3>4, <4>1, <4>2
    <3>7. \A i \in DOMAIN journal' :
            /\ Sound(journal'[i])
            /\ journal'[i].request.follows =>
                 i > 1 /\ Followed(journal'[i].request, journal'[i - 1])
      <4>1. \A i \in 1..Len(journal) + 1 : i \in 1..Len(journal) \/ i = n
        BY <3>4
      <4> HIDE DEF n
      <4> QED BY <3>4, <3>5, <3>6, <4>1
    <3>8. Based(server_base') /\ OnlyHttp'
      BY <1>1, <2>3 DEF Known
    <3> QED BY <3>7, <3>8 DEF Returning
  <2> QED BY <2>1, <2>2, <2>3
<1>2. ASSUME NEW r \in NextRequests, NEW status, Replies(r, UrlOf(r), status)
      PROVE  Returning'
  <2>1. /\ Reply(r, UrlOf(r), status) /\ session' = session /\ writer' = writer
        /\ Note(r, UrlOf(r), Answer(status, None, None), None)
    BY <1>2 DEF Replies, Reply
  <2>2. Known' = Known
    BY <2>1, ReplyTeachesNothing
  <2>3. session = "recording" => Based(Known'.server_base) /\ OnlyHttp'
    BY <2>1, <2>2 DEF Returning, Known, OnlyHttp
  <2> QED BY <1>1, <2>1, <2>3
<1>3. ASSUME NEW r \in NextRequests, Serving(r, UrlOf(r))
      PROVE  Returning'
  <2> DEFINE url == UrlOf(r)
  <2>1. PICK response \in Responses, body \in DOMAIN site' \cup {None} :
          Serves(r, url, response, body)
    BY <1>3, ServingServes
  <2> DEFINE answer == Answer(response.status, Location(Known', url, response), body)
  <2>2. Known' = Taught(Known, url, response) /\ Note(r, url, answer, response)
    BY <2>1, ServingTeaches DEF Serves
  <2>3. session' = session
    BY <2>1 DEF Serves
  <2>4. session = "recording" => Based(Known'.server_base)
    <3>1. Known'.server_base = IF Redirects(Known, url, response)
                               THEN get_scheme_hostname_port(response.location) ELSE server_base
      BY <2>2 DEF Taught, Known
    <3>2. Redirects(Known, url, response) => response.location # None
      BY DEF Redirects
    <3>3. Redirects(Known, url, response) => Reference(response.location)
      BY <2>1, <3>2 DEF References
    <3>4. Redirects(Known, url, response) => Based(get_scheme_hostname_port(response.location))
      BY <3>3, ReferenceBased
    <3> QED BY <3>1, <3>4 DEF Returning
  <2>5. session = "recording" => IsHttp(url) /\ OnlyHttp'
    <3> SUFFICES ASSUME session = "recording" PROVE IsHttp(url) /\ OnlyHttp'
      OBVIOUS
    <3>1. reader = NoArchive /\ OnlyHttp
      BY DEF Recording, Returning
    <3>2. r.data \in Text
      BY NextRequestsReturn
    <3>3. url \in Text
      <4>1. ProperRequest(r)
        BY NextRequestsAreProper
      <4>2. Known.server_base \in Text
        BY DEF Texts, Known
      <4> QED BY <4>1, <4>2, UrlIsMeaning, MeaningIsText
    <3> QED BY <1>3, <3>1, <3>2, <3>3, ServedByHttp
  <2> HIDE DEF answer
  <2> QED BY <1>1, <2>2, <2>3, <2>4, <2>5
<1>4. ASSUME NEW download \in {"standard", "never"}, Shutdown(download)
      PROVE  Returning'
  <2>1. session' = "replaying" /\ journal' = journal
    BY <1>4 DEF Shutdown
  <2> QED BY <2>1 DEF Returning
<1>5. CASE UNCHANGED vars
  BY <1>5 DEF vars, base, Returning, OnlyHttp
<1> QED BY <1>2, <1>3, <1>4, <1>5, AnswerKinds

\* A browser that follows a redirect within the local server requests what the
\* web site redirected it to, or the https URL in its place: what serve_file makes
\* of Location, the browser's resolution and handle_request (unpatch_url and
\* to_absolute_url) lead back to the URL that was meant, whatever the base has
\* become by initial redirects, also for pages of other hosts behind patched paths.
\* It is assumed that the program is started for a URL of a web site, that sites
\* redirect to such URLs, to paths of their own or to pages relative to the one
\* requested, all of them without dot segments, and that the other requests are
\* for paths of the site or patched URLs with a path.
THEOREM AlwaysComeBack ==
  ASSUME StartsAtSites, References, RequestsOfSites
  PROVE  Spec => []RedirectsComeBack
<1>1. TypeOK /\ Histories /\ Texts /\ Learning /\ Returning => RedirectsComeBack
  <2> SUFFICES ASSUME TypeOK, Histories, Texts, Learning, Returning,
                      NEW i \in DOMAIN journal, i > 1, journal[i].request.follows
               PROVE  LET from == journal[i - 1]
                          meant == Resolve(from.response.location, from.url)
                          plain == Origin(meant) \o PathOf(meant) \o Query(meant)
                      IN \/ journal[i].url \in {plain, <<"https">> \o Tail(plain)}
                         \/ /\ IsPrefix(from.known.server_base, meant)
                            /\ Origin(meant) # from.known.server_base
    BY DEF RedirectsComeBack
  <2> DEFINE from == journal[i - 1]
             r == journal[i].request
             B == from.known.server_base
             meant == Resolve(from.response.location, from.url)
             plain == Origin(meant) \o PathOf(meant) \o Query(meant)
             reached == WithQuery(to_absolute_url(unpatch_url(r.path), B), r.query)
  <2>1. i - 1 \in DOMAIN journal
    <3>1. DOMAIN journal = 1..Len(journal) /\ Len(journal) \in Nat
      BY Longer DEF Histories
    <3> QED BY <3>1
  <2>2. /\ Follows(from, KnownBefore(journal, i - 1)) /\ Sound(from) /\ ProperNote(from)
        /\ Based(KnownBefore(journal, i - 1).server_base)
    BY <2>1, BasedBefore DEF Learning, Returning, Texts
  <2>3. Followed(r, from)
    BY DEF Returning
  <2>4. \/ reached = plain
        \/ IsPrefix(B, meant) /\ Origin(meant) # B
    <3> HIDE DEF from, r
    <3>1. LET b == from.known.server_base
              m == Resolve(from.response.location, from.url)
          IN /\ Proper(r.path)
             /\ \/ WithQuery(to_absolute_url(unpatch_url(r.path), b), r.query)
                     = Origin(m) \o PathOf(m) \o Query(m)
                \/ IsPrefix(b, m) /\ Origin(m) # b
      BY <2>2, <2>3, FollowUpReturns
    <3> QED BY <3>1
  <2>5. journal[i].url \in {reached, <<"https">> \o Tail(reached)}
    <3>1. Follows(journal[i], KnownBefore(journal, i)) /\ KnownBefore(journal, i) = from.known
      BY DEF Learning, KnownBefore
    <3>2. journal[i].url = Meaning(from.known, r)
      BY <3>1 DEF Follows
    <3> HIDE DEF from, r
    <3>3. Meaning(from.known, r) \in {reached, <<"https">> \o Tail(reached)}
      BY Zenon DEF Meaning
    <3> QED BY <3>2, <3>3
  <2> HIDE DEF reached, B, meant, plain
  <2>6. \/ journal[i].url \in {plain, <<"https">> \o Tail(plain)}
        \/ IsPrefix(B, meant) /\ Origin(meant) # B
    BY <2>4, <2>5
  <2> QED BY <2>6 DEF B, meant, plain
<1>2. Init => TypeOK /\ Histories /\ Texts /\ ReplayInvariant /\ Returning
  BY TypeInit, TextsInit, ReplayInit, ReturningInit
<1>3. ReplayInvariant => Learning /\ Recording
  BY DEF ReplayInvariant
<1>4. TypeOK /\ Histories /\ Texts /\ Learning /\ Recording /\ Returning /\ [Next]_vars => Returning'
  BY ReturningStep
<1>5. Init => Returning
  BY ReturningInit
<1> QED BY <1>1, <1>3, <1>4, <1>5, ReplayInvariance, TextsRemain, PTL DEF Spec
=================================================================================

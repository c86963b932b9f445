--------------------------------- MODULE Browsing ---------------------------------
(***************************************************************************)
(* What a browser experiences that talks to the local server: Logic from   *)
(* handle_request to send_response (src/src/Logic.cpp) with the functions  *)
(* on URLs it calls (UrlFunctions, HostList, CacheInfo).                   *)
(*                                                                         *)
(* A first session records what the browser requests, one request after    *)
(* the other; a second session gets the same requests in the same order,   *)
(* off line or with the standard download policy.  Web sites are fixed:    *)
(* they answer a URL alike, in any way when it is first requested.         *)
(*                                                                         *)
(* RequestHandling has the same handlers with their interleavings, but     *)
(* with URLs and file names that have no structure; SessionStores has the  *)
(* cookies, which change no URL.                                           *)
(***************************************************************************)
EXTENDS HostList, CacheInfo, Functions

CONSTANTS
  Starts,        \* m_settings.url, for which the program may be started
  Requests,      \* of the browser: records [method, path, query, data]
  Responses,     \* of web sites: records [status, location, security, header, empty]
  BlockList,     \* the file of blocked hosts ...
  ListedHosts,   \* ... and the hosts its complete lines name
  MaxRequests,   \* bound of the requests of a session
  None

ASSUME BrowsingAssumption ==
  /\ Starts \subseteq Seq(STRING) /\ BlockList \in Seq(STRING)
  /\ \A r \in Requests :
       /\ r.path \in Seq(STRING) \ {<<>>}
       /\ r.query \in Seq(STRING) /\ r.data \in Seq(STRING)
  /\ \A response \in Responses :
       response.location = None \/ response.location \in Seq(STRING) \ {<<>>}
  /\ None \notin Responses
  /\ MaxRequests \in Nat

VARIABLES
  settings,            \* url and download policy
  session,             \* "recording", then "replaying"
  server_base, server_base_path,
  threads_started,     \* m_start_threads_callback is not set any more
  transport_security,  \* m_strict_transport_security: host |-> sub_domains
  reader,              \* the archive of the first session: headers and files
  writer,              \* the archive that is written
  site,                \* what web sites have answered
  journal,             \* history: what happened in the first session ...
  replayed             \* ... and in the second

base == <<server_base, server_base_path>>
vars == <<settings, session, base, threads_started, transport_security, reader,
          writer, site, journal, replayed>>

Empty == [x \in {} |-> None]
NoArchive == [headers |-> Empty, files |-> Empty]

\* f with a value for x (std::map).
Assign(f, x, value) == [y \in DOMAIN f \cup {x} |-> IF y = x THEN value ELSE f[y]]

Init ==
  /\ settings \in [url : Starts, download : {"standard"}]
  /\ session = "recording"
  /\ server_base = get_scheme_hostname_port(settings.url)
  /\ server_base_path = get_scheme_hostname_port_path(settings.url)
  /\ threads_started = FALSE
  /\ transport_security = Empty
  /\ reader = NoArchive
  /\ writer = NoArchive
  /\ site = Empty
  /\ journal = <<>>
  /\ replayed = <<>>

Done == IF session = "recording" THEN journal ELSE replayed
Blocked == add_hosts_from_file(BlockList)
Now == IF session = "recording" THEN 1000 ELSE 2000

-----------------------------------------------------------------------------
(* The browser.  It resolves references as RFC 3986 says.                  *)

\* A path without what its segments . and .. stand for.
Enter(done, segment) ==
  CASE segment = <<".">> -> done
    [] segment = <<".", ".">> -> SubSeq(done, 1, RFind(done, <<"/">>, Len(done)) - 1)
    [] OTHER -> done \o <<"/">> \o segment
Simplified(path) ==
  LET segment(i) == From(Upto(path, Find(path, <<"/">>, i + 1)), i + 1)
      upto[i \in 0..Len(path)] ==
        CASE i = 0 -> <<>>
          [] i > 0 /\ path[i] = "/" -> Enter(upto[i - 1], segment(i))
          [] OTHER -> upto[i - 1]
      last == segment(RFind(path, <<"/">>, Len(path)))
  IN upto[Len(path)] \o IF last \in {<<".">>, <<".", ".">>} THEN <<"/">> ELSE <<>>

Query(url) == From(Upto(url, Find(url, <<"#">>, 1)), Len(get_scheme_hostname_port_path(url)) + 1)
Origin(url) == get_scheme_hostname_port(get_scheme_hostname_port_path(url))
PathOf(url) == LET path == From(get_scheme_hostname_port_path(url), Len(Origin(url)) + 1)
               IN IF path = <<>> THEN <<"/">> ELSE path

Absolute(url) ==
  LET path == get_scheme_hostname_port_path(url)
  IN IF HasHost(url)
     THEN Origin(url) \o Simplified(From(path, Len(Origin(url)) + 1)) \o From(url, Len(path) + 1)
     ELSE url
Resolve(reference, url) ==
  LET path == get_scheme_hostname_port_path(reference)
      rest == From(reference, Len(path) + 1)
      directory == SubSeq(PathOf(url), 1, RFind(PathOf(url), <<"/">>, Len(PathOf(url))))
  IN CASE ~is_relative_url(reference) -> Absolute(reference)
       [] IsPrefix(<<"/", "/">>, reference) -> Absolute(get_scheme(url) \o <<":">> \o reference)
       [] path = <<>> -> Origin(url) \o PathOf(url) \o
                         (IF Has(reference, "?") THEN <<>> ELSE Query(url)) \o rest
       [] OTHER -> Origin(url) \o
                   Simplified(IF Head(path) = "/" THEN path ELSE directory \o path) \o rest

Local == <<"http", ":", "/", "/", "localhost">>
WithQuery(url, query) == IF query = <<>> THEN url ELSE url \o <<"?">> \o query

\* The request with which the browser follows a redirect within the local
\* server, if it was redirected to it.
Redirected == {"moved", "found"}
Following ==
  IF Done = <<>> \/ Last(Done).answer.status \notin Redirected
       \/ Last(Done).answer.location = None THEN {}
  ELSE LET target == Resolve(Last(Done).answer.location,
                               WithQuery(Local \o Last(Done).request.path, Last(Done).request.query))
       IN IF Origin(target) # Local THEN {}
          ELSE {[method |-> "GET", path |-> PathOf(target), data |-> <<>>, follows |-> TRUE,
                 query |-> IF Query(target) = <<>> THEN <<>> ELSE Tail(Query(target))]}

\* What the browser requests next.
NextRequests ==
  IF session = "recording"
  THEN {r \in Requests \cup Following : Len(journal) < MaxRequests}
  ELSE {journal[i].request : i \in {Len(replayed) + 1} \cap DOMAIN journal}

-----------------------------------------------------------------------------
(* Logic.                                                                  *)

\* apply_strict_transport_security
apply_strict_transport_security(url) ==
  IF \E host \in DOMAIN transport_security : MatchesHost(url, host, transport_security[host])
  THEN <<"https">> \o Tail(url) ELSE url

\* handle_request: the URL that is meant by a request.
UrlOf(r) ==
  LET url == WithQuery(to_absolute_url(unpatch_url(r.path), server_base), r.query)
  IN IF get_scheme(url) = <<"http">> THEN apply_strict_transport_security(url) ELSE url

IdentityOf(r, url) == get_identifying_url(url, r.data)

\* What a session has learnt from the responses so far.
Known == [server_base |-> server_base, server_base_path |-> server_base_path,
          threads_started |-> threads_started, transport_security |-> transport_security]

\* What is noted of a request that was answered.
Note(r, url, answer, response) ==
  LET note == [request |-> r, url |-> url, answer |-> answer, response |-> response,
               known |-> Known']
  IN IF session = "recording"
     THEN journal' = Append(journal, note) /\ UNCHANGED replayed
     ELSE replayed' = Append(replayed, note) /\ UNCHANGED journal

Answer(status, location, body) == [status |-> status, location |-> location, body |-> body]

\* An answer that has no effect but on the browser.
Reply(r, url, status) ==
  /\ UNCHANGED <<settings, session, base, threads_started, transport_security, reader,
                 writer, site>>
  /\ Note(r, url, Answer(status, None, None), None)

set_server_base(url) ==
  /\ server_base' = get_scheme_hostname_port(url)
  /\ server_base_path' = get_scheme_hostname_port_path(url)

handle_initial_redirects(url, response) ==
  CASE threads_started -> UNCHANGED <<base, threads_started>>
    [] ~threads_started /\ response.status # "moved" ->
         threads_started' = TRUE /\ UNCHANGED base
    [] OTHER ->
         /\ UNCHANGED threads_started
         /\ IF IsPrefix(server_base_path, url) /\ response.location # None
            THEN set_server_base(response.location)
            ELSE UNCHANGED base

\* A host keeps the entry it got first.
set_strict_transport_security(url, security) ==
  transport_security' =
    IF security = "none" \/ get_hostname_port(url) \in DOMAIN transport_security
    THEN transport_security
    ELSE Assign(transport_security, get_hostname_port(url), security = "domains")

\* The Location that serve_file sends.
\* Mutant of LocationOf: it is not made absolute first.
LocationOf_Raw(url, response) ==
  IF response.location = None THEN None ELSE to_relative_url(response.location, server_base')
LocationOf(url, response) ==
  IF response.location = None THEN None
  ELSE to_relative_url(to_absolute_url(response.location, url), server_base')

serve_file(r, url, response, body) ==
  /\ handle_initial_redirects(url, response)
  /\ set_strict_transport_security(url, response.security)
  /\ Note(r, url, Answer(response.status, LocationOf(url, response), body), response)

\* Mutant of async_write_file: a response without body is not recorded.
async_write_file_OnlyBodies(identity, response, body) ==
  IF body = None \/ to_local_filename(identity) \in DOMAIN writer.files THEN UNCHANGED writer
  ELSE writer' = [headers |-> Assign(writer.headers, identity, response),
                  files |-> Assign(writer.files, to_local_filename(identity), body)]

async_write_file(identity, response, body) ==
  IF to_local_filename(identity) \in DOMAIN writer.files THEN UNCHANGED writer
  ELSE writer' = [headers |-> Assign(writer.headers, identity, response),
                  files |-> IF body = None THEN writer.files
                            ELSE Assign(writer.files, to_local_filename(identity), body)]

Contents(files, identity) ==
  IF to_local_filename(identity) \in DOMAIN files THEN files[to_local_filename(identity)]
  ELSE None

\* An archived response; body and header are served together.
ServeFromArchive(r, url) ==
  LET identity == IdentityOf(r, url)
      response == reader.headers[identity]
      body == Contents(reader.files, identity)
  IN /\ serve_file(r, url, response, body)
     /\ async_write_file(identity, response, body)

-----------------------------------------------------------------------------
(* One action for each way in which a request is answered.                 *)

send_cors_response(r, url) ==
  /\ r.method = "OPTIONS"
  /\ Reply(r, url, "no content")

IsSpecial(r) == Last(r.path) \in {"__webrecorder.js", "__webrecorder_setcookie"}

\* The injected script, and a cookie that a page has set.
ServeScript(r, url) ==
  /\ r.method # "OPTIONS"
  /\ Last(r.path) = "__webrecorder.js"
  /\ Reply(r, url, "script")
SetCookie(r, url) ==
  /\ r.method # "OPTIONS"
  /\ Last(r.path) = "__webrecorder_setcookie"
  /\ Reply(r, url, "no content")

IsFile(r) == r.method # "OPTIONS" /\ ~IsSpecial(r)

serve_blocked(r, url) ==
  /\ IsFile(r)
  /\ contains(Blocked, url)
  /\ Reply(r, url, "unavailable")

IsServable(r, url) == IsFile(r) /\ ~contains(Blocked, url)

Previously(r, url) ==
  /\ to_local_filename(IdentityOf(r, url)) \in DOMAIN writer.files
  /\ IdentityOf(r, url) \in DOMAIN writer.headers

serve_previously_served(r, url) ==
  /\ IsServable(r, url) /\ Previously(r, url)
  /\ serve_file(r, url, writer.headers[IdentityOf(r, url)], Contents(writer.files, IdentityOf(r, url)))
  /\ UNCHANGED <<settings, session, reader, writer, site>>

Archived(r, url) == IdentityOf(r, url) \in DOMAIN reader.headers
Expired(r, url) ==
  Archived(r, url) => LET response == reader.headers[IdentityOf(r, url)]
                 IN get_cache_info(response.status = "moved", response.header, NoFields, Now).expired

\* handle_file_request, with the serve policy latest.
Offline == settings.download = "never"
handle_file_request(r, url) ==
  /\ IsServable(r, url) /\ ~Previously(r, url)
  /\ Archived(r, url)
  /\ Offline \/ ~Expired(r, url)
  /\ ServeFromArchive(r, url)
  /\ UNCHANGED <<settings, session, reader, site>>

NotArchived(r, url) ==
  /\ IsServable(r, url) /\ ~Previously(r, url)
  /\ Offline /\ ~Archived(r, url)
  /\ Reply(r, url, "unavailable")

ForwardsRequest(r, url) == IsServable(r, url) /\ ~Previously(r, url) /\ ~Offline /\ Expired(r, url)

\* The URL without its fragment is what the web site sees.
Target(r, url) == get_scheme_hostname_port(url) \o PathOf(url) \o Query(url) \o r.data

\* forward_request and handle_response: a success or redirect, or a failure
\* of which the archive has no better version, is served and recorded; ...
handle_response(r, url) ==
  /\ ForwardsRequest(r, url) /\ get_scheme(url) \in {<<"http">>, <<"https">>}
  /\ LET target == Target(r, url)
     IN \E response \in IF target \in DOMAIN site THEN {site[target]} ELSE Responses :
          /\ site' = Assign(site, target, response)
          /\ IF response.status \notin {"ok", "moved"} /\ Archived(r, url)
             THEN ServeFromArchive(r, url)
             ELSE LET body == IF response.empty THEN None ELSE target
                  IN /\ serve_file(r, url, response, body)
                     /\ async_write_file(IdentityOf(r, url), response, body)
  /\ UNCHANGED <<settings, session, reader>>

\* ... but a URL that is no HTTP one ends in an exception, which closes the
\* connection to the browser.
InvalidScheme(r, url) ==
  /\ ForwardsRequest(r, url) /\ get_scheme(url) \notin {<<"http">>, <<"https">>}
  /\ Reply(r, url, "exception")

\* A request to shut down: Logic::finish, and the program is started again
\* with the archive.
Shutdown(download) ==
  /\ session = "recording" /\ journal # <<>>
  /\ session' = "replaying"
  /\ server_base' = get_scheme_hostname_port(settings.url)
  /\ server_base_path' = get_scheme_hostname_port_path(settings.url)
  /\ threads_started' = FALSE
  /\ transport_security' = Empty
  /\ reader' = writer
  /\ writer' = NoArchive
  /\ settings' = [settings EXCEPT !.download = download]
  /\ UNCHANGED <<site, journal, replayed>>

Next ==
  \/ \E r \in NextRequests :
       LET url == UrlOf(r)
       IN \/ send_cors_response(r, url)
          \/ ServeScript(r, url)
          \/ SetCookie(r, url)
          \/ serve_blocked(r, url)
          \/ serve_previously_served(r, url)
          \/ handle_file_request(r, url)
          \/ NotArchived(r, url)
          \/ handle_response(r, url)
          \/ InvalidScheme(r, url)
  \/ \E download \in {"standard", "never"} : Shutdown(download)

Spec == Init /\ [][Next]_vars

-----------------------------------------------------------------------------
(* Properties.                                                             *)

TypeOK ==
  /\ settings \in [url : Starts, download : {"standard", "never"}]
  /\ session \in {"recording", "replaying"}
  /\ threads_started \in BOOLEAN
  /\ \A host \in DOMAIN transport_security : transport_security[host] \in BOOLEAN
  /\ \A archive \in {reader, writer} :
       /\ \A identity \in DOMAIN archive.headers : archive.headers[identity] \in Responses
       /\ \A name \in DOMAIN archive.files : archive.files[name] \in DOMAIN site
  /\ \A target \in DOMAIN site : site[target] \in Responses
  /\ Len(journal) <= MaxRequests
  /\ Len(replayed) <= Len(journal)

\* Requests for different URLs, or with different data, do not share a file name.
NamesAreDistinct ==
  \A i, j \in DOMAIN journal :
    LET name(k) == to_local_filename(IdentityOf(journal[k].request, journal[k].url))
    IN name(i) = name(j) => /\ journal[i].url = journal[j].url
                            /\ journal[i].request.data = journal[j].request.data

\* The same requests in the same order lead to the same URLs, get the same
\* answers from the archive and teach the session the same, also where
\* redirects and transport security have changed what a request means, and
\* whether expired pages are downloaded again or not.  (Logic.cpp:41-56
\* restores the state of the first session from url and headers only.)
ReplaysLikeRecorded ==
  NamesAreDistinct =>
    \A i \in DOMAIN replayed :
      /\ replayed[i].url = journal[i].url
      /\ replayed[i].known = journal[i].known
      /\ journal[i].answer.status # "exception" => replayed[i].answer = journal[i].answer

\* A browser that follows a redirect within the local server gets to the URL
\* that the web site meant, or to the https one in its place: between patching
\* Location, resolving it and unpatching the request nothing is lost.  Excepted
\* are URLs of another origin that begin like the server's base.
RedirectsComeBack ==
  \A i \in DOMAIN journal :
    i > 1 /\ journal[i].request.follows =>
      LET from == journal[i - 1]
          meant == Resolve(from.response.location, from.url)
          plain == Origin(meant) \o PathOf(meant) \o Query(meant)
      IN \/ journal[i].url \in {plain, <<"https">> \o Tail(plain)}
         \/ /\ IsPrefix(from.known.server_base, meant)
            /\ Origin(meant) # from.known.server_base

\* A host is a domain of another one.
IsDomainOf(host, of) == Len(host) > Len(of) + 1 /\ IsSuffix(<<".">> \o of, host)

Security(note) == IF note.response = None THEN "none" ELSE note.response.security
HostOf(note) == get_hostname_port(note.url)

\* Once a host asked for transport security, no URL of it, nor of a domain of
\* it if it included them at first, is requested by plain http.
SecureStaysSecure ==
  \A history \in {journal, replayed} : \A i, j \in DOMAIN history :
    /\ i < j
    /\ Security(history[i]) # "none" /\ HostOf(history[i]) # <<>>
    /\ \/ HostOf(history[i]) = HostOf(history[j])
       \/ /\ IsDomainOf(HostOf(history[j]), HostOf(history[i]))
          /\ Security(history[i]) = "domains"
          /\ \A k \in 1..i - 1 :
               HostOf(history[k]) = HostOf(history[i]) => Security(history[k]) = "none"
    => get_scheme(history[j].url) # <<"http">>

\* Nothing of a listed host or of a domain of it is ever requested or served,
\* on whichever way a URL came about.  (A host name with a port is no listed one.)
BlockedIsNotServed ==
  \A history \in {journal, replayed} : \A i \in DOMAIN history :
    history[i].response # None =>
      \A listed \in ListedHosts :
        HostOf(history[i]) # listed /\ ~IsSuffix(<<".">> \o listed, HostOf(history[i]))

\* README.md:16: "The webserver forwards all requests to their original domain".
\* (Not so after an initial redirect to a relative URL, which becomes the base.)
ForwardedToADomain ==
  \A i \in DOMAIN journal : journal[i].answer.status # "exception"
=============================================================================

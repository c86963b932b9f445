# webrecorder in TLA+

webrecorder is an HTTP proxy that records. A browser talks to a local server;
each request is answered from what this run has recorded already, from an
archive an earlier run has left, or from the original ("upstream") server, and
everything is written to a new ZIP archive, which replaces the old one when the
program ends. The code is in `src/src/`; the rest of `src/` is vendored
libraries (asio, Simple-Web-Server, minizip, zlib, gumbo, zstr, ...).

This directory holds a model of that program, the TLC runs that check it on
small instances, and theorems about it that TLAPS checks for every instance.

| file | contents |
|------|----------|
| `WriteOnceStore.tla` | abstract: what an `ArchiveWriter` promises to its callers |
| `ArchiveWriter.tla` | the queue, the worker thread and the ZIP handle that keep the promise |
| `RequestHandling.tla` | `Logic` from `handle_request` to `async_write_file`, many requests at once |
| `RecordingSession.tla` | the archive file over several runs of the program, with crashes |
| `ServerThreads.tla` | `main` and `Server`: threads that start, fail, stop and are joined |
| `SessionStores.tla` | `CookieStore` and `HeaderStore`, and the texts that carry them to the next session |
| `ArchiveReader.tla` | reading versions of a file through the pool of unzip contexts |
| `Browsing.tla` | a browser that talks to `Logic`, with URLs that have structure, over two sessions |
| `UrlFunctions.tla`, `HostList.tla`, `CacheInfo.tla` | pure functions that `Browsing` composes |
| `HtmlPatcher.tla` | how the patches of a page are collected, sorted and applied |
| `ArchiveWriterProofs.tla`, `RequestHandlingProofs.tla`, `RecordingSessionProofs.tla`, `ServerThreadsProofs.tla`, `ArchiveReaderProofs.tla`, `SessionStoresProofs.tla`, `HtmlPatcherProofs.tla`, `BrowsingProofs.tla` | theorems and proofs |
| `MC*.tla`, `*.cfg` | instances for TLC |

## 1. Inventory

### Components

| component | state | operations | model |
|-----------|-------|------------|-------|
| `ArchiveWriter` (Archive.cpp) | `m_contents`, `m_tasks`, `m_finish_thread`, one ZIP handle `m_zip`/`m_reading`, a thread, two mutexes, a condition variable | open, write, async_write, async_read, contains, close | `ArchiveWriter` |
| `ArchiveReader` (Archive.cpp) | table of contents, overlay path, pool of unzip contexts | open, read, get_file_info | `ArchiveReader`; as data in `RequestHandling` and `RecordingSession` |
| `Logic`, requests | `m_header_reader`, `m_header_writer`, `m_write_mutex`, `m_server_base`, `m_start_threads_callback` | handle_request, handle_response, serve_*, async_write_file, get_file_request_action | `RequestHandling`, `Browsing` |
| `Logic`, sessions | the archive on disk | initialize, append_unrequested_files, finish | `RecordingSession` |
| `Server` | io_service, threads, the pending response of a request | run, run_threads, join, send_response | `ServerThreads`; `send_response` in `RequestHandling` |
| `Client` | one shared io_service | request, shutdown, gunzip of responses | outcomes, in `RequestHandling`; exceptions and shutdown in `ServerThreads` |
| `CookieStore` | cookies, a cache of cookie lists, a mutex | set, get_cookies_list, (de)serialize | `SessionStores` |
| `HeaderStore` | entries by URL | write, read, (de)serialize | `SessionStores`; a map in `RequestHandling` |
| `CacheInfo`, `HostList`, URL functions | none (HostList: set of hosts) | pure functions | modules of the same names (`UrlFunctions`), used by `Browsing` |
| `HtmlPatcher` | list of patches | parse_html, patch, get_patched | `HtmlPatcher` |
| `main` | the life of `Logic` and `Server`, the exit code | run | `ServerThreads` |
| `Settings` | configuration | parse | policies as constants |
| `LossyCompressor`, `platform`, `test` | none | image recoding, logging, files, unit tests | not modelled |

### How they interact

* `main` makes a `Logic`, then a `Server` that calls `Logic::handle_request`.
  All networking, to the browser and upstream, runs on one `io_service`.
* At first only the main thread runs it. `Logic` calls the callback that starts
  five more threads when it serves the first response that is no redirect.
* A request that is forwarded occupies no thread; its callback
  (`handle_response`) runs on any thread later.
* Recording (`async_write_file`) and replaying (`serve_previously_served`) hold
  `m_write_mutex` and hand tasks to the thread of the `ArchiveWriter`; the
  callback of a replay serves the response **on that thread**.
* At the end `Server` is destroyed first, then `Logic::finish` completes the
  archive, and `ArchiveWriter::close` moves it in place of the old one.

### What is hard

Interleavings of the handlers of several requests, of which two may be about the
same URL or about URLs that share a file name; a queue whose consumer sleeps; a
file that counts as archived long before it is written; a ZIP handle that is
reopened back and forth; upstream answers that come late, incomplete, in many
parts, or never; policies that interact with expiry and failures; an archive
that must survive being killed, failing disks and many sessions. The list with
code lines is `hazards` in `PROJECT.json`.

### What makes each component correct

* `ArchiveWriter`: the first write of a file decides; nothing accepted is lost,
  duplicated or mixed up; reads come after writes; the worker never sleeps
  through work; closing completes everything and returns.
* requests: header and body of a record belong together; all replays of a page
  agree; a failure never replaces a page that is archived; the policies are kept
  whatever else happens; one answer for each request, and some answer.
* sessions: the last complete archive is never destroyed; pages accumulate and
  never revert; the first version remains the first.
* `CookieStore`: a cached list equals the list computed anew; the next session knows
  the same cookies.
* `HeaderStore`: reading what was written yields the same entries.
* `Server`: its threads are started once, none outlives it, exceptions are reported
  and do not cost the recording, and CTRL-C ends the program.
* `ArchiveReader`: a read returns the file and version it was asked for, whoever else
  reads; no context is used twice at once or lost on an early return.
* URLs and hosts: a URL survives being made relative, sent to the browser, resolved
  there and unpatched again; a secure host stays secure, a blocked one blocked, and the
  next session understands the same requests alike.
* `HtmlPatcher`: nothing of a page is lost or repeated; the script comes first.

## 2. The models

Definitions carry the names of the functions they translate (`map` in
`PROJECT.json` gives the lines). A definition whose comment calls it a mutant is
a plausible bug; each property is checked to fail when the mutant takes the
place of the definition.

### WriteOnceStore and ArchiveWriter

`WriteOnceStore` has four actions: `Accept` a file (once), `Ask` for an accepted
file, `Reply` with what was accepted, and `Close`, which needs all reads answered
and leaves an archive with exactly the accepted files.

`ArchiveWriter` has two processes. The *owner* is the submitting side: callers
hold `m_write_mutex` or are the only thread, so there is never more than one.
The *worker* is `thread_func`. A step is what a process does while it holds a
mutex, so releasing a mutex and notifying are separate steps, with `owner =
"notifying"` or `"flagged"` in between. `handle` models `m_zip` and `m_reading`;
`reopen(false)` without a handle truncates the file, because the code derives
`APPEND_STATUS_CREATE` from a null `m_zip`. With `MayFail`, opening the ZIP file
and opening, writing, closing or reading an entry may fail, where the code
examines the result and where it does not (`Damaged`). A condition variable may
wake up spuriously. `accepted`, `asked` and `reported` are history variables;
they exist for the properties and the refinement mapping.

Data is abstract: which compression is chosen and whether an image is recoded
does not change which file has whose data.

### RequestHandling

One process for each request, the upstream server, and the worker. `pc` says how
far a request is; a step is one uninterrupted piece of a handler: a critical
section of `m_write_mutex`, the sending of a response, or a callback.
`WriteOnceStore` is instantiated for the archive writer: its steps `Ask`,
`Reply` and `Accept` stand for `async_read`, the worker's read, and
`async_write`. (`ArchiveWriter` is checked to implement it.)

* `settings`, `fileOf` and `reader` are chosen initially: every combination of
  policies in the instance, every assignment of file names to URLs (so URLs that
  `to_local_filename` maps to one name are covered), and every archive.
* A header or body is identified by its origin, a request or the archive.
  `served` is what the browser got first, `sends` counts calls of `send_response`.
* `Upstream` says what a response may be: status, empty or not, `error` for an
  incomplete one, `more` for an event stream that will call back again.
* `expired` (CacheInfo) is any Boolean at each decision: more than the code does.
* `FileRequestAction` is the decision table of `get_file_request_action`.
* Threads: a handler needs a free one. One is there until the first response that
  is no redirect (`started`), then `MaxThreads`. The worker is apart.

Left out, because they influence neither what is served nor what is recorded
here: cookies, the patching of HTML, logging. A URL is what `handle_request` has made
of a request; how it does that, and the requests it answers on the spot, are in
`Browsing`. The server runs with an output file
here (without one, nothing is recorded and there is nothing to replay).

### RecordingSession

The archive file over sessions. `Start` is `initialize`, `Download` and `Keep`
are what requests have recorded (`async_write_file`), `Finish` is
`append_unrequested_files` and the completion of the temporary file, and the
actions after it are `resolve_collision` and `move_file` with one step for each
system call. `StartFails` is an exception in `initialize` after the writer was
opened. `Kill` may come at any step of a session; a file that is being copied is
`Damaged`.

A version of a page is the number of the session that downloaded it and stands
for header, body and modification time. Versions of different sessions are
therefore assumed to have different modification times (ZIP stores them with a
resolution of two seconds). Output file and input file are the same, which is
how the program runs by default.

### ServerThreads

One process for the main thread, one for each thread of the pool, and the worker of
the archive writer as far as it serves replays. `phase` is how far `run()` is: in
`Server::run` (`"listening"`, `"running"`, `"joining"`), in the destructor of the
server (`"unwinding"`), in the destructor of `Logic` (`"finishing"`), or over
(`"ended"`; `"terminated"` is `std::terminate`). `at` is what a thread does, and
`thread_mutex` is explicit (`holder`), because `run_threads` starts threads under it
one after the other while those that run already may fail and need it.

A handler serves a page or a redirect, queues a replay, throws, or does nothing of these.
Serving begins with `handle_initial_redirects`, in the steps that other threads can come
between: it evaluates the callback (`HandleInitialRedirects`), and if that is still set, a
page exchanges it (`ExchangeCallback`) and starts the threads, and a redirect whose URL
begins with the path of the base (either, here) sets the server's base
(`SetServerBase`). The value of the base is in `Browsing`; here `at = "updating"` says who
is assigning it. The worker takes these steps as well: a redirect that has a body is
recorded before the threads are started, and when it is asked for again, before the first
page, the worker replays it (disagreement 3 below). A replay needs something `recorded`.

Only exceptions that leave `io_service::run` count: those of client callbacks, such as a damaged gzip body. (An
exception of `handle_request` is caught by the HTTP server.) On a thread of the pool
such an exception is stored and costs that thread; on the main thread it leaves
`Server::run` without joining, and destroying a joinable `std::thread` terminates
the program. Whether a replay throws is not considered: the same header was
processed without an exception when it was recorded.

`UnservedPages` says whether a page can be recorded without having been served,
which takes the serve policy *last* and an archive that has a redirect for the page.
Then the worker may be the one that starts the threads (disagreement 6 below), even when the
server is no more, which is undefined in the code and not followed further here. The
run therefore has `UnservedPages = FALSE`; the theorems say which of them need it.

### SessionStores

Each operation of the stores is a step; `Finish` writes both texts, `Initialize`
makes new stores from them. The texts are what the two formats are about, so they
are modelled as sequences of lines of tokens; the tokens that separate keys from
values also occur in values, as they do in real cookies and header fields. A header
is a set of fields: the order of equal names in the multimap is not modelled, and
neither are texts without a final line break, which `serialize` never writes.
`StoresAssumption` says what the formats rely on: no line breaks inside, no host that
begins with a tabulator, no colon in the name of a field, finitely many fields. The loops
of `deserialize` are recursive functions over the lines, one step for each line
(`ReadCookieLine`, `ReadHeaderLine`).

### ArchiveReader

Several threads call `get_file_info` and `read` (`Ask`); the rest of `read` is one step
for each call of minizip, because other threads may go on in between. A context is
taken from the pool or newly opened (`Acquire`), has a position, and comes back
through the guard of `do_read` on every way out. `todo` are the layers in which a
version is still searched: the overlay (`first/`), then the base. `OpenFails` stands
for a failing seek as well as a failing open; `unzReadCurrentFile` may fail unnoticed,
which leaves a buffer of zeros (`Garbage`). The archive is any set of entries, any of
which may be empty. `open` calls `read_contents` once; that it does not clear
`m_contents` cannot be seen, since no reader is opened twice.

### UrlFunctions, HostList, CacheInfo and Browsing

A URL is a sequence of tokens: delimiters, and words that are never divided. The
functions of `common.cpp` are translated with their searches (`find`, `rfind`,
`starts_with`) on these sequences, so a prefix that is not an origin, a `//` in a path or
a missing scheme has the effect it has in the code. Loops over a path are recursive
functions with one value for each round; they end when nothing changes any more, at the
latest after as many rounds as there are tokens. `CacheInfo` works on the fields it
looks at; times are numbers.

`Browsing` composes them with the handlers of `Logic`, one request after the other, and
with a browser that follows redirects that lead to the local server and resolves
references as RFC 3986 says: an empty path keeps the path of the base, `//host` its
scheme, and what a dot segment at the end leaves ends with a slash. A first session records; `Shutdown` ends it, and the second gets
the same requests, off line or with the standard download policy. `journal` and
`replayed` are histories of what was asked, what URL that meant, what was answered, and
what the session knew afterwards (`Known`: the base of the server, its path, whether threads
were started, which hosts demand transport security). `ReplaysLikeRecorded` is about
recordings in which no two requests that differ in URL or data share a file name
(`NamesAreDistinct`): of two that do, the archive keeps one.
Web sites answer a URL alike at all times, but in any way the first time. Concurrency is
`RequestHandling`'s, cookies are `SessionStores`'; neither changes a URL.

### HtmlPatcher

A page is a sequence of elements with places in the text, three pieces of text each.
The walk with `element_stack`, the collection of patches, the sorting and
`get_patched` are steps. Elements are numbered depth first, so the top of the stack is
the largest number on it and the stack can be a set; `WellFormed` says which trees the
parser makes, and `PagesAssumption` that all pages are such. `std::sort` is not stable, so patches of one position come in
any order. An element may have a clone with the same place (gumbo makes them for
formatting elements that were not closed), the head may be implied, in which case the first
text `<head>` of the page (a "stray" element) takes its place, and a policy tag may
have anything inside of it removed with it. `SkipPatch` is the `continue` for overlapping
ranges.

## 3. Runs

| run | what is asked | instance |
|-----|---------------|----------|
| `writer_queue` | all safety properties of the writer, refinement of `WriteOnceStore`, reads answered, close returns | one synchronous and two asynchronous files, two contents, two reads, no failures |
| `writer_failures` | the same instance with every failure of minizip: nobody gets another file's data, and close returns | as above, `MayFail` |
| `requests` | pairing, agreement of replays, fresh pages, archived pages kept, one answer | three requests, two URLs, two file names, all policies |
| `requests_progress` | every request is answered unless a connected server remains silent | two requests, standard downloads, with incomplete responses, streams, a blocked host |
| `sessions` | the archive survives, accumulates, keeps first versions, pairs header and body | three sessions, two pages, kills and failures everywhere |
| `failed_start` | *violation*: requests are served from the ZIP file again | two sessions, setup may fail |
| `server_threads` | the main thread starts the threads once and sets the base alone among the server's threads, exceptions are reported and cost no recording, finish is alone, CTRL-C ends the program | a pool of two threads, two replays |
| `stores` | the cookie cache is never stale; cookies and headers return in the next session | two hosts, two URLs, four cookies, three kinds of responses |
| `reader` | reads are faithful, contexts are accounted for | two threads, two files in two layers, three contexts |
| `browsing` | URLs come back, hosts stay secure or blocked, the second session is like the first | three requests of seven kinds, seven kinds of responses, two sessions |
| `patching` | pages are kept, the script comes first | up to two elements in the head and in the body, nested, cloned, with a head tag, with a stray one, or without |
| `relative_redirect` | *violation*: "forwards all requests to their original domain" | as `browsing`, two requests |

### Why the bounds are enough to be interesting

* Writer: two asynchronous files and two reads let the queue hold writes and
  reads of both files in any order while a third task is in hand, and the handle
  alternate several times; two contents let a second write of a file differ from
  the first. The synchronous file makes the owner use the handle at the same time
  as the worker. All runs are exhaustive; nothing else bounds the state space.
* Requests: three requests let one URL be fetched twice concurrently while a
  third replays it; two URLs and two file names give both the injective and the
  colliding assignment. The requests are interchangeable, and `Request` appears
  in no property in an asymmetric way, so `SYMMETRY` is sound for the safety run;
  the liveness run does not use it. `MaxThreads = 2` is the least value that
  makes handlers concurrent; more threads only matter for more than two handlers
  at once, since the worker and the upstream are separate anyway.
* Sessions: with three sessions, a page can be downloaded, skipped, and
  downloaded or kept again, under a different policy each time; that is what it
  takes for a first version to be created, moved and lost. Two pages, one of
  which may be on a blocked host. The policy `first` is not among those of
  `sessions`: under it the oldest body of a page that was not requested comes
  with the newest header by design, which `BodyHasItsHeader` excludes.
* Threads: two threads of the pool are the least with which one can fail, or be
  joined, while another still runs or is not yet started; the theorems cover the
  five of the program. `MaxReplays` bounds the replays of a run.
* Stores: the cookies are one with attributes that contain the separator, one whose
  value contains it, an empty one, and one without it; header values contain
  colons or are empty. The state space is finite without further bounds.

* Reader: two threads are what sharing takes, and both may read the same file; three
  contexts are one more than may ever be open, so a leak shows. All archives of four
  entries, empty ones included, are initial states.
* Browsing: two requests are needed to redirect and follow, or to demand transport
  security and come back; the third is the first that may depend on both. Responses
  include absolute, relative and other-origin redirects, permanent or not, on which
  the server base, the prefix test and transport security depend.
* Patching: four elements besides head and body make a patch coincide with the
  injected ones, lie inside of another, and be repeated by a clone.

`CHECK_DEADLOCK FALSE` is used in `reader`, `browsing` and `patching`, which end: a reader
is closed, a session is replayed, a page is patched.

### Fairness

`ArchiveWriter!FairSpec`: weak fairness of the worker, of the notification after
an insertion, and of a close that has begun: threads are scheduled. Callers need
not submit or close anything, and spurious wakeups are not promised.

`RequestHandling!FairSpec`: weak fairness of each request's handlers and of the
worker, and of *connect or fail to connect*, since the code sets
`timeout_connect`. There is none for `Respond`: no timer covers the time after
the connection, which is why `AnsweredUnlessSilent` has its exception (so
`--request-timeout` does not bound a request whose server accepts and stays silent). A request that waits for a thread needs none
either: only `Receive`, `ConnectFails` and `Respond` need a free thread.
`ConnectFails` and `Connect` share one fairness condition, so a thread pool that
is busy does not block progress.

`ServerThreads!FairSpec`: weak fairness of every thread that has something to do.
Handlers may be run again and again, so the one that stops the io_service has strong
fairness: asio runs ready handlers in the order in which they became ready. Nobody
need press CTRL-C.

## 4. Disagreements found

With a run that shows the violation:

1. `failed_start`: a start that fails because a block list or script cannot be
   read replaces the archive with an empty one.
2. `relative_redirect`: an initial redirect to a relative URL makes that the base of the
   server; no later request can be completed to a URL with a scheme, and
   `Client::request` throws for each.

Seen while modelling, without a run of their own:

3. The worker of `ArchiveWriter` replays a redirect before the threads are started. It
   evaluates `m_start_threads_callback` while the main thread may exchange it, and may set
   the server's base while the main thread reads it, or even a thread that was started
   between its evaluation and its `set_server_base`. Nothing is locked (Logic.h:58, "only
   updated while single threaded"; Logic.cpp:433, "only evaluate while single threaded").
   It takes a redirect (301) with a body that is requested twice before the first page; for
   `set_server_base`, one from a URL that begins with the path of its own target, such as a
   page that redirects to itself to set a cookie. The last part of `StartedOnce` therefore
   excepts the worker: stated of every `Thread`, TLC finds it violated after nine steps, in which a
   redirect is served and recorded, asked for again, and taken by the worker while the main
   thread is about to exchange the callback for a page.
4. With the serve policy *last* the archived page is sent and the download continues;
   when its response turns out to be incomplete, `serve_error` sends a second time and
   the assertion in Server.cpp:145 fails. `AnsweredOnce` is therefore checked
   with upstream servers whose responses are complete.
5. After a failed `reopen`, `m_zip` is null and the next `do_write` truncates the
   temporary file; everything reported as written before is gone while `m_contents`
   still names it (Archive.cpp:359; `ReopenedForWriting` with `MayFail`).
6. A page that was recorded unserved is replayed by the worker of `ArchiveWriter`,
   which then changes and calls `m_start_threads_callback` while the main thread runs a
   handler, joins threads or has destroyed the server, or finds that the main thread has
   taken it and terminates the program (`UnservedPages`).
7. Under the archive policy *latest* a new response without body (a redirect, for
   example) is replaced at the end by the archived header and body (Logic.cpp:491).
8. Under the archive policy *first* a page that is downloaded again replaces the
   archived one (Settings.h:20, "do not update files").
9. The request timeout bounds connecting only (`README.md:47` of the repository).
10. A policy tag directly behind the head tag lies where the script is injected:
   depending on the order of equal positions the script is inserted or left out, and the
   tag never stays. Pages without the text of a head tag get no script at all
   (Settings.cpp:195, "inject JavaScript in every HTML file"). Both are excepted in
   `ScriptComesFirst`.
11. The last line of a block list without a line break is not read, and a host with
   a port is not the listed one (HostList.cpp:11 and 28). `BlockedIsNotServed` speaks of
   complete lines and of hosts without ports.
12. A URL that begins with the text of the server's base but is of another origin
   (`http://a.com:8080/x` for `http://a.com`) is made relative all the same
   (common.cpp:330). `RedirectsComeBack` excepts it.
   Some redirects do not come back to what was meant either: to a URL without path but with
   a query (`http://a.com?q` is sent as `?q`), to a query alone (`?q`; the file name gets lost), with
   an empty query (`x?`) or dot segments in the query, to a path that looks like a patched
   URL (`/http://b.com/x`), and to the address of the local server. The instance has none
   of them, and the hypotheses of `AlwaysComeBack` exclude them.
13. Redirects other than 301 are not initial redirects (Server.h:14).
14. A comma is missing between `"Cache-Control"` and `"Link"` (Logic.cpp:399), so that
   neither field is filtered; `normalize_path` leaves a `./` in `././x` and takes
   `/..x` for `/..`; `s-max-age` is not the name of a directive (CacheInfo.cpp:22).

## 5. Proofs

The theorems hold for every value of the constants that satisfies the named
assumptions of the modules: any number of files, requests, URLs, sessions.

**ArchiveWriterProofs.** `TypeCorrect` is inductive by itself. `NeverSleepsThroughWork`
proves `[]NoLostWakeup`: relative to `TypeOK` it is inductive, because a task that
is inserted while the worker sleeps meets an empty queue (otherwise a
notification were outstanding and the owner could not be `"open"`), so its
insertion sets `owner = "notifying"`. Both hold with failures as well, and so does
`NeverForeign`: its `Invariant` says that every queued write carries what was accepted
for its file, that everything stored is that or damaged, and that every answer comes
from the file that was asked for.

The other three assume `~MayFail` (disagreement 5 is what happens otherwise). They rest on
`Pending`, the task in hand followed by the queue, which no step of waiting, waking or
taking a task changes (`StepKinds`). `FaultFree` says of it that a file has exactly one
pending write or is stored, that a read is pending behind the write of its file
(`WrittenBeforeRead`) and only once, and that the handle is never lost while the archive is open, so
reopening never truncates (`HandleKept`). `AlwaysAccounted` follows, and `CompleteWhenClosed`
since the worker exits only when nothing is pending. `Implementation` is the refinement of
`WriteOnceStore`, step by step (`StoreStep`): submitting is `Accept` or `Ask`, performing a read
is `Reply`, closing is `Close`, and everything else stutters.

**RequestHandlingProofs.** The inductive invariant is `Invariant`. `TypeOK` is not
inductive alone: that a replay serves an entry needs to know that the header is
recorded (`Replayed`), that a failure is answered from an archived entry needs
`Arrived`, and that a request has a URL when it is handled is in `Begun`. The two
observations that carry the proofs are `PairedByWriting` (a file that is not yet
accepted belongs to no recorded entry with a body, so accepting it cannot break a
pair, even when URLs share the file name) and `RecordedFrozen` (`async_write_file`
does not touch the entry of a page whose file is in the archive).
`AlwaysPaired` follows from the first, `NeverChanged` and `AlwaysAgree` from the second
together with `Replayed`, which says that every replay was asked for while the file
and the entry were there.

`RequestInvariant` adds what is known of each request on its way: one that still waits
for its response has been sent nothing, unless the archived page was sent before under the policy
*last*, or an earlier event of a stream (`SentBefore`); what is about to be recorded is never a failure of an archived page
(`RecordingGood`); and, if no two URLs share a file name, every entry recorded or sent belongs
together and to its URL (`Matched`).
Every step works on one request (`StepOf`, `Frame`), so each of these is proved for that one.
From it follow `NeverReplacedByFailure`, `AlwaysFresh` and `AlwaysBelongTogether`, the last one
for all three sources of an answer. `NeverTwice` has the hypothesis `Undisturbed`: either no response is
incomplete, or neither the policy *last* nor event streams are used. Without it the property
is false (disagreement 4).

**RecordingSessionProofs.** `NeverDestroyed` is proved by `Whereabouts`, which says
for each phase where the completed archive is. `NothingForgotten` and
`FirstVersionKept` are action properties about the step that puts the archive in
place, long after `Finish` computed it; the invariant `Accumulating` carries what
`append_unrequested_files` has established (`AppendAccumulates`) through the phases
of the move. Both are proved for any number of sessions and any mix of policies.
`AlwaysPaired` needs that header and body go together wherever an archive may be, in
the temporary file and in what a killed copy leaves over, not only in place (`Pairing`), and
that appending keeps it (`AppendPairs`; the policy *first* is excluded, see section 3). `AlwaysWhole` says by `Whole` what is on the disk in each
phase of a session that is not disturbed.

**ServerThreadsProofs.** `Invariant` adds to the types who may hold what it has seen of
the callback (`Starting`), that only threads inside the io_service do anything
(`Active`), that the pool is joined when `join_threads` has returned (`Joining`), and
where a thrown exception has got to (`Exceptions`): it is being caught, or stored, or it
was the main thread's. `FinishIsAlone` and `ExceptionsReported` need all of them, because
the pool must not grow or throw while it is joined. All but `TypeCorrect` assume that no
page is recorded unserved, since a worker that starts threads breaks them.
`AlwaysStartedOnce` does not say that only the main thread is at work before the start, which
is false (disagreement 3), but that the worker is the only other one, and that it never
takes the callback.

**ArchiveReaderProofs.** `TypeCorrect` needs `Busy` (who searches has an entry left, and
who reads has a context). `AlwaysAccounted` is proved by `Accounted`: the pool and the contexts in
use are disjoint, and different threads use different ones. From this the number of
contexts follows: a new one is opened only while the pool is empty, so those that are open
are at most as many as the other threads (`UsersAreEnough`). `AlwaysFaithful` adds
`Faithful` of each thread to it: its context stands at the entry it looks for (`Search`; no
other thread moves it, because contexts are not shared), and every entry it has asked for
was of no use or is still to be tried until one has data (`Result`).

**SessionStoresProofs.** `CacheAlwaysFresh`: the cache is emptied of exactly the hosts whose
lists a cookie may change. `CookieLinesReturn`, `HeaderLinesReturn` and `HeadLinesReturn` are about the formats:
each line that is written is read back as what it was written for, whatever separators its
values contain, and lines of one kind are not taken for another. They rest on the search
for the first separator (`FirstPosition`).

`CookiesAlwaysReturn` and `HeadersAlwaysReturn` are about whole texts, of any number of hosts,
pages and fields: what `serialize` writes is read by `deserialize` as the store it was
made from (`CookiesComeBack`, `HeadersComeBack`). The keys of a finite map are listed once
each (`ListedOnce`); reading the lines of one host, the store has after `k` of them what the
first `k` keys had (`Part`, `PartGrows`, `CookiesOfHostReturn`), and reading a text that was put together
from the blocks of the hosts goes on where the blocks before have ended (`JoinedInOrder`, `ReadOn`).
Each of these inductions is made with a least number of lines, keys or hosts for which it would fail
(`MinIsLeast`), since the induction theorems of the library take an operator as a parameter. The
inductive invariant, `StoresInv`, says that the stores are finite maps of what was seen, and that an
archive holds the two texts of the stores it was written from; `StoresTyped` follows from it.

**HtmlPatcherProofs.** For pages of any size. While parsing, every element is visited, on the
stack, or below one that was not visited (`Pending`), so that in the end, when the stack is
empty, all of them are (`AllSeen`). A patch replaces a part of one element, and all of it is
unwanted (`Region`); hence two regions that overlap are nested (`Nested`), and skipping the inner
one loses nothing. While patching, the patches that are left cover what is unwanted from `pos`
on, and the text made so far has exactly what is wanted before `pos`, in order (`Kept`);
the end of that is `AlwaysKept`. For `ScriptAlwaysFirst`, `Inserting` follows script and base
tag: each is either still a patch at the head or has been inserted, and parts the text before
the head from the text behind it. `Left` and inserted texts are kept as sets because
`std::sort` may leave patches of one position in any order.

**BrowsingProofs.** For any requests, responses, block list and number of requests.
`AlwaysReplaysLikeRecorded` rests on `ReplayInvariant`, which has three parts. `Learning`:
what a session knows follows from its notes, one after the other (`Taught`), and each note
follows from what was known before it (`Follows`), so that nothing is carried over that is not
noted. `Recording`: while names are distinct, the archive holds exactly what the sites have
answered (`Stored`, and `Kept` for each note). `Replaying`: the archive that the second session
reads is that of the first. Hence the second session, which begins like the first
(`Initially`), gives each request the same meaning (`MeansTheSame`), finds what was recorded
for it, and learns the same from it, note by note.

`TextsRemain` says that no URL ever leaves the domain of sequences: each function of
`UrlFunctions`, and the browser's way to resolve references, makes a sequence of tokens of
sequences of tokens. The lemmas about them say what a search finds (`Finding`, `FindingBack`)
and what a cut leaves (`Cut`). For the recursive functions it is shown that each round leaves
a text and that therefore all rounds do. The induction theorems of the library cannot be
used for that (they take an operator as a parameter), so there is a least round that would
not leave one (`MinIsLeast`), and the round before it refutes it (`Stepping`); that the functions
exist is shown in the same way (`SomeIsDefined`).

`AlwaysBlocked` follows from `Learning`: no note has a response of a blocked host, since
`serve_blocked` comes before every source, and the domains that `HostList::contains` goes
through are all endings of the host behind a dot (`DomainsAreAll`). Its hypothesis is that each host of
`ListedHosts` is named by a complete line of the block list (`Names`); by `LinesAreListed` such hosts
are in the set that is read from the file, whatever the white space, address and comment around them.
The instance of the run satisfies it. `AlwaysSecure` needs `Secured`: the entries for transport security are those
that the first demanding response of each host has made, and once there is an entry, the expression for the
host matches every plain URL of it (`HostMatches`), so that none is requested
(`PlainMatchesNone`); this uses `TextsRemain`.

`AlwaysComeBack` is `RedirectsComeBack` under three hypotheses on the constants. The program is
started for a URL of a web site (`StartsAtSites`, `Site`: an http or https origin, a path, a query, a
fragment). Sites redirect to such URLs, to paths of their own, or to pages relative to the one requested,
none of them with dot segments (`References`). The other requests are for paths of the site, or for
URLs of other hosts, with a path, that were patched (`RequestsOfSites`). The inductive invariant is `Returning`: such
are the paths of all requests, also of those that follow a redirect (`Proper`); the base is an
origin or the relative reference of an initial redirect (`Based`); a request that follows a redirect
is the one the browser makes of the answer before it (`Followed`); and only what came by http is in
the archive (`OnlyHttp`), since nothing but an exception answers other URLs. A step needs three
facts. What a request means is an origin with a path and a query, if it is an http URL at all
(`MeansRequested`; it may be upgraded to https, `Upgraded`). `to_absolute_url` and the browser agree on
what the site meant (`Meant`). And what `to_relative_url` leaves of it is resolved by the browser to a path that
`unpatch_url` and `to_absolute_url` turn into that URL again, if the path is still one of the local
server (`RedirectReturns`). There are two cases of that: the URL has the base as its origin
(`ComesBack`), or its origin only begins with the text of the base (disagreement 12), where the path must at
least remain `Proper` (`StaysProper`). All of this rests on where the searches of the URL
functions stop in a text that is put together from parts (`PathEnds`, `OriginFound`, `UrlParts`), and on
`Simplified` and `normalize_path` changing nothing where there are no dot segments (`SimplifiedSame`,
`NormalizedSame`).

**Only model-checked.** `ReadsAnswered`, `CloseReturns`, `AnsweredUnlessSilent` and
`InterruptEnds` are liveness properties, out of reach of the prover. `RedirectsComeBack` for references with
dot segments (the run has `../x#here`) stays with TLC: there the browser and `normalize_path` walk through the
segments in different ways, an induction over data in two recursive functions of which neither takes
the rounds of the other.

## 6. Not modelled

* `LossyCompressor`, `platform`: calls into libraries on one buffer, and I/O, without
  protocol state. The command line: sequential parsing.
* Vendored libraries. They are nearly all of the code in the repository (asio, gumbo,
  stb, zlib, minizip, Simple-Web-Server: 180 000 of 182 000 lines), so the lines the
  modules translate are a small share of the whole, though most of `src/src/`.
* Of the URL functions: character sets, hashes (taken to be unique words), random names,
  legal file names. Of the client: how gzip data is decoded.
* Cookies in `Browsing` (`SessionStores` has the stores; no cookie changes a URL), and
  which of two responses has set one last.
* `open_root` and `for_each_file` of `ArchiveReader`, which the program does not call.
* What happens after undefined behaviour (disagreements 3 and 6), damaged archives, and
  `std::localtime` and `std::gmtime` on two threads, which share one buffer.
* Titles without end tag (`--patch-title`), whose length the code computes from a null
  pointer.

## 7. Plan

Done: all components that keep state or decide what is served, their runs, and the
theorems above; every safety property of the runs is stated by one. To come:
`RedirectsComeBack` for references with dot segments, first for a single `../` in front, where
both sides remove the last segment of the directory.

--------------------------- MODULE RecordingSession ---------------------------
(***************************************************************************)
(* The archive file over several runs of the program (src/src/Logic.cpp,   *)
(* initialize to finish, and ArchiveWriter::close in Archive.cpp).  A run  *)
(* reads the archive, records to a temporary file, completes that with     *)
(* what was archived but not requested, and moves it in place of the       *)
(* archive.  The program may be killed at any point.                       *)
(*                                                                         *)
(* A version of a page is the number of the session that downloaded it, 0  *)
(* for none; it stands for the header, the body and the modification time  *)
(* alike.  Every URL has a file name of its own here (RequestHandling      *)
(* covers URLs that share one), and what the requests of a session have    *)
(* done is reduced to what they have recorded.                             *)
(***************************************************************************)
EXTENDS Naturals

CONSTANTS Url, None, Damaged,
          Policies,       \* the archive policies the sessions may use
          BlockLists,     \* the sets of URLs on blocked hosts sessions may use
          MaxSession,     \* bound on the number of sessions
          Interruptible,  \* may the program be killed?
          MoveMayFail,    \* may removing, renaming or copying fail?
          SetupMayFail    \* may initialize throw with the archive opened?

Version == 0..MaxSession
Pages == [Url -> Version]
NoPages == [u \in Url |-> 0]

\* What an archive holds for each URL: the header entry, the body stored
\* under its name and the body stored under first/ and its name.
Archive == [header : Pages, body : Pages, first : Pages]
Empty == [header |-> NoPages, body |-> NoPages, first |-> NoPages]

ASSUME SessionAssumption ==
  /\ Policies \subseteq {"latest", "first", "latest-and-first", "requested"}
  /\ BlockLists \subseteq SUBSET Url
  /\ MaxSession \in Nat
  /\ None \notin Archive \cup {Damaged}
  /\ Damaged \notin Archive
  /\ {Interruptible, MoveMayFail, SetupMayFail} \subseteq BOOLEAN

VARIABLES
  target,     \* the file at m_settings.output_file
  temp,       \* the temporary file, None until it is complete
  strays,     \* complete temporary files that sessions have left behind
  session,    \* number of the running or last session
  phase,      \* how far the session has come
  policy,     \* m_settings.archive_policy
  blocked,    \* the URLs on m_blocked_hosts
  reader,     \* m_archive_reader, None without a readable input file
  writer,     \* m_header_writer and the files handed to m_archive_writer
  fetched,    \* history: the URLs downloaded in this session
  last,       \* history: the archive most recently put in place
  newest,     \* history: the archive most recently completed
  interrupted \* history: a session was killed, failed to start or to move
vars == <<target, temp, strays, session, phase, policy, blocked, reader,
          writer, fetched, last, newest, interrupted>>
files == <<target, temp, strays>>
setup == <<session, policy, blocked, reader>>
history == <<last, newest, interrupted>>

TypeOK ==
  /\ target \in Archive \cup {None, Damaged}
  /\ temp \in Archive \cup {None}
  /\ strays \in SUBSET Archive
  /\ session \in 0..MaxSession
  /\ phase \in {"idle", "recording", "removing", "renaming", "copying",
                "copied", "unlinking"}
  /\ policy \in Policies
  /\ blocked \in SUBSET Url
  /\ reader \in Archive \cup {None}
  /\ writer \in Archive
  /\ fetched \in SUBSET Url
  /\ last \in Archive \cup {None}
  /\ newest \in Archive \cup {None}
  /\ interrupted \in BOOLEAN

Init ==
  /\ target = None
  /\ temp = None
  /\ strays = {}
  /\ session = 0
  /\ phase = "idle"
  /\ policy \in Policies
  /\ blocked = {}
  /\ reader = None
  /\ writer = Empty
  /\ fetched = {}
  /\ last = None
  /\ newest = None
  /\ interrupted = FALSE

-----------------------------------------------------------------------------
(* initialize                                                              *)

\* Writing starts to a new temporary file.
Open ==
  /\ phase = "idle"
  /\ session < MaxSession
  /\ session' = session + 1
  /\ policy' \in Policies
  /\ writer' = Empty
  /\ fetched' = {}
  /\ UNCHANGED <<target, strays, last>>

\* The input file, which is the output file as well, is opened if it can be.
Start ==
  /\ Open
  /\ reader' = IF target \in {None, Damaged} THEN None ELSE target
  /\ blocked' \in BlockLists
  /\ phase' = "recording"
  /\ UNCHANGED <<temp, newest, interrupted>>

\* A file with blocked hosts or with JavaScript cannot be read: the exception
\* leaves the constructor, which destroys the reader; ~ArchiveWriter closes
\* what was opened, and finish is never called.
StartFails ==
  /\ SetupMayFail
  /\ Open
  /\ reader' = None
  /\ blocked' = {}
  /\ temp' = Empty
  /\ newest' = Empty
  /\ phase' = "removing"
  /\ interrupted' = TRUE

-----------------------------------------------------------------------------
(* Recording: async_write_file as the requests of a session call it.       *)

\* A response is recorded once it has a body; before that only its header is.
Download(u, empty) ==
  /\ phase = "recording"
  /\ u \notin blocked
  /\ writer.body[u] = 0
  /\ writer' = [writer EXCEPT !.header[u] = session,
                              !.body[u] = IF empty THEN 0 ELSE session]
  /\ fetched' = fetched \cup {u}
  /\ UNCHANGED <<files, setup, phase, history>>

\* An archived page is served from the archive and kept.
Keep(u) ==
  /\ phase = "recording"
  /\ u \notin blocked
  /\ reader # None
  /\ reader.header[u] # 0
  /\ writer.body[u] = 0
  /\ writer' = [writer EXCEPT !.header[u] = reader.header[u],
                              !.body[u] = reader.body[u]]
  /\ UNCHANGED <<files, setup, phase, fetched, history>>

-----------------------------------------------------------------------------
(* finish                                                                  *)

\* Mutant of Top: the overlay path is not set.
Top_Base(u) == reader.body[u]

\* ArchiveReader::top is the body under first/ if there is one.
Top(u) == IF reader.first[u] # 0 THEN reader.first[u] ELSE reader.body[u]

\* Mutant of Unrequested: a page counts as recorded with its header.
Unrequested_NoHeader(u) == /\ reader.header[u] # 0
                           /\ u \notin blocked
                           /\ writer.header[u] = 0

\* append_unrequested_files: every archived page whose body was not recorded
\* is taken over with its header, ...
Unrequested(u) == /\ reader.header[u] # 0
                  /\ u \notin blocked
                  /\ writer.body[u] = 0

\* Mutant of AppendedHeader: a header that was recorded is not replaced.
AppendedHeader_Recorded(u) ==
  IF Unrequested(u) /\ writer.header[u] = 0 THEN reader.header[u]
  ELSE writer.header[u]

AppendedHeader(u) == IF Unrequested(u) THEN reader.header[u] ELSE writer.header[u]

AppendedBody(u) ==
  IF Unrequested(u)
  THEN IF policy = "first" THEN Top(u) ELSE reader.body[u]
  ELSE writer.body[u]

\* ... and so is the oldest body when it differs from the one above.
AppendedFirst(u) ==
  IF /\ policy = "latest-and-first"
     /\ reader.header[u] # 0
     /\ u \notin blocked
     /\ Top(u) # AppendedBody(u)
  THEN Top(u) ELSE 0

AppendUnrequestedFiles ==
  IF reader = None \/ policy = "requested"
  THEN writer
  ELSE [header |-> [u \in Url |-> AppendedHeader(u)],
        body |-> [u \in Url |-> AppendedBody(u)],
        first |-> [u \in Url |-> AppendedFirst(u)]]

\* finish up to do_close: the temporary file is complete.
Finish ==
  /\ phase = "recording"
  /\ writer' = AppendUnrequestedFiles
  /\ temp' = writer'
  /\ newest' = writer'
  /\ phase' = "removing"
  /\ UNCHANGED <<target, strays, setup, fetched, last, interrupted>>

\* resolve_collision removes the archive that is to be replaced.
RemoveTarget ==
  /\ phase = "removing"
  /\ target' = None
  /\ phase' = "renaming"
  /\ UNCHANGED <<temp, strays, setup, writer, fetched, history>>

\* Mutant of Abandon: a temporary file that is not complete is left as well.
Abandon_Incomplete ==
  /\ strays' = strays \cup {temp}
  /\ temp' = None
  /\ phase' = "idle"
  /\ interrupted' = TRUE
  /\ UNCHANGED <<setup, writer, fetched, last, newest>>

\* The session ends with the temporary file left where it is.
Abandon ==
  /\ strays' = strays \cup ({temp} \ {None})
  /\ temp' = None
  /\ phase' = "idle"
  /\ interrupted' = TRUE
  /\ UNCHANGED <<setup, writer, fetched, last, newest>>

RemoveFails ==
  /\ MoveMayFail
  /\ phase = "removing"
  /\ target # None
  /\ UNCHANGED target
  /\ Abandon

\* move_file: the file is renamed, or copied when it cannot be, and the
\* copy is removed when it is complete.
InPlace == /\ target' = temp
           /\ last' = temp

Rename ==
  /\ phase = "renaming"
  /\ InPlace
  /\ temp' = None
  /\ phase' = "idle"
  /\ UNCHANGED <<strays, setup, writer, fetched, newest, interrupted>>

\* Mutant of RenameFails: the error is not examined.
RenameFails_Ignored ==
  /\ MoveMayFail
  /\ phase = "renaming"
  /\ phase' = "idle"
  /\ UNCHANGED <<files, setup, writer, fetched, history>>

RenameFails ==
  /\ MoveMayFail
  /\ phase = "renaming"
  /\ phase' = "copying"
  /\ UNCHANGED <<files, setup, writer, fetched, history>>

\* Mutant of BeginCopy: the source is unlinked while it is copied.
BeginCopy_Unlinking ==
  /\ phase = "copying"
  /\ target' = Damaged
  /\ temp' = None
  /\ phase' = "copied"
  /\ UNCHANGED <<strays, setup, writer, fetched, history>>

BeginCopy ==
  /\ phase = "copying"
  /\ target' = Damaged
  /\ phase' = "copied"
  /\ UNCHANGED <<temp, strays, setup, writer, fetched, history>>

CopyFails ==
  /\ phase \in {"copying", "copied"}
  /\ UNCHANGED target
  /\ Abandon

EndCopy ==
  /\ phase = "copied"
  /\ InPlace
  /\ phase' = "unlinking"
  /\ UNCHANGED <<temp, strays, setup, writer, fetched, newest, interrupted>>

RemoveTemp ==
  /\ phase = "unlinking"
  /\ temp' = None
  /\ phase' = "idle"
  /\ UNCHANGED <<target, strays, setup, writer, fetched, history>>

-----------------------------------------------------------------------------

\* The program is killed.  A temporary file that is not complete is useless.
Kill ==
  /\ Interruptible
  /\ phase # "idle"
  /\ UNCHANGED target
  /\ Abandon

Terminated == phase = "idle" /\ session = MaxSession /\ UNCHANGED vars

Next ==
  \/ Start \/ StartFails
  \/ \E u \in Url, empty \in BOOLEAN : Download(u, empty)
  \/ \E u \in Url : Keep(u)
  \/ Finish
  \/ RemoveTarget \/ RemoveFails
  \/ Rename \/ RenameFails \/ BeginCopy \/ CopyFails \/ EndCopy \/ RemoveTemp
  \/ Kill
  \/ Terminated

Spec == Init /\ [][Next]_vars

-----------------------------------------------------------------------------
(* Properties.                                                             *)

\* Archive b still has every page that archive a has, in the same version or
\* a newer one, apart from the pages in except.
Covers(b, a, except) ==
  \A u \in Url \ except : /\ a.header[u] # 0 => b.header[u] # 0
                          /\ b.body[u] >= a.body[u]

\* However often sessions are killed or fail to move their archive, the archive
\* completed last is on the disk: the one that was in place is removed only
\* after the temporary file is complete, and that only after it is in place.
NothingDestroyed ==
  newest # None => newest \in strays \cup {target, temp}

\* A session that puts its archive in place forgets no page of the archive it
\* started with, unless it was asked to keep only what is requested or to
\* block hosts, and no page reverts to an older version.
PagesAccumulate ==
  [][last' # last /\ reader # None /\ policy \notin {"requested", "first"} =>
       Covers(last', reader, blocked)]_vars

\* The oldest version of a page an archive holds.
Oldest(a, u) == IF a.first[u] # 0 THEN a.first[u] ELSE a.body[u]

\* Settings.h:21, "keep first and update latest version of file": the first
\* version of a page stays the first in all sessions to come.
FirstIsKept ==
  [][last' # last /\ reader # None /\ policy = "latest-and-first" =>
       \A u \in Url \ blocked :
         Oldest(reader, u) # 0 => Oldest(last', u) = Oldest(reader, u)]_vars

\* The body of a page is stored with the header it arrived with, across all
\* sessions (the policy "first" is a known exception: it combines the body
\* under first/ with the latest header).
BodyHasItsHeader ==
  "first" \notin Policies /\ last # None =>
    \A u \in Url : last.body[u] # 0 => last.header[u] = last.body[u]

\* The archive is whole whenever no session is running, unless one was
\* interrupted.
IdleIsWhole ==
  phase = "idle" /\ ~interrupted => target = last /\ temp = None /\ strays = {}

\* README.md:23, "When the same command is called again, the requests are
\* served from the ZIP file": no start of the program loses archived pages.
StartKeepsArchive ==
  [][last' # last /\ last # None /\ policy = "latest" =>
       Covers(last', last, blocked)]_vars
=============================================================================

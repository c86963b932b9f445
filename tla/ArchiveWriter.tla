---------------------------- MODULE ArchiveWriter ----------------------------
(***************************************************************************)
(* ArchiveWriter (src/src/Archive.cpp, Archive.h): files are handed over   *)
(* by the threads of Logic and written to a temporary ZIP file by one      *)
(* worker thread, which takes tasks from a queue guarded by a mutex and a  *)
(* condition variable.  The one ZIP handle is reopened whenever reading    *)
(* and writing alternate.                                                  *)
(*                                                                         *)
(* Every caller that submits a task holds Logic::m_write_mutex until the   *)
(* task is inserted and the worker is notified (async_write_file,          *)
(* serve_previously_served) or is the only thread left (initialize,        *)
(* append_unrequested_files, finish), so the submitting side is one        *)
(* sequential process here, the "owner".  A step of the owner or of the    *)
(* worker is what it does while it holds a mutex.                          *)
(***************************************************************************)
EXTENDS Naturals, Sequences, FiniteSets

CONSTANTS Meta,       \* files written synchronously: uid, url, headers, cookies
          Content,    \* files written by the worker
          Data,       \* contents of a file
          Reader,     \* one element for each async_read that may be issued
          None,       \* neither a file nor any contents
          Damaged,    \* contents that were not completely written
          MayFail     \* may minizip or the file system fail?

ASSUME ConstantsAssumption ==
  /\ None \notin Meta \cup Content \cup Data \cup {Damaged}
  /\ Damaged \notin Data
  /\ Meta \cap Content = {}
  /\ MayFail \in BOOLEAN

File == Meta \cup Content
WriteTask == [op : {"write"}, file : Content, data : Data]
ReadTask == [op : {"read"}, file : Content, reader : Reader]
NoTask == [op |-> "none"]

VARIABLES
  contents,   \* m_contents: the files accepted so far
  tasks,      \* m_tasks
  inHand,     \* the task the worker has popped and not yet performed
  finish,     \* m_finish_thread
  worker,     \* where thread_func is
  owner,      \* where the submitting side is
  zip,        \* the entries of the temporary ZIP file
  handle,     \* m_zip and m_reading: "none", "writing" or "reading"
  asked,      \* history: the file each reader has asked for
  answer,     \* the data each reader's callback received
  accepted,   \* history: the data each file was accepted with
  reported    \* history: the files whose write was reported to have succeeded

queueVars == <<contents, tasks, inHand, finish, worker, owner>>
zipVars == <<zip, handle>>
historyVars == <<asked, answer, accepted, reported>>
vars == <<contents, tasks, inHand, finish, worker, owner, zip, handle,
          asked, answer, accepted, reported>>

EmptyZip == [f \in File |-> None]

TypeOK ==
  /\ contents \in SUBSET File
  /\ tasks \in Seq(WriteTask \cup ReadTask)
  /\ inHand \in WriteTask \cup ReadTask \cup {NoTask}
  /\ finish \in BOOLEAN
  /\ worker \in {"absent", "ready", "waiting", "running", "exited"}
  /\ owner \in {"unopened", "open", "notifying", "flagged", "joining", "joined",
                "closed"}
  /\ zip \in [File -> Data \cup {None, Damaged}]
  /\ handle \in {"none", "writing", "reading"}
  /\ asked \in [Reader -> Content \cup {None}]
  /\ answer \in [Reader -> Data \cup {None, Damaged}]
  /\ accepted \in [File -> Data \cup {None}]
  /\ reported \in SUBSET File

Init ==
  /\ contents = {}
  /\ tasks = <<>>
  /\ inHand = NoTask
  /\ finish = FALSE
  /\ worker = "absent"
  /\ owner = "unopened"
  /\ zip = EmptyZip
  /\ handle = "none"
  /\ asked = [r \in Reader |-> None]
  /\ answer = [r \in Reader |-> None]
  /\ accepted = EmptyZip
  /\ reported = {}

-----------------------------------------------------------------------------
(* The ZIP handle, used under m_zip_mutex.                                 *)

\* Mutant of ReopenedForWriting: reopening never appends.
ReopenedForWriting_Create == IF handle = "writing" THEN zip ELSE EmptyZip

\* What a successful reopen(false) finds in the file: without a handle the
\* file is opened with APPEND_STATUS_CREATE, which truncates it.
ReopenedForWriting == IF handle = "none" THEN EmptyZip ELSE zip

\* minizip cannot be made to open the file: the old handle is closed already.
ReopenFails(mode) ==
  /\ MayFail
  /\ handle # mode
  /\ handle' = "none"
  /\ UNCHANGED zip

\* do_write: the results of zipWriteInFileInZip and zipCloseFileInZip are not
\* examined, so a damaged entry is reported to be a success as well.
DoWrite(f, d) ==
  \/ /\ handle' = "writing"
     /\ \E stored \in {d} \cup (IF MayFail THEN {Damaged} ELSE {}) :
          zip' = [ReopenedForWriting EXCEPT ![f] = stored]
     /\ reported' = reported \cup {f}
  \/ /\ ReopenFails("writing")
     /\ UNCHANGED reported
  \/ /\ MayFail                         \* zipOpenNewFileInZip fails
     /\ handle' = "writing"
     /\ zip' = ReopenedForWriting
     /\ UNCHANGED reported

\* Mutant of DoRead: the callback receives the name instead of the data.
DoRead_Name(f, r) ==
  /\ handle' = "reading"
  /\ answer' = [answer EXCEPT ![r] = f]
  /\ UNCHANGED zip

\* Mutant of DoRead: the result of unzLocateFile is ignored, so the current
\* file is read, whichever that is.
DoRead_CurrentFile(f, r) ==
  /\ handle' = "reading"
  /\ \E current \in {g \in File : zip[g] # None} :
       answer' = [answer EXCEPT ![r] = zip[current]]
  /\ UNCHANGED zip

\* do_read, then on_complete with what was found: no data when the file
\* cannot be opened or located.  The result of unzReadCurrentFile is not
\* examined.
DoRead(f, r) ==
  \/ /\ handle' = "reading"
     /\ \E got \in {zip[f]} \cup (IF MayFail THEN {None, Damaged} ELSE {}) :
          answer' = [answer EXCEPT ![r] = got]
     /\ UNCHANGED zip
  \/ /\ ReopenFails("reading")
     /\ UNCHANGED answer

-----------------------------------------------------------------------------
(* The owner: the public operations, called by Logic.                      *)

\* open: creates the file and starts the worker.  (A failing open leaves the
\* object as it was; Logic::initialize tries another temporary name.)
Open ==
  /\ owner = "unopened"
  /\ zip' = EmptyZip
  /\ handle' = "writing"
  /\ finish' = FALSE
  /\ worker' = "ready"
  /\ owner' = "open"
  /\ UNCHANGED <<contents, tasks, inHand, historyVars>>

\* Mutant of UpdateContents: emplacing always succeeds.
UpdateContents_Overwriting(f, d) ==
  /\ contents' = contents \cup {f}
  /\ accepted' = [accepted EXCEPT ![f] = d]

\* update_contents succeeds for the first write of a file only.
UpdateContents(f, d) ==
  /\ f \notin contents
  /\ contents' = contents \cup {f}
  /\ accepted' = [accepted EXCEPT ![f] = d]

\* Mutant of InsertTask: an empty queue is not recognized after the insertion.
InsertTask_NotifyLate(t) ==
  /\ tasks' = Append(tasks, t)
  /\ owner' = IF Len(tasks') = 2 THEN "notifying" ELSE "open"
  /\ UNCHANGED <<inHand, finish, worker, zipVars>>

\* insert_task: the worker is notified, after the mutex is released, when the
\* queue was empty.
InsertTask(t) ==
  /\ tasks' = Append(tasks, t)
  /\ owner' = IF Len(tasks') = 1 THEN "notifying" ELSE "open"
  /\ UNCHANGED <<inHand, finish, worker, zipVars>>

\* write: performed by the caller itself.
Write(f, d) ==
  /\ owner = "open"
  /\ UpdateContents(f, d)
  /\ DoWrite(f, d)
  /\ UNCHANGED <<tasks, inHand, finish, worker, owner, asked, answer>>

AsyncWrite(f, d) ==
  /\ owner = "open"
  /\ UpdateContents(f, d)
  /\ InsertTask([op |-> "write", file |-> f, data |-> d])
  /\ UNCHANGED <<asked, answer, reported>>

\* async_read, which Logic calls for files that contains() knows.
AsyncRead(r, f) ==
  /\ owner = "open"
  /\ asked[r] = None
  /\ f \in contents
  /\ asked' = [asked EXCEPT ![r] = f]
  /\ InsertTask([op |-> "read", file |-> f, reader |-> r])
  /\ UNCHANGED <<contents, answer, accepted, reported>>

\* m_tasks_signal.notify_one
NotifyOne == worker' = IF worker = "waiting" THEN "ready" ELSE worker

Notify ==
  /\ owner = "notifying"
  /\ NotifyOne
  /\ owner' = "open"
  /\ UNCHANGED <<contents, tasks, inHand, finish, zipVars, historyVars>>

\* close: finish_thread sets the flag under the mutex ...
FinishThread ==
  /\ owner = "open"
  /\ finish' = TRUE
  /\ owner' = "flagged"
  /\ UNCHANGED <<contents, tasks, inHand, worker, zipVars, historyVars>>

\* Mutant of FinishNotify: the worker is not notified.
FinishNotify_Silent ==
  /\ owner = "flagged"
  /\ owner' = "joining"
  /\ UNCHANGED <<contents, tasks, inHand, finish, worker, zipVars, historyVars>>

\* ... notifies the worker ...
FinishNotify ==
  /\ owner = "flagged"
  /\ NotifyOne
  /\ owner' = "joining"
  /\ UNCHANGED <<contents, tasks, inHand, finish, zipVars, historyVars>>

\* ... and waits for it to end;
Join ==
  /\ owner = "joining"
  /\ worker = "exited"
  /\ owner' = "joined"
  /\ UNCHANGED <<contents, tasks, inHand, finish, worker, zipVars, historyVars>>

\* then do_close completes the file; RecordingSession has how it is moved.
Close ==
  /\ owner = "joined"
  /\ handle' = "none"
  /\ owner' = "closed"
  /\ UNCHANGED <<contents, tasks, inHand, finish, worker, zip, historyVars>>

-----------------------------------------------------------------------------
(* The worker: thread_func.                                                *)

\* Mutant of Wait: the predicate does not consider m_finish_thread.
Wait_IgnoringFinish ==
  /\ worker = "ready"
  /\ tasks = <<>>
  /\ worker' = "waiting"
  /\ UNCHANGED <<contents, tasks, inHand, finish, owner, zipVars, historyVars>>

\* The predicate of m_tasks_signal.wait is false: sleep, releasing the mutex.
Wait ==
  /\ worker = "ready"
  /\ ~finish /\ tasks = <<>>
  /\ worker' = "waiting"
  /\ UNCHANGED <<contents, tasks, inHand, finish, owner, zipVars, historyVars>>

\* A condition variable may wake up by itself.
SpuriousWakeup ==
  /\ worker = "waiting"
  /\ worker' = "ready"
  /\ UNCHANGED <<contents, tasks, inHand, finish, owner, zipVars, historyVars>>

TakeTask ==
  /\ worker = "ready"
  /\ tasks # <<>>
  /\ inHand' = Head(tasks)
  /\ tasks' = Tail(tasks)
  /\ worker' = "running"
  /\ UNCHANGED <<contents, finish, owner, zipVars, historyVars>>

PerformWrite ==
  /\ worker = "running"
  /\ inHand.op = "write"
  /\ DoWrite(inHand.file, inHand.data)
  /\ inHand' = NoTask
  /\ worker' = "ready"
  /\ UNCHANGED <<contents, tasks, finish, owner, asked, answer, accepted>>

PerformRead ==
  /\ worker = "running"
  /\ inHand.op = "read"
  /\ DoRead(inHand.file, inHand.reader)
  /\ inHand' = NoTask
  /\ worker' = "ready"
  /\ UNCHANGED <<contents, tasks, finish, owner, asked, accepted, reported>>

\* Mutant of Exit: the thread ends without performing what is queued.
Exit_WithTasks ==
  /\ worker = "ready"
  /\ finish
  /\ worker' = "exited"
  /\ UNCHANGED <<contents, tasks, inHand, finish, owner, zipVars, historyVars>>

Exit ==
  /\ worker = "ready"
  /\ finish /\ tasks = <<>>
  /\ worker' = "exited"
  /\ UNCHANGED <<contents, tasks, inHand, finish, owner, zipVars, historyVars>>

Worker == Wait \/ TakeTask \/ PerformWrite \/ PerformRead \/ Exit

Shutdown == FinishNotify \/ Join \/ Close

Terminated == owner = "closed" /\ UNCHANGED vars

Next ==
  \/ Open
  \/ \E f \in Meta, d \in Data : Write(f, d)
  \/ \E f \in Content, d \in Data : AsyncWrite(f, d)
  \/ \E r \in Reader, f \in Content : AsyncRead(r, f)
  \/ Notify
  \/ FinishThread
  \/ Shutdown
  \/ Worker
  \/ SpuriousWakeup
  \/ Terminated

Spec == Init /\ [][Next]_vars

\* The threads are scheduled: the worker runs on, a submitter that has left
\* the mutex notifies, and a close that has begun goes on.  Nothing obliges a
\* caller to submit or close, or a condition variable to wake up by itself.
FairSpec == Spec /\ WF_vars(Worker) /\ WF_vars(Notify) /\ WF_vars(Shutdown)

-----------------------------------------------------------------------------
(* Properties.                                                             *)

\* The write of f that the worker has still to perform: in hand or queued.
InHandWrite(f) == inHand.op = "write" /\ inHand.file = f
QueuedWrites(f) == {i \in 1..Len(tasks) : tasks[i].op = "write" /\ tasks[i].file = f}
Outstanding(f) == InHandWrite(f) \/ QueuedWrites(f) # {}

\* A file m_contents names is in the ZIP file or its one write is outstanding,
\* never both and never twice; anything else is in neither.  contains() can
\* therefore answer from m_contents without looking at queue or file.
ContentsAccounted ==
  \A f \in File :
    /\ f \in contents <=> (zip[f] # None \/ Outstanding(f))
    /\ zip[f] # None => ~Outstanding(f)
    /\ InHandWrite(f) => QueuedWrites(f) = {}
    /\ \A i, j \in QueuedWrites(f) : i = j

\* close() returns with every accepted file in the archive, as accepted and
\* reported to its writer, and with every read answered: tasks queued before
\* finish_thread are performed.
ClosedComplete ==
  owner = "closed" =>
    /\ zip = accepted
    /\ reported = {f \in File : accepted[f] # None}
    /\ \A r \in Reader : asked[r] # None => answer[r] # None

\* The worker never sleeps through work: notify_one is called only when the
\* queue becomes non-empty, so a task or the finish flag that a sleeping
\* worker has not seen is always followed by a notification still to come.
NoLostWakeup ==
  worker = "waiting" /\ (tasks # <<>> \/ finish) =>
    owner \in {"notifying", "flagged"}

\* Every read that was issued is answered in the end.
ReadsAnswered == \A r \in Reader : (asked[r] # None) ~> (answer[r] # None)

\* A close that has begun comes to its end, whatever is still queued.
CloseReturns == (owner = "flagged") ~> (owner = "closed")

\* No read is answered with the contents of another file or of a refused
\* write, even when minizip fails: what is wrong is missing or damaged.
NoForeignData ==
  \A r \in Reader :
    answer[r] # None => answer[r] \in {Damaged, accepted[asked[r]]}

\* The abstract store this module implements while nothing fails.
Store == INSTANCE WriteOnceStore WITH
           archive <- IF owner = "closed" THEN zip ELSE None
ImplementsStore == Store!Spec
=============================================================================

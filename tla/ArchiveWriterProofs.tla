-------------------------- MODULE ArchiveWriterProofs --------------------------
(***************************************************************************)
(* Theorems about ArchiveWriter for any number of files, readers and       *)
(* contents.                                                               *)
(***************************************************************************)
EXTENDS ArchiveWriter, SequenceTheorems, TLAPS

Task == WriteTask \cup ReadTask

-----------------------------------------------------------------------------
(* Helper facts.                                                           *)

\* NotifyOne leaves the worker in a legal state.
LEMMA NotifyOneType ==
  ASSUME TypeOK, NotifyOne
  PROVE  worker' \in {"absent", "ready", "waiting", "running", "exited"}
BY DEF TypeOK, NotifyOne

\* What do_write does to the ZIP file keeps the types, whether or not it fails.
LEMMA DoWriteType ==
  ASSUME TypeOK, NEW f \in File, NEW d \in Data, DoWrite(f, d)
  PROVE  /\ zip' \in [File -> Data \cup {None, Damaged}]
         /\ handle' \in {"none", "writing", "reading"}
         /\ reported' \in SUBSET File
<1>1. ReopenedForWriting \in [File -> Data \cup {None, Damaged}]
  BY DEF TypeOK, ReopenedForWriting, EmptyZip
<1>2. CASE /\ handle' = "writing"
           /\ \E stored \in {d} \cup (IF MayFail THEN {Damaged} ELSE {}) :
                zip' = [ReopenedForWriting EXCEPT ![f] = stored]
           /\ reported' = reported \cup {f}
  <2>1. PICK stored \in Data \cup {Damaged} :
          zip' = [ReopenedForWriting EXCEPT ![f] = stored]
    BY <1>2
  <2> QED BY <1>1, <1>2, <2>1 DEF TypeOK
<1>3. CASE ReopenFails("writing") /\ UNCHANGED reported
  BY <1>3 DEF TypeOK, ReopenFails
<1>4. CASE MayFail /\ handle' = "writing" /\ zip' = ReopenedForWriting
             /\ UNCHANGED reported
  BY <1>1, <1>4 DEF TypeOK
<1> QED BY <1>2, <1>3, <1>4 DEF DoWrite

\* Inserting a task keeps the types of everything insert_task touches.
LEMMA InsertTaskType ==
  ASSUME TypeOK, NEW t \in Task, InsertTask(t)
  PROVE  /\ tasks' \in Seq(Task)
         /\ owner' \in {"open", "notifying"}
         /\ UNCHANGED <<inHand, finish, worker, zip, handle>>
BY DEF TypeOK, InsertTask, Task, zipVars

-----------------------------------------------------------------------------
(* Type correctness.                                                       *)

\* The types hold initially and every step keeps them.
LEMMA TypeStep == TypeOK /\ [Next]_vars => TypeOK'
<1> SUFFICES ASSUME TypeOK, [Next]_vars PROVE TypeOK'
  OBVIOUS
<1> USE DEF TypeOK
<1>1. CASE Open
  BY <1>1 DEF Open, EmptyZip, historyVars
<1>2. ASSUME NEW f \in Meta, NEW d \in Data, Write(f, d) PROVE TypeOK'
  <2>1. f \in File
    BY DEF File
  <2>2. DoWrite(f, d)
    BY <1>2 DEF Write
  <2>3. contents' \in SUBSET File /\ accepted' \in [File -> Data \cup {None}]
    BY <1>2, <2>1 DEF Write, UpdateContents
  <2> QED BY <1>2, <2>1, <2>2, <2>3, DoWriteType DEF Write
<1>3. ASSUME NEW f \in Content, NEW d \in Data, AsyncWrite(f, d) PROVE TypeOK'
  <2>1. [op |-> "write", file |-> f, data |-> d] \in Task
    BY DEF Task, WriteTask
  <2>2. f \in File
    BY DEF File
  <2>3. contents' \in SUBSET File /\ accepted' \in [File -> Data \cup {None}]
    BY <1>3, <2>2 DEF AsyncWrite, UpdateContents
  <2> QED BY <1>3, <2>1, <2>3, InsertTaskType DEF AsyncWrite, Task
<1>4. ASSUME NEW r \in Reader, NEW f \in Content, AsyncRead(r, f) PROVE TypeOK'
  <2>1. [op |-> "read", file |-> f, reader |-> r] \in Task
    BY DEF Task, ReadTask
  <2>2. asked' \in [Reader -> Content \cup {None}]
    BY <1>4 DEF AsyncRead
  <2> QED BY <1>4, <2>1, <2>2, InsertTaskType DEF AsyncRead, Task
<1>5. CASE Notify
  BY <1>5, NotifyOneType DEF Notify, zipVars, historyVars
<1>6. CASE FinishThread
  BY <1>6 DEF FinishThread, zipVars, historyVars
<1>7. CASE Shutdown
  <2>1. CASE FinishNotify
    BY <2>1, NotifyOneType DEF FinishNotify, zipVars, historyVars
  <2>2. CASE Join
    BY <2>2 DEF Join, zipVars, historyVars
  <2>3. CASE Close
    BY <2>3 DEF Close, historyVars
  <2> QED BY <1>7, <2>1, <2>2, <2>3 DEF Shutdown
<1>8. CASE Worker
  <2>1. CASE Wait
    BY <2>1 DEF Wait, zipVars, historyVars
  <2>2. CASE TakeTask
    <3>1. Head(tasks) \in Task /\ Tail(tasks) \in Seq(Task)
      BY <2>2 DEF TakeTask, Task
    <3> QED BY <2>2, <3>1 DEF TakeTask, Task, zipVars, historyVars
  <2>3. CASE PerformWrite
    <3>1. inHand \in WriteTask
      BY <2>3 DEF PerformWrite, WriteTask, ReadTask, NoTask
    <3>2. inHand.file \in File /\ inHand.data \in Data
      BY <3>1 DEF WriteTask, File
    <3> QED BY <2>3, <3>2, DoWriteType DEF PerformWrite
  <2>4. CASE PerformRead
    <3>1. inHand \in ReadTask
      BY <2>4 DEF PerformRead, WriteTask, ReadTask, NoTask
    <3>2. inHand.file \in File /\ inHand.reader \in Reader
      BY <3>1 DEF ReadTask, File
    <3>3. /\ zip' \in [File -> Data \cup {None, Damaged}]
          /\ handle' \in {"none", "writing", "reading"}
          /\ answer' \in [Reader -> Data \cup {None, Damaged}]
      <4>1. CASE ReopenFails("reading") /\ UNCHANGED answer
        BY <4>1 DEF ReopenFails
      <4>2. CASE /\ handle' = "reading"
                 /\ \E got \in {zip[inHand.file]}
                              \cup (IF MayFail THEN {None, Damaged} ELSE {}) :
                      answer' = [answer EXCEPT ![inHand.reader] = got]
                 /\ UNCHANGED zip
        <5>1. PICK got \in Data \cup {None, Damaged} :
                answer' = [answer EXCEPT ![inHand.reader] = got]
          BY <3>2, <4>2
        <5> QED BY <3>2, <4>2, <5>1
      <4> QED BY <2>4, <4>1, <4>2 DEF PerformRead, DoRead
    <3> QED BY <2>4, <3>3 DEF PerformRead
  <2>5. CASE Exit
    BY <2>5 DEF Exit, zipVars, historyVars
  <2> QED BY <1>8, <2>1, <2>2, <2>3, <2>4, <2>5 DEF Worker
<1>9. CASE SpuriousWakeup
  BY <1>9 DEF SpuriousWakeup, zipVars, historyVars
<1>10. CASE UNCHANGED vars
  BY <1>10 DEF vars
<1> QED
  BY <1>1, <1>2, <1>3, <1>4, <1>5, <1>6, <1>7, <1>8, <1>9, <1>10
  DEF Next, Terminated

LEMMA TypeInit == Init => TypeOK
<1> SUFFICES ASSUME Init PROVE TypeOK
  OBVIOUS
<1>1. EmptyZip \in [File -> Data \cup {None}]
  BY DEF EmptyZip
<1>2. tasks \in Seq(WriteTask \cup ReadTask)
  BY DEF Init
<1>3. inHand \in WriteTask \cup ReadTask \cup {NoTask}
  BY DEF Init
<1> QED BY <1>1, <1>2, <1>3 DEF Init, TypeOK, EmptyZip

\* Every state of the queue, the threads and the ZIP file is well-formed,
\* with and without failures of minizip.
THEOREM TypeCorrect == Spec => []TypeOK
BY TypeInit, TypeStep, PTL DEF Spec

-----------------------------------------------------------------------------
(* The condition variable.                                                 *)

\* No wakeup of the worker is ever lost (thread_func, insert_task and
\* finish_thread), although insert_task notifies only when the queue becomes
\* non-empty and does so after it has released the mutex.
THEOREM NeverSleepsThroughWork == Spec => []NoLostWakeup
<1>1. Init => NoLostWakeup
  BY DEF Init, NoLostWakeup
<1>2. TypeOK /\ NoLostWakeup /\ [Next]_vars => NoLostWakeup'
  <2> SUFFICES ASSUME TypeOK, NoLostWakeup, [Next]_vars PROVE NoLostWakeup'
    OBVIOUS
  <2> USE DEF NoLostWakeup
  <2>1. CASE Open
    BY <2>1 DEF Open
  <2>2. ASSUME NEW f \in Meta, NEW d \in Data, Write(f, d) PROVE NoLostWakeup'
    BY <2>2 DEF Write
  <2>3. ASSUME NEW t \in Task, owner = "open", InsertTask(t) PROVE NoLostWakeup'
    <3>1. CASE worker = "waiting"
      <4>1. tasks = <<>> /\ ~finish
        BY <2>3, <3>1
      <4>2. Len(tasks') = 1
        BY <2>3, <4>1 DEF InsertTask
      <4> QED BY <2>3, <4>2 DEF InsertTask
    <3>2. CASE worker # "waiting"
      BY <2>3, <3>2 DEF InsertTask
    <3> QED BY <3>1, <3>2
  <2>4. ASSUME NEW f \in Content, NEW d \in Data, AsyncWrite(f, d) PROVE NoLostWakeup'
    <3>1. [op |-> "write", file |-> f, data |-> d] \in Task
      BY DEF Task, WriteTask
    <3> QED BY <2>3, <2>4, <3>1 DEF AsyncWrite
  <2>5. ASSUME NEW r \in Reader, NEW f \in Content, AsyncRead(r, f) PROVE NoLostWakeup'
    <3>1. [op |-> "read", file |-> f, reader |-> r] \in Task
      BY DEF Task, ReadTask
    <3> QED BY <2>3, <2>5, <3>1 DEF AsyncRead
  <2>6. CASE Notify
    BY <2>6 DEF Notify, NotifyOne
  <2>7. CASE FinishThread
    BY <2>7 DEF FinishThread
  <2>8. CASE Shutdown
    BY <2>8 DEF Shutdown, FinishNotify, Join, Close, NotifyOne
  <2>9. CASE Worker
    BY <2>9 DEF Worker, Wait, TakeTask, PerformWrite, PerformRead, Exit
  <2>10. CASE SpuriousWakeup
    BY <2>10 DEF SpuriousWakeup
  <2>11. CASE UNCHANGED vars
    BY <2>11 DEF vars
  <2> QED
    BY <2>1, <2>2, <2>4, <2>5, <2>6, <2>7, <2>8, <2>9, <2>10, <2>11
    DEF Next, Terminated
<1> QED BY <1>1, <1>2, TypeCorrect, PTL DEF Spec

-----------------------------------------------------------------------------
(* What is still to be performed.  The task in hand comes before the queued *)
(* ones, so that taking a task changes nothing, inserting one appends it    *)
(* and performing one removes the first.                                    *)

Pending == IF inHand = NoTask THEN tasks ELSE <<inHand>> \o tasks

IsWriteOf(t, f) == t.op = "write" /\ t.file = f
IsReadBy(t, r) == t.op = "read" /\ t.reader = r

\* Where the two threads can be, and what the worker has in hand.
Phases ==
  /\ worker = "running" <=> inHand # NoTask
  /\ owner = "unopened" =>
       worker = "absent" /\ tasks = <<>> /\ zip = EmptyZip
  /\ finish => owner \in {"flagged", "joining", "joined", "closed"}
  /\ worker = "exited" => finish /\ tasks = <<>>
  /\ owner \in {"joined", "closed"} => worker = "exited"

\* m_contents names what was accepted.
ContentsNamed == \A f \in File : f \in contents <=> accepted[f] # None

\* A pending write holds the data its file was accepted with.
WritesAccepted ==
  \A i \in 1..Len(Pending) : Pending[i].op = "write" =>
    accepted[Pending[i].file] = Pending[i].data

\* A pending read is for the file its reader has asked for.
ReadsAsked ==
  /\ \A i \in 1..Len(Pending) : Pending[i].op = "read" =>
       asked[Pending[i].reader] = Pending[i].file
  /\ \A r \in Reader : asked[r] # None => accepted[asked[r]] # None

\* What is in the ZIP file, and what was read from it, was accepted.
StoredAccepted ==
  \A f \in File : zip[f] # None => zip[f] \in {Damaged, accepted[f]}

AnsweredAccepted ==
  \A r \in Reader : answer[r] # None =>
    asked[r] # None /\ answer[r] \in {Damaged, accepted[asked[r]]}

Invariant ==
  TypeOK /\ Phases /\ ContentsNamed /\ WritesAccepted /\ ReadsAsked
    /\ StoredAccepted /\ AnsweredAccepted

-----------------------------------------------------------------------------
(* More holds while neither minizip nor the file system fails.              *)

\* The handle is only missing before open and after close.
HandleKept == handle = "none" => owner \in {"unopened", "closed"}

\* A file is accepted once, so it is written once.
WrittenOnce ==
  \A i, j \in 1..Len(Pending) :
    Pending[i].op = "write" /\ Pending[j].op = "write"
      /\ Pending[i].file = Pending[j].file => i = j

\* A file is pending or in the ZIP file.
Located ==
  \A f \in File :
    /\ f \in contents =>
         zip[f] # None \/ \E i \in 1..Len(Pending) : IsWriteOf(Pending[i], f)
    /\ zip[f] # None => f \in contents
    /\ \A i \in 1..Len(Pending) : IsWriteOf(Pending[i], f) => zip[f] = None

StoredIntact == \A f \in File : zip[f] # None => zip[f] = accepted[f]

\* A write comes before the reads of its file.
WrittenBeforeRead ==
  \A i \in 1..Len(Pending) : Pending[i].op = "read" =>
    \/ zip[Pending[i].file] # None
    \/ \E j \in 1..(i - 1) : IsWriteOf(Pending[j], Pending[i].file)

\* A read is pending or answered.
ReadOnce ==
  /\ \A i, j \in 1..Len(Pending) :
       Pending[i].op = "read" /\ Pending[j].op = "read"
         /\ Pending[i].reader = Pending[j].reader => i = j
  /\ \A i \in 1..Len(Pending) : Pending[i].op = "read" =>
       answer[Pending[i].reader] = None
  /\ \A r \in Reader : asked[r] # None =>
       answer[r] # None \/ \E i \in 1..Len(Pending) : IsReadBy(Pending[i], r)

AnsweredIntact ==
  \A r \in Reader : answer[r] # None => answer[r] = accepted[asked[r]]

ReportedStored == reported = {f \in File : zip[f] # None}

FaultFree ==
  HandleKept /\ WrittenOnce /\ Located /\ StoredIntact /\ WrittenBeforeRead
    /\ ReadOnce /\ AnsweredIntact /\ ReportedStored

-----------------------------------------------------------------------------
(* What the steps do to the pending tasks.                                  *)

\* Putting an element in front shifts the others by one.
LEMMA InFront ==
  ASSUME NEW S, NEW s \in Seq(S), NEW x \in S
  PROVE  /\ <<x>> \o s \in Seq(S)
         /\ Len(<<x>> \o s) = Len(s) + 1
         /\ (<<x>> \o s)[1] = x
         /\ \A i \in 1..Len(s) : (<<x>> \o s)[i + 1] = s[i]
<1>1. <<x>> \in Seq(S) /\ Len(<<x>>) = 1 /\ <<x>>[1] = x
  OBVIOUS
<1>2. Len(s) \in Nat
  OBVIOUS
<1> QED BY <1>1, <1>2, ConcatProperties

\* A sequence is its first element followed by the others.
LEMMA HeadInFront ==
  ASSUME NEW S, NEW s \in Seq(S), s # <<>>
  PROVE  <<Head(s)>> \o Tail(s) = s
<1>1. Head(s) \in S /\ Head(s) = s[1] /\ Tail(s) \in Seq(S)
  OBVIOUS
<1>2. Len(Tail(s)) = Len(s) - 1 /\ \A i \in 1..Len(Tail(s)) : Tail(s)[i] = s[i + 1]
  BY HeadTailProperties
<1> DEFINE t == <<Head(s)>> \o Tail(s)
<1>3. /\ t \in Seq(S)
      /\ Len(t) = Len(Tail(s)) + 1
      /\ t[1] = Head(s)
      /\ \A i \in 1..Len(Tail(s)) : t[i + 1] = Tail(s)[i]
  BY <1>1, InFront
<1> HIDE DEF t
<1>4. Len(s) \in Nat \ {0}
  BY EmptySeq
<1>5. ASSUME NEW i \in 1..Len(t) PROVE t[i] = s[i]
  <2>1. CASE i = 1
    BY <1>1, <1>3, <2>1
  <2>2. CASE i # 1
    <3>1. i - 1 \in 1..Len(Tail(s)) /\ (i - 1) + 1 = i
      BY <1>2, <1>3, <1>4, <2>2
    <3> QED BY <1>2, <1>3, <3>1
  <2> QED BY <2>1, <2>2
<1>6. t = s
  BY <1>2, <1>3, <1>4, <1>5, SeqEqual
<1> QED BY <1>6 DEF t

LEMMA PendingType ==
  ASSUME TypeOK
  PROVE  Pending \in Seq(Task) /\ Len(Pending) \in Nat
<1>1. tasks \in Seq(Task)
  BY DEF TypeOK, Task
<1>2. CASE inHand = NoTask
  BY <1>1, <1>2 DEF Pending
<1>3. CASE inHand # NoTask
  <2>1. inHand \in Task
    BY <1>3 DEF TypeOK, Task
  <2>2. <<inHand>> \o tasks \in Seq(Task)
    BY <1>1, <2>1, InFront
  <2> QED BY <1>3, <2>2 DEF Pending
<1> QED BY <1>2, <1>3

\* What a pending task can be.
LEMMA PendingElement ==
  ASSUME TypeOK, NEW i \in 1..Len(Pending)
  PROVE  \/ Pending[i] \in WriteTask /\ Pending[i].op = "write"
         \/ Pending[i] \in ReadTask /\ Pending[i].op = "read"
<1>1. Pending[i] \in Task
  BY PendingType, ElementOfSeq
<1> QED BY <1>1 DEF Task, WriteTask, ReadTask

\* insert_task appends.
LEMMA Appended ==
  ASSUME TypeOK, NEW t \in Task, InsertTask(t)
  PROVE  /\ Len(Pending') = Len(Pending) + 1
         /\ \A i \in 1..Len(Pending) : Pending'[i] = Pending[i]
         /\ Pending'[Len(Pending) + 1] = t
<1>1. tasks \in Seq(Task) /\ tasks' = Append(tasks, t) /\ inHand' = inHand
  BY DEF TypeOK, Task, InsertTask
<1>2. Pending' = Append(Pending, t)
  <2>1. CASE inHand = NoTask
    BY <1>1, <2>1 DEF Pending
  <2>2. CASE inHand # NoTask
    <3>1. inHand \in Task
      BY <2>2 DEF TypeOK, Task
    <3>2. <<inHand>> \in Seq(Task) /\ <<t>> \in Seq(Task)
      BY <3>1
    <3>3. tasks' = tasks \o <<t>>
      BY <1>1, AppendIsConcat
    <3>4. <<inHand>> \o tasks' = (<<inHand>> \o tasks) \o <<t>>
      BY <1>1, <3>2, <3>3, ConcatAssociative
    <3>5. Pending = <<inHand>> \o tasks /\ Pending' = <<inHand>> \o tasks'
      BY <1>1, <2>2 DEF Pending
    <3>6. Append(Pending, t) = Pending \o <<t>>
      BY PendingType, AppendIsConcat
    <3> QED BY <3>4, <3>5, <3>6
  <2> QED BY <2>1, <2>2
<1> QED BY <1>2, PendingType, AppendProperties

\* Performing the task in hand removes the first one.
LEMMA Performed ==
  ASSUME TypeOK, inHand # NoTask, inHand' = NoTask, tasks' = tasks
  PROVE  /\ Len(Pending) = Len(Pending') + 1
         /\ Len(Pending') \in Nat
         /\ Pending[1] = inHand
         /\ \A i \in 1..Len(Pending') : Pending'[i] = Pending[i + 1]
<1>1. tasks \in Seq(Task) /\ inHand \in Task
  BY DEF TypeOK, Task
<1>2. Pending = <<inHand>> \o tasks /\ Pending' = tasks
  BY DEF Pending
<1>3. Len(tasks) \in Nat
  BY <1>1
<1> QED BY <1>1, <1>2, <1>3, InFront

\* The steps that only move the threads on leave alone what is pending,
\* stored, asked and answered.
Quiet == UNCHANGED <<Pending, contents, zip, asked, answer, accepted, reported>>

LEMMA QuietSteps ==
  ASSUME TypeOK, Phases,
         Open \/ Notify \/ FinishThread \/ Shutdown \/ Wait \/ TakeTask \/ Exit
           \/ SpuriousWakeup \/ UNCHANGED vars
  PROVE  Quiet
<1> USE DEF Quiet, Pending
<1>1. CASE Open
  BY <1>1 DEF Open, Phases, historyVars
<1>2. CASE Notify
  BY <1>2 DEF Notify, zipVars, historyVars
<1>3. CASE FinishThread
  BY <1>3 DEF FinishThread, zipVars, historyVars
<1>4. CASE Shutdown
  BY <1>4 DEF Shutdown, FinishNotify, Join, Close, zipVars, historyVars
<1>5. CASE Wait \/ Exit
  BY <1>5 DEF Wait, Exit, zipVars, historyVars
<1>6. CASE SpuriousWakeup
  BY <1>6 DEF SpuriousWakeup, zipVars, historyVars
<1>7. CASE UNCHANGED vars
  BY <1>7 DEF vars
<1>8. CASE TakeTask
  <2>1. inHand = NoTask
    BY <1>8 DEF TakeTask, Phases
  <2>2. tasks \in Seq(Task) /\ tasks # <<>>
    BY <1>8 DEF TypeOK, Task, TakeTask
  <2>3. inHand' = Head(tasks) /\ tasks' = Tail(tasks)
    BY <1>8 DEF TakeTask
  <2>4. Head(tasks) \in Task
    BY <2>2
  <2>5. inHand' # NoTask
    BY <2>3, <2>4 DEF Task, WriteTask, ReadTask, NoTask
  <2>6. Pending' = tasks
    BY <2>2, <2>3, <2>5, HeadInFront
  <2> QED BY <1>8, <2>1, <2>6 DEF TakeTask, zipVars, historyVars
<1> QED BY <1>1, <1>2, <1>3, <1>4, <1>5, <1>6, <1>7, <1>8

-----------------------------------------------------------------------------
(* Nothing but what was accepted is stored or read, with failures or        *)
(* without.                                                                 *)

\* The two threads keep to their phases.
LEMMA PhasesStep == TypeOK /\ Phases /\ [Next]_vars => Phases'
<1> SUFFICES ASSUME TypeOK, Phases, [Next]_vars PROVE Phases'
  OBVIOUS
<1> USE DEF Phases
<1>1. CASE Open
  BY <1>1 DEF Open
<1>2. ASSUME NEW f \in Meta, NEW d \in Data, Write(f, d) PROVE Phases'
  BY <1>2 DEF Write
<1>3. ASSUME NEW t, owner = "open", InsertTask(t) PROVE Phases'
  BY <1>3 DEF InsertTask, zipVars
<1>4. ASSUME NEW f \in Content, NEW d \in Data, AsyncWrite(f, d) PROVE Phases'
  BY <1>3, <1>4 DEF AsyncWrite
<1>5. ASSUME NEW r \in Reader, NEW f \in Content, AsyncRead(r, f) PROVE Phases'
  BY <1>3, <1>5 DEF AsyncRead
<1>6. CASE Notify
  BY <1>6 DEF Notify, NotifyOne, zipVars
<1>7. CASE FinishThread
  BY <1>7 DEF FinishThread, zipVars
<1>8. CASE Shutdown
  <2>1. CASE FinishNotify
    BY <2>1 DEF FinishNotify, NotifyOne, zipVars
  <2>2. CASE Join
    BY <2>2 DEF Join, zipVars
  <2>3. CASE Close
    BY <2>3 DEF Close
  <2> QED BY <1>8, <2>1, <2>2, <2>3 DEF Shutdown
<1>9. CASE Wait
  BY <1>9 DEF Wait, zipVars
<1>10. CASE TakeTask
  <2>1. Head(tasks) \in WriteTask \cup ReadTask
    BY <1>10 DEF TypeOK, TakeTask
  <2>2. inHand' # NoTask
    BY <1>10, <2>1 DEF TakeTask, WriteTask, ReadTask, NoTask
  <2> QED BY <1>10, <2>2 DEF TakeTask, zipVars
<1>11. CASE PerformWrite \/ PerformRead
  BY <1>11 DEF PerformWrite, PerformRead
<1>12. CASE Exit
  BY <1>12 DEF Exit, zipVars
<1>13. CASE SpuriousWakeup
  BY <1>13 DEF SpuriousWakeup, zipVars
<1>14. CASE UNCHANGED vars
  BY <1>14 DEF vars
<1> QED
  BY <1>1, <1>2, <1>4, <1>5, <1>6, <1>7, <1>8, <1>9, <1>10, <1>11, <1>12, <1>13, <1>14
  DEF Next, Worker, Terminated

\* Every step is quiet or is one of five that are not.
LEMMA StepKinds ==
  ASSUME TypeOK, Phases, [Next]_vars
  PROVE  \/ Quiet
         \/ \E f \in Meta, d \in Data : Write(f, d)
         \/ \E f \in Content, d \in Data : AsyncWrite(f, d)
         \/ \E r \in Reader, f \in Content : AsyncRead(r, f)
         \/ PerformWrite
         \/ PerformRead
BY QuietSteps DEF Next, Worker, Terminated

\* What update_contents does to the histories.
LEMMA Accepting ==
  ASSUME TypeOK, ContentsNamed, NEW f \in File, NEW d \in Data, UpdateContents(f, d)
  PROVE  /\ ContentsNamed'
         /\ accepted[f] = None /\ accepted'[f] = d /\ d # None
         /\ \A g \in File : g # f => accepted'[g] = accepted[g]
<1>1. d # None
  BY ConstantsAssumption
<1>2. accepted' = [accepted EXCEPT ![f] = d] /\ f \notin contents
      /\ contents' = contents \cup {f}
  BY DEF UpdateContents
<1>3. accepted'[f] = d /\ \A g \in File : g # f => accepted'[g] = accepted[g]
  BY <1>2 DEF TypeOK
<1> QED BY <1>1, <1>2, <1>3 DEF ContentsNamed

\* What do_write leaves in the ZIP file.
LEMMA Stored ==
  ASSUME TypeOK, NEW f \in File, NEW d \in Data, DoWrite(f, d)
  PROVE  \A g \in File : zip'[g] # None => zip'[g] = zip[g] \/ (g = f /\ zip'[g] \in {d, Damaged})
<1>1. ReopenedForWriting \in [File -> Data \cup {None, Damaged}]
  BY DEF TypeOK, ReopenedForWriting, EmptyZip
<1>2. \A g \in File : ReopenedForWriting[g] # None => ReopenedForWriting[g] = zip[g]
  BY DEF TypeOK, ReopenedForWriting, EmptyZip
<1>3. ASSUME NEW stored \in {d, Damaged}, zip' = [ReopenedForWriting EXCEPT ![f] = stored]
      PROVE  \A g \in File : zip'[g] # None =>
               zip'[g] = zip[g] \/ (g = f /\ zip'[g] \in {d, Damaged})
  BY <1>1, <1>2, <1>3
<1>4. CASE zip' = zip \/ zip' = ReopenedForWriting
  BY <1>2, <1>4
<1> QED BY <1>3, <1>4 DEF DoWrite, ReopenFails

LEMMA InvariantInit == Init => Invariant
<1> SUFFICES ASSUME Init PROVE Invariant
  OBVIOUS
<1>1. TypeOK
  BY TypeInit
<1>2. Pending = <<>> /\ Len(Pending) = 0
  BY DEF Init, Pending
<1>3. Phases
  BY DEF Init, Phases
<1>4. WritesAccepted /\ ReadsAsked
  BY <1>2 DEF Init, WritesAccepted, ReadsAsked
<1>5. ContentsNamed /\ StoredAccepted /\ AnsweredAccepted
  BY DEF Init, EmptyZip, ContentsNamed, StoredAccepted, AnsweredAccepted
<1> QED BY <1>1, <1>3, <1>4, <1>5 DEF Invariant

\* The six parts of the invariant are kept by every step.
LEMMA InvariantStep == Invariant /\ [Next]_vars => Invariant'
<1> SUFFICES ASSUME Invariant, [Next]_vars PROVE Invariant'
  OBVIOUS
<1> DEFINE Rest == ContentsNamed /\ WritesAccepted /\ ReadsAsked
                     /\ StoredAccepted /\ AnsweredAccepted
<1>1. TypeOK /\ Phases /\ Rest
  BY DEF Invariant
<1>2. TypeOK' /\ Phases'
  BY <1>1, TypeStep, PhasesStep
<1>3. Len(Pending) \in Nat
  BY <1>1, PendingType
<1>4. ASSUME Quiet PROVE Rest'
  BY <1>1, <1>4
  DEF Quiet, ContentsNamed, WritesAccepted, ReadsAsked, StoredAccepted, AnsweredAccepted
<1>5. ASSUME NEW f \in File, NEW d \in Data, UpdateContents(f, d),
             UNCHANGED <<asked, answer>>
      PROVE  /\ ContentsNamed' /\ AnsweredAccepted'
             /\ \A r \in Reader : asked'[r] # None => accepted'[asked'[r]] # None
             /\ \A g \in File : accepted[g] # None => accepted'[g] = accepted[g]
  <2>1. /\ ContentsNamed'
        /\ accepted[f] = None /\ accepted'[f] = d /\ d # None
        /\ \A g \in File : g # f => accepted'[g] = accepted[g]
    BY <1>1, <1>5, Accepting
  <2>2. \A g \in File : accepted[g] # None => accepted'[g] = accepted[g]
    BY <2>1
  <2>3. ASSUME NEW r \in Reader, asked[r] # None
        PROVE  accepted'[asked[r]] = accepted[asked[r]] /\ accepted[asked[r]] # None
    <3>1. asked[r] \in File
      BY <1>1, <2>3 DEF TypeOK, File
    <3> QED BY <1>1, <2>2, <2>3, <3>1 DEF ReadsAsked
  <2>4. AnsweredAccepted'
    BY <1>1, <1>5, <2>3 DEF AnsweredAccepted
  <2> QED BY <1>5, <2>1, <2>2, <2>3, <2>4
<1>6. ASSUME NEW i \in 1..Len(Pending), Pending[i].op = "write"
      PROVE  Pending[i].file \in Content /\ Pending[i].file \in File /\ Pending[i].data \in Data
             /\ accepted[Pending[i].file] # None
  <2>1. Pending[i] \in WriteTask
    BY <1>1, <1>6, PendingElement
  <2> QED BY <1>1, <1>6, <2>1, ConstantsAssumption DEF WriteTask, File, WritesAccepted
<1>7. ASSUME NEW f \in Meta, NEW d \in Data, Write(f, d) PROVE Rest'
  <2>1. f \in File /\ UpdateContents(f, d) /\ DoWrite(f, d)
        /\ UNCHANGED <<tasks, inHand, asked, answer>>
    BY <1>7 DEF Write, File
  <2>2. Pending' = Pending
    BY <2>1 DEF Pending
  <2>3. ContentsNamed' /\ AnsweredAccepted'
        /\ (\A g \in File : accepted[g] # None => accepted'[g] = accepted[g])
        /\ \A r \in Reader : asked'[r] # None => accepted'[asked'[r]] # None
    BY <1>5, <2>1
  <2>4. WritesAccepted' /\ ReadsAsked'
    BY <1>1, <1>6, <2>1, <2>2, <2>3 DEF WritesAccepted, ReadsAsked
  <2>5. StoredAccepted'
    <3>1. accepted'[f] = d
      BY <1>1, <2>1, Accepting
    <3> QED BY <1>1, <2>1, <2>3, <3>1, Stored, ConstantsAssumption DEF StoredAccepted
  <2> QED BY <2>3, <2>4, <2>5
<1>8. ASSUME NEW f \in Content, NEW d \in Data, AsyncWrite(f, d) PROVE Rest'
  <2> DEFINE t == [op |-> "write", file |-> f, data |-> d]
  <2>1. f \in File /\ UpdateContents(f, d) /\ InsertTask(t)
        /\ UNCHANGED <<asked, answer, zip>>
    BY <1>8 DEF AsyncWrite, File, InsertTask, zipVars
  <2>2. t \in Task /\ t.op = "write" /\ t.file = f /\ t.data = d
    BY DEF Task, WriteTask
  <2>3. /\ Len(Pending') = Len(Pending) + 1
        /\ \A i \in 1..Len(Pending) : Pending'[i] = Pending[i]
        /\ Pending'[Len(Pending) + 1] = t
    BY <1>1, <2>1, <2>2, Appended
  <2> HIDE DEF t
  <2>4. ContentsNamed' /\ AnsweredAccepted'
        /\ (\A g \in File : accepted[g] # None => accepted'[g] = accepted[g])
        /\ \A r \in Reader : asked'[r] # None => accepted'[asked'[r]] # None
    BY <1>5, <2>1
  <2>5. accepted'[f] = d
    BY <1>1, <2>1, Accepting
  <2>6. ASSUME NEW i \in 1..Len(Pending')
        PROVE  \/ i \in 1..Len(Pending) /\ Pending'[i] = Pending[i]
               \/ Pending'[i] = t
    BY <1>3, <2>3
  <2>7. WritesAccepted'
    BY <1>1, <1>6, <2>2, <2>4, <2>5, <2>6 DEF WritesAccepted
  <2>8. ReadsAsked'
    BY <1>1, <2>1, <2>2, <2>4, <2>6 DEF ReadsAsked
  <2>9. StoredAccepted'
    BY <1>1, <2>1, <2>4, ConstantsAssumption DEF StoredAccepted, TypeOK
  <2> QED BY <2>4, <2>7, <2>8, <2>9
<1>9. ASSUME NEW r \in Reader, NEW f \in Content, AsyncRead(r, f) PROVE Rest'
  <2> DEFINE t == [op |-> "read", file |-> f, reader |-> r]
  <2>1. f \in File /\ f \in contents /\ asked[r] = None /\ f # None
        /\ asked' = [asked EXCEPT ![r] = f] /\ InsertTask(t)
        /\ UNCHANGED <<contents, accepted, answer, zip>>
    BY <1>9, ConstantsAssumption DEF AsyncRead, File, InsertTask, zipVars
  <2>2. t \in Task /\ t.op = "read" /\ t.file = f /\ t.reader = r
    BY DEF Task, ReadTask
  <2>3. /\ Len(Pending') = Len(Pending) + 1
        /\ \A i \in 1..Len(Pending) : Pending'[i] = Pending[i]
        /\ Pending'[Len(Pending) + 1] = t
    BY <1>1, <2>1, <2>2, Appended
  <2> HIDE DEF t
  <2>4. asked'[r] = f /\ \A q \in Reader : q # r => asked'[q] = asked[q]
    BY <1>1, <2>1 DEF TypeOK
  <2>5. ASSUME NEW i \in 1..Len(Pending')
        PROVE  \/ i \in 1..Len(Pending) /\ Pending'[i] = Pending[i]
               \/ Pending'[i] = t
    BY <1>3, <2>3
  <2>6. ASSUME NEW i \in 1..Len(Pending), Pending[i].op = "read"
        PROVE  Pending[i].reader \in Reader /\ asked[Pending[i].reader] # None
    <3>1. Pending[i] \in ReadTask
      BY <1>1, <2>6, PendingElement
    <3>2. asked[Pending[i].reader] = Pending[i].file
      BY <1>1, <2>6 DEF ReadsAsked
    <3> QED BY <3>1, <3>2, ConstantsAssumption DEF ReadTask
  <2>7. WritesAccepted'
    BY <1>1, <2>1, <2>2, <2>5 DEF WritesAccepted
  <2>8. ReadsAsked'
    <3>1. \A i \in 1..Len(Pending') : Pending'[i].op = "read" =>
            asked'[Pending'[i].reader] = Pending'[i].file
      BY <1>1, <2>1, <2>2, <2>4, <2>5, <2>6 DEF ReadsAsked
    <3>2. \A q \in Reader : asked'[q] # None => accepted'[asked'[q]] # None
      BY <1>1, <2>1, <2>4 DEF ReadsAsked, ContentsNamed
    <3> QED BY <3>1, <3>2 DEF ReadsAsked
  <2>9. ContentsNamed' /\ StoredAccepted'
    BY <1>1, <2>1 DEF ContentsNamed, StoredAccepted
  <2>10. AnsweredAccepted'
    BY <1>1, <2>1, <2>4 DEF AnsweredAccepted
  <2> QED BY <2>7, <2>8, <2>9, <2>10
<1>10. ASSUME inHand # NoTask, inHand' = NoTask, UNCHANGED <<tasks, accepted, asked>>
       PROVE  WritesAccepted' /\ ReadsAsked'
  <2>1. /\ Len(Pending) = Len(Pending') + 1
        /\ Len(Pending') \in Nat
        /\ \A i \in 1..Len(Pending') : Pending'[i] = Pending[i + 1]
    BY <1>1, <1>10, Performed
  <2>2. ASSUME NEW i \in 1..Len(Pending')
        PROVE  i + 1 \in 1..Len(Pending) /\ Pending'[i] = Pending[i + 1]
    BY <2>1
  <2> QED BY <1>1, <1>10, <2>2 DEF WritesAccepted, ReadsAsked
<1>11. ASSUME PerformWrite PROVE Rest'
  <2>1. inHand # NoTask /\ inHand.op = "write" /\ DoWrite(inHand.file, inHand.data)
        /\ inHand' = NoTask /\ UNCHANGED <<tasks, contents, accepted, asked, answer>>
    BY <1>1, <1>11 DEF PerformWrite, Phases
  <2>2. 1 \in 1..Len(Pending) /\ Pending[1] = inHand
    <3>1. Len(Pending) = Len(Pending') + 1 /\ Len(Pending') \in Nat /\ Pending[1] = inHand
      BY <1>1, <2>1, Performed
    <3> QED BY <3>1
  <2>3. inHand.file \in File /\ inHand.data \in Data
        /\ accepted[inHand.file] = inHand.data
    BY <1>1, <1>6, <2>1, <2>2 DEF WritesAccepted
  <2>4. StoredAccepted'
    BY <1>1, <2>1, <2>3, Stored DEF StoredAccepted
  <2>5. ContentsNamed' /\ AnsweredAccepted'
    BY <1>1, <2>1 DEF ContentsNamed, AnsweredAccepted
  <2> QED BY <1>10, <2>1, <2>4, <2>5
<1>12. ASSUME PerformRead PROVE Rest'
  <2>1. inHand # NoTask /\ inHand.op = "read" /\ DoRead(inHand.file, inHand.reader)
        /\ inHand' = NoTask /\ UNCHANGED <<tasks, contents, accepted, asked, zip>>
    BY <1>1, <1>12 DEF PerformRead, DoRead, ReopenFails, Phases
  <2>2. 1 \in 1..Len(Pending) /\ Pending[1] = inHand
    <3>1. Len(Pending) = Len(Pending') + 1 /\ Len(Pending') \in Nat /\ Pending[1] = inHand
      BY <1>1, <2>1, Performed
    <3> QED BY <3>1
  <2>3. inHand.file \in Content /\ inHand.file \in File /\ inHand.reader \in Reader
    BY <1>1, <2>1, <2>2, PendingElement DEF ReadTask, WriteTask, File
  <2>4. asked[inHand.reader] = inHand.file /\ inHand.file # None
    BY <1>1, <2>1, <2>2, <2>3, ConstantsAssumption DEF ReadsAsked
  <2>5. AnsweredAccepted'
    <3>1. CASE UNCHANGED answer
      BY <1>1, <2>1, <3>1 DEF AnsweredAccepted
    <3>2. ASSUME NEW got \in {zip[inHand.file], None, Damaged},
                 answer' = [answer EXCEPT ![inHand.reader] = got]
          PROVE  AnsweredAccepted'
      <4>1. got # None => got \in {Damaged, accepted[inHand.file]}
        BY <1>1, <2>3 DEF StoredAccepted
      <4>2. answer'[inHand.reader] = got
            /\ \A r \in Reader : r # inHand.reader => answer'[r] = answer[r]
        BY <1>1, <2>3, <3>2 DEF TypeOK
      <4> QED BY <1>1, <2>1, <2>3, <2>4, <4>1, <4>2 DEF AnsweredAccepted
    <3> QED BY <2>1, <3>1, <3>2 DEF DoRead
  <2>6. ContentsNamed' /\ StoredAccepted'
    BY <1>1, <2>1 DEF ContentsNamed, StoredAccepted
  <2> QED BY <1>10, <2>1, <2>5, <2>6
<1>13. Rest'
  BY <1>1, <1>4, <1>7, <1>8, <1>9, <1>11, <1>12, StepKinds
<1> QED BY <1>2, <1>13 DEF Invariant

\* Each state's pending tasks, stored files and answers agree with what was
\* accepted and asked for, whatever fails.
THEOREM Invariance == Spec => []Invariant
BY InvariantInit, InvariantStep, PTL DEF Spec

\* No read is answered with the contents of another file or of a refused
\* write (async_read, do_read), whether or not minizip or the file system
\* fails in between.
THEOREM NeverForeign == Spec => []NoForeignData
<1>1. Invariant => NoForeignData
  BY DEF Invariant, AnsweredAccepted, NoForeignData
<1> QED BY <1>1, Invariance, PTL

-----------------------------------------------------------------------------
(* While nothing fails, every file and every read is accounted for.         *)

\* do_write and do_read without failures.
LEMMA WriteDone ==
  ASSUME TypeOK, ~MayFail, HandleKept, owner \notin {"unopened", "closed"},
         NEW f \in File, NEW d \in Data, DoWrite(f, d)
  PROVE  /\ zip'[f] = d /\ d # None
         /\ \A g \in File : g # f => zip'[g] = zip[g]
         /\ reported' = reported \cup {f}
         /\ handle' = "writing"
<1>1. ReopenedForWriting = zip
  BY DEF HandleKept, ReopenedForWriting
<1>2. zip' = [zip EXCEPT ![f] = d] /\ reported' = reported \cup {f} /\ handle' = "writing"
  BY <1>1 DEF DoWrite, ReopenFails
<1>3. d # None
  BY ConstantsAssumption
<1> QED BY <1>2, <1>3 DEF TypeOK

LEMMA ReadDone ==
  ASSUME TypeOK, ~MayFail, NEW f \in File, NEW r \in Reader, DoRead(f, r)
  PROVE  /\ answer'[r] = zip[f]
         /\ \A q \in Reader : q # r => answer'[q] = answer[q]
         /\ zip' = zip
         /\ handle' = "reading"
<1>1. answer' = [answer EXCEPT ![r] = zip[f]] /\ zip' = zip /\ handle' = "reading"
  BY DEF DoRead, ReopenFails
<1> QED BY <1>1 DEF TypeOK

\* The worker has a task in hand only while the archive is open.
LEMMA OpenWhileRunning ==
  ASSUME TypeOK, Phases, worker = "running"
  PROVE  owner \notin {"unopened", "closed"}
BY DEF TypeOK, Phases

\* The handle is there while the archive is open.
LEMMA HandleStep ==
  ASSUME ~MayFail, TypeOK, Phases, HandleKept, [Next]_vars
  PROVE  HandleKept'
<1> USE DEF HandleKept
<1>1. CASE Open
  BY <1>1 DEF Open
<1>2. ASSUME NEW f \in Meta, NEW d \in Data, Write(f, d) PROVE HandleKept'
  BY <1>2, WriteDone DEF Write, File
<1>3. ASSUME NEW f \in Content, NEW d \in Data, AsyncWrite(f, d) PROVE HandleKept'
  BY <1>3 DEF AsyncWrite, InsertTask, zipVars
<1>4. ASSUME NEW r \in Reader, NEW f \in Content, AsyncRead(r, f) PROVE HandleKept'
  BY <1>4 DEF AsyncRead, InsertTask, zipVars
<1>5. CASE Notify \/ FinishThread
  BY <1>5 DEF Notify, FinishThread, zipVars
<1>6. CASE Shutdown
  BY <1>6 DEF Shutdown, FinishNotify, Join, Close, zipVars
<1>7. CASE Wait \/ TakeTask \/ Exit \/ SpuriousWakeup
  BY <1>7 DEF Wait, TakeTask, Exit, SpuriousWakeup, zipVars
<1>8. CASE PerformWrite \/ PerformRead
  BY <1>8 DEF PerformWrite, PerformRead, DoWrite, DoRead, ReopenFails
<1>9. CASE UNCHANGED vars
  BY <1>9 DEF vars
<1> QED
  BY <1>1, <1>2, <1>3, <1>4, <1>5, <1>6, <1>7, <1>8, <1>9
  DEF Next, Worker, Terminated

\* The pending tasks before and after the first one was performed.
LEMMA Shifted ==
  ASSUME TypeOK, inHand # NoTask, inHand' = NoTask, tasks' = tasks
  PROVE  /\ 1 \in 1..Len(Pending) /\ Pending[1] = inHand
         /\ \A i \in 1..Len(Pending') :
              i + 1 \in 2..Len(Pending) /\ Pending'[i] = Pending[i + 1]
         /\ \A i \in 2..Len(Pending) :
              i - 1 \in 1..Len(Pending') /\ Pending'[i - 1] = Pending[i]
<1>1. /\ Len(Pending) = Len(Pending') + 1
      /\ Len(Pending') \in Nat
      /\ Pending[1] = inHand
      /\ \A i \in 1..Len(Pending') : Pending'[i] = Pending[i + 1]
  BY Performed
<1>2. ASSUME NEW i \in 2..Len(Pending)
      PROVE  i - 1 \in 1..Len(Pending') /\ Pending'[i - 1] = Pending[i]
  <2>1. i - 1 \in 1..Len(Pending') /\ (i - 1) + 1 = i
    BY <1>1
  <2> QED BY <1>1, <2>1
<1> QED BY <1>1, <1>2

\* What a pending write or read says about its file and its reader.
LEMMA PendingWrite ==
  ASSUME Invariant, NEW i \in 1..Len(Pending), Pending[i].op = "write"
  PROVE  /\ Pending[i].file \in File /\ Pending[i].data \in Data
         /\ accepted[Pending[i].file] = Pending[i].data
         /\ Pending[i].file \in contents
<1>1. Pending[i] \in WriteTask
  BY PendingElement DEF Invariant
<1>2. accepted[Pending[i].file] = Pending[i].data
  BY DEF Invariant, WritesAccepted
<1> QED BY <1>1, <1>2, ConstantsAssumption DEF Invariant, ContentsNamed, WriteTask, File

LEMMA PendingRead ==
  ASSUME Invariant, NEW i \in 1..Len(Pending), Pending[i].op = "read"
  PROVE  /\ Pending[i].file \in File /\ Pending[i].reader \in Reader
         /\ asked[Pending[i].reader] = Pending[i].file
         /\ Pending[i].file # None
<1>1. Pending[i] \in ReadTask
  BY PendingElement DEF Invariant
<1>2. asked[Pending[i].reader] = Pending[i].file
  BY DEF Invariant, ReadsAsked
<1> QED BY <1>1, <1>2, ConstantsAssumption DEF ReadTask, File

\* A file with an answer, or in the archive, is not accepted again.
LEMMA AcceptedStays ==
  ASSUME Invariant, NEW f \in File, NEW d \in Data, UpdateContents(f, d),
         NEW r \in Reader, asked[r] # None
  PROVE  accepted'[asked[r]] = accepted[asked[r]]
<1>1. asked[r] \in File /\ accepted[asked[r]] # None
  BY DEF Invariant, TypeOK, ReadsAsked, File
<1> QED BY <1>1, Accepting DEF Invariant

\* Everything but the handle while nothing fails.
Accounted ==
  WrittenOnce /\ Located /\ StoredIntact /\ WrittenBeforeRead
    /\ ReadOnce /\ AnsweredIntact /\ ReportedStored

\* write
LEMMA AccountedWrite ==
  ASSUME ~MayFail, Invariant, FaultFree, NEW f \in Meta, NEW d \in Data, Write(f, d)
  PROVE  Accounted'
<1>1. /\ f \in File /\ f \notin contents /\ contents' = contents \cup {f}
      /\ UpdateContents(f, d) /\ DoWrite(f, d) /\ owner = "open"
      /\ UNCHANGED <<asked, answer>>
  BY DEF Write, UpdateContents, File
<1>2. Pending' = Pending
  BY DEF Write, Pending
<1>3. /\ zip'[f] = d /\ d # None
      /\ \A g \in File : g # f => zip'[g] = zip[g]
      /\ reported' = reported \cup {f}
  BY <1>1, WriteDone DEF Invariant, FaultFree
<1>4. /\ accepted[f] = None /\ accepted'[f] = d
      /\ \A g \in File : g # f => accepted'[g] = accepted[g]
  BY <1>1, Accepting DEF Invariant
<1>5. zip[f] = None
  BY <1>1 DEF FaultFree, Located
<1>6. ASSUME NEW i \in 1..Len(Pending), Pending[i].op = "write" PROVE Pending[i].file # f
  BY <1>1, <1>6, PendingWrite
<1>7. WrittenOnce' /\ ReadOnce'
  BY <1>1, <1>2 DEF FaultFree, WrittenOnce, ReadOnce
<1>8. Located'
  BY <1>1, <1>2, <1>3, <1>5, <1>6 DEF FaultFree, Located, IsWriteOf
<1>9. StoredIntact'
  BY <1>3, <1>4 DEF FaultFree, StoredIntact
<1>10. WrittenBeforeRead'
  <2>1. ASSUME NEW i \in 1..Len(Pending), Pending[i].op = "read",
               zip[Pending[i].file] # None
        PROVE  zip'[Pending[i].file] # None
    BY <1>3, <2>1, PendingRead
  <2> QED BY <1>2, <2>1 DEF FaultFree, WrittenBeforeRead
<1>11. AnsweredIntact'
  <2>1. ASSUME NEW r \in Reader, answer[r] # None
        PROVE  answer[r] = accepted'[asked[r]]
    <3>1. asked[r] # None /\ answer[r] = accepted[asked[r]]
      BY <2>1 DEF Invariant, AnsweredAccepted, FaultFree, AnsweredIntact
    <3> QED BY <1>1, <3>1, AcceptedStays
  <2> QED BY <1>1, <2>1 DEF AnsweredIntact
<1>12. ReportedStored'
  BY <1>1, <1>3 DEF FaultFree, ReportedStored
<1> QED BY <1>7, <1>8, <1>9, <1>10, <1>11, <1>12 DEF Accounted

\* async_write
LEMMA AccountedAsyncWrite ==
  ASSUME ~MayFail, Invariant, FaultFree, NEW f \in Content, NEW d \in Data,
         AsyncWrite(f, d)
  PROVE  Accounted'
<1> DEFINE t == [op |-> "write", file |-> f, data |-> d]
<1>1. /\ f \in File /\ f \notin contents /\ contents' = contents \cup {f}
      /\ UpdateContents(f, d) /\ InsertTask(t)
      /\ UNCHANGED <<asked, answer, zip, reported>>
  BY DEF AsyncWrite, UpdateContents, InsertTask, File, zipVars
<1>2. t \in Task /\ t.op = "write" /\ t.file = f
  BY DEF Task, WriteTask
<1>3. /\ Len(Pending') = Len(Pending) + 1
      /\ \A i \in 1..Len(Pending) : Pending'[i] = Pending[i]
      /\ Pending'[Len(Pending) + 1] = t
  BY <1>1, <1>2, Appended DEF Invariant
<1> HIDE DEF t
<1>4. Len(Pending) \in Nat
  BY PendingType DEF Invariant
<1>5. /\ accepted[f] = None /\ accepted'[f] = d
      /\ \A g \in File : g # f => accepted'[g] = accepted[g]
  BY <1>1, Accepting DEF Invariant
<1>6. zip[f] = None
  BY <1>1 DEF FaultFree, Located
<1>7. ASSUME NEW i \in 1..Len(Pending), Pending[i].op = "write" PROVE Pending[i].file # f
  BY <1>1, <1>7, PendingWrite
<1>8. ASSUME NEW i \in 1..Len(Pending')
      PROVE  \/ i \in 1..Len(Pending) /\ Pending'[i] = Pending[i]
             \/ i = Len(Pending) + 1 /\ Pending'[i] = t
  BY <1>3, <1>4
<1>9. WrittenOnce'
  BY <1>2, <1>7, <1>8 DEF FaultFree, WrittenOnce
<1>10. Located'
  <2>1. ASSUME NEW g \in File, g \in contents'
        PROVE  zip'[g] # None \/ \E i \in 1..Len(Pending') : IsWriteOf(Pending'[i], g)
    <3>1. CASE g = f
      <4>1. Len(Pending) + 1 \in 1..Len(Pending')
        BY <1>3, <1>4
      <4> QED BY <1>2, <1>3, <3>1, <4>1 DEF IsWriteOf
    <3>2. CASE g # f
      <4>1. g \in contents
        BY <1>1, <2>1, <3>2
      <4>2. zip[g] # None \/ \E i \in 1..Len(Pending) : IsWriteOf(Pending[i], g)
        BY <4>1 DEF FaultFree, Located
      <4>3. \A i \in 1..Len(Pending) : i \in 1..Len(Pending')
        BY <1>3, <1>4
      <4> QED BY <1>1, <1>3, <4>2, <4>3
    <3> QED BY <3>1, <3>2
  <2>2. \A g \in File : zip'[g] # None => g \in contents'
    BY <1>1 DEF FaultFree, Located
  <2>3. \A g \in File : \A i \in 1..Len(Pending') : IsWriteOf(Pending'[i], g) => zip'[g] = None
    BY <1>1, <1>2, <1>6, <1>8 DEF FaultFree, Located, IsWriteOf
  <2> QED BY <2>1, <2>2, <2>3 DEF Located
<1>11. StoredIntact'
  BY <1>1, <1>5, <1>6 DEF FaultFree, StoredIntact
<1>12. WrittenBeforeRead'
  <2>1. ASSUME NEW i \in 1..Len(Pending'), Pending'[i].op = "read"
        PROVE  \/ zip'[Pending'[i].file] # None
               \/ \E j \in 1..(i - 1) : IsWriteOf(Pending'[j], Pending'[i].file)
    <3>1. i \in 1..Len(Pending) /\ Pending'[i] = Pending[i]
      BY <1>2, <1>8, <2>1
    <3>2. \A j \in 1..(i - 1) : Pending'[j] = Pending[j]
      BY <1>3, <1>4, <3>1
    <3> QED BY <1>1, <2>1, <3>1, <3>2 DEF FaultFree, WrittenBeforeRead
  <2> QED BY <2>1 DEF WrittenBeforeRead
<1>13. ReadOnce'
  <2>1. \A i, j \in 1..Len(Pending') :
          (/\ Pending'[i].op = "read" /\ Pending'[j].op = "read"
           /\ Pending'[i].reader = Pending'[j].reader) => i = j
    BY <1>2, <1>8 DEF FaultFree, ReadOnce
  <2>2. \A i \in 1..Len(Pending') : Pending'[i].op = "read" =>
          answer'[Pending'[i].reader] = None
    BY <1>1, <1>2, <1>8 DEF FaultFree, ReadOnce
  <2>3. ASSUME NEW r \in Reader, asked'[r] # None, answer'[r] = None
        PROVE  \E i \in 1..Len(Pending') : IsReadBy(Pending'[i], r)
    <3>1. PICK i \in 1..Len(Pending) : IsReadBy(Pending[i], r)
      BY <1>1, <2>3 DEF FaultFree, ReadOnce
    <3>2. i \in 1..Len(Pending') /\ Pending'[i] = Pending[i]
      BY <1>3, <1>4
    <3> QED BY <3>1, <3>2
  <2> QED BY <2>1, <2>2, <2>3 DEF ReadOnce
<1>14. AnsweredIntact'
  <2>1. ASSUME NEW r \in Reader, answer[r] # None
        PROVE  answer[r] = accepted'[asked[r]]
    <3>1. asked[r] # None /\ answer[r] = accepted[asked[r]]
      BY <2>1 DEF Invariant, AnsweredAccepted, FaultFree, AnsweredIntact
    <3> QED BY <1>1, <3>1, AcceptedStays
  <2> QED BY <1>1, <2>1 DEF AnsweredIntact
<1>15. ReportedStored'
  BY <1>1 DEF FaultFree, ReportedStored
<1> QED BY <1>9, <1>10, <1>11, <1>12, <1>13, <1>14, <1>15 DEF Accounted

\* async_read
LEMMA AccountedAsyncRead ==
  ASSUME ~MayFail, Invariant, FaultFree, NEW r \in Reader, NEW f \in Content,
         AsyncRead(r, f)
  PROVE  Accounted'
<1> DEFINE t == [op |-> "read", file |-> f, reader |-> r]
<1>1. /\ f \in File /\ f \in contents /\ asked[r] = None
      /\ asked' = [asked EXCEPT ![r] = f] /\ InsertTask(t)
      /\ UNCHANGED <<contents, accepted, answer, zip, reported>>
  BY DEF AsyncRead, InsertTask, File, zipVars
<1>2. t \in Task /\ t.op = "read" /\ t.file = f /\ t.reader = r
  BY DEF Task, ReadTask
<1>3. /\ Len(Pending') = Len(Pending) + 1
      /\ \A i \in 1..Len(Pending) : Pending'[i] = Pending[i]
      /\ Pending'[Len(Pending) + 1] = t
  BY <1>1, <1>2, Appended DEF Invariant
<1> HIDE DEF t
<1>4. Len(Pending) \in Nat
  BY PendingType DEF Invariant
<1>5. asked'[r] = f /\ \A q \in Reader : q # r => asked'[q] = asked[q]
  BY <1>1 DEF Invariant, TypeOK
<1>6. answer[r] = None
  BY <1>1 DEF Invariant, AnsweredAccepted
<1>7. ASSUME NEW i \in 1..Len(Pending), Pending[i].op = "read" PROVE Pending[i].reader # r
  BY <1>1, <1>7, PendingRead
<1>8. ASSUME NEW i \in 1..Len(Pending')
      PROVE  \/ i \in 1..Len(Pending) /\ Pending'[i] = Pending[i]
             \/ i = Len(Pending) + 1 /\ Pending'[i] = t
  BY <1>3, <1>4
<1>9. \A i \in 1..Len(Pending) : i \in 1..Len(Pending')
  BY <1>3, <1>4
<1>10. WrittenOnce'
  BY <1>2, <1>8 DEF FaultFree, WrittenOnce
<1>11. Located'
  <2>1. ASSUME NEW g \in File, g \in contents'
        PROVE  zip'[g] # None \/ \E i \in 1..Len(Pending') : IsWriteOf(Pending'[i], g)
    <3>1. zip[g] # None \/ \E i \in 1..Len(Pending) : IsWriteOf(Pending[i], g)
      BY <1>1, <2>1 DEF FaultFree, Located
    <3> QED BY <1>1, <1>3, <1>9, <3>1
  <2>2. \A g \in File : zip'[g] # None => g \in contents'
    BY <1>1 DEF FaultFree, Located
  <2>3. \A g \in File : \A i \in 1..Len(Pending') : IsWriteOf(Pending'[i], g) => zip'[g] = None
    BY <1>1, <1>2, <1>8 DEF FaultFree, Located, IsWriteOf
  <2> QED BY <2>1, <2>2, <2>3 DEF Located
<1>12. StoredIntact' /\ ReportedStored'
  BY <1>1 DEF FaultFree, StoredIntact, ReportedStored
<1>13. WrittenBeforeRead'
  <2>1. ASSUME NEW i \in 1..Len(Pending'), Pending'[i].op = "read"
        PROVE  \/ zip'[Pending'[i].file] # None
               \/ \E j \in 1..(i - 1) : IsWriteOf(Pending'[j], Pending'[i].file)
    <3>1. \A j \in 1..(i - 1) : j \in 1..Len(Pending) /\ Pending'[j] = Pending[j]
      BY <1>3, <1>4
    <3>2. CASE i \in 1..Len(Pending) /\ Pending'[i] = Pending[i]
      BY <1>1, <2>1, <3>1, <3>2 DEF FaultFree, WrittenBeforeRead
    <3>3. CASE i = Len(Pending) + 1 /\ Pending'[i] = t
      <4>1. zip[f] # None \/ \E j \in 1..Len(Pending) : IsWriteOf(Pending[j], f)
        BY <1>1 DEF FaultFree, Located
      <4>2. 1..(i - 1) = 1..Len(Pending)
        BY <1>4, <3>3
      <4> QED BY <1>1, <1>2, <3>1, <3>3, <4>1, <4>2
    <3> QED BY <1>8, <3>2, <3>3
  <2> QED BY <2>1 DEF WrittenBeforeRead
<1>14. ReadOnce'
  <2>1. \A i, j \in 1..Len(Pending') :
          (/\ Pending'[i].op = "read" /\ Pending'[j].op = "read"
           /\ Pending'[i].reader = Pending'[j].reader) => i = j
    BY <1>2, <1>7, <1>8 DEF FaultFree, ReadOnce
  <2>2. \A i \in 1..Len(Pending') : Pending'[i].op = "read" =>
          answer'[Pending'[i].reader] = None
    BY <1>1, <1>2, <1>6, <1>8 DEF FaultFree, ReadOnce
  <2>3. ASSUME NEW q \in Reader, asked'[q] # None, answer'[q] = None
        PROVE  \E i \in 1..Len(Pending') : IsReadBy(Pending'[i], q)
    <3>1. CASE q = r
      <4>1. Len(Pending) + 1 \in 1..Len(Pending')
        BY <1>3, <1>4
      <4> QED BY <1>2, <1>3, <3>1, <4>1 DEF IsReadBy
    <3>2. CASE q # r
      <4>1. PICK i \in 1..Len(Pending) : IsReadBy(Pending[i], q)
        BY <1>1, <1>5, <2>3, <3>2 DEF FaultFree, ReadOnce
      <4> QED BY <1>3, <1>9, <4>1
    <3> QED BY <3>1, <3>2
  <2> QED BY <2>1, <2>2, <2>3 DEF ReadOnce
<1>15. AnsweredIntact'
  BY <1>1, <1>5, <1>6 DEF FaultFree, AnsweredIntact
<1> QED BY <1>10, <1>11, <1>12, <1>13, <1>14, <1>15 DEF Accounted

\* The worker performs a write.
LEMMA AccountedPerformWrite ==
  ASSUME ~MayFail, Invariant, FaultFree, PerformWrite
  PROVE  Accounted'
<1>1. /\ inHand # NoTask /\ inHand' = NoTask /\ tasks' = tasks
      /\ inHand.op = "write" /\ DoWrite(inHand.file, inHand.data)
      /\ worker = "running"
      /\ UNCHANGED <<contents, accepted, asked, answer>>
  BY DEF PerformWrite, Invariant, Phases
<1>2. /\ 1 \in 1..Len(Pending) /\ Pending[1] = inHand
      /\ \A i \in 1..Len(Pending') :
           i + 1 \in 2..Len(Pending) /\ Pending'[i] = Pending[i + 1]
      /\ \A i \in 2..Len(Pending) :
           i - 1 \in 1..Len(Pending') /\ Pending'[i - 1] = Pending[i]
  BY <1>1, Shifted DEF Invariant
<1>3. Len(Pending) \in Nat
  BY PendingType DEF Invariant
<1>4. PICK f \in File, d \in Data : inHand.file = f /\ inHand.data = d
  BY <1>1, <1>2, PendingWrite
<1>5. accepted[f] = d /\ f \in contents
  BY <1>1, <1>2, <1>4, PendingWrite
<1>6. /\ zip'[f] = d /\ d # None
      /\ \A g \in File : g # f => zip'[g] = zip[g]
      /\ reported' = reported \cup {f}
  BY <1>1, <1>4, OpenWhileRunning, WriteDone DEF Invariant, FaultFree
<1>7. ASSUME NEW i \in 2..Len(Pending), Pending[i].op = "write" PROVE Pending[i].file # f
  <2>1. i \in 1..Len(Pending) /\ i # 1
    BY <1>3
  <2> QED BY <1>1, <1>2, <1>4, <1>7, <2>1 DEF FaultFree, WrittenOnce
<1>8. \A i \in 2..Len(Pending) : i \in 1..Len(Pending)
  BY <1>3
<1>9. WrittenOnce'
  <2>1. ASSUME NEW i \in 1..Len(Pending'), NEW j \in 1..Len(Pending'),
               Pending'[i].op = "write", Pending'[j].op = "write",
               Pending'[i].file = Pending'[j].file
        PROVE  i = j
    <3>1. /\ i + 1 \in 1..Len(Pending) /\ Pending'[i] = Pending[i + 1]
          /\ j + 1 \in 1..Len(Pending) /\ Pending'[j] = Pending[j + 1]
      BY <1>2, <1>8
    <3>2. i + 1 = j + 1
      BY <2>1, <3>1 DEF FaultFree, WrittenOnce
    <3> QED BY <3>2
  <2> QED BY <2>1 DEF WrittenOnce
<1>10. Located'
  <2>1. ASSUME NEW g \in File, g \in contents'
        PROVE  zip'[g] # None \/ \E i \in 1..Len(Pending') : IsWriteOf(Pending'[i], g)
    <3>1. CASE g = f
      BY <1>6, <3>1
    <3>2. ASSUME g # f, NEW i \in 1..Len(Pending), IsWriteOf(Pending[i], g)
          PROVE  \E j \in 1..Len(Pending') : IsWriteOf(Pending'[j], g)
      <4>1. i # 1
        BY <1>2, <1>4, <3>2 DEF IsWriteOf
      <4>2. i \in 2..Len(Pending)
        BY <1>3, <4>1
      <4> QED BY <1>2, <3>2, <4>2
    <3>3. zip[g] # None \/ \E i \in 1..Len(Pending) : IsWriteOf(Pending[i], g)
      BY <1>1, <2>1 DEF FaultFree, Located
    <3> QED BY <1>6, <3>1, <3>2, <3>3
  <2>2. \A g \in File : zip'[g] # None => g \in contents'
    BY <1>1, <1>5, <1>6 DEF FaultFree, Located
  <2>3. ASSUME NEW g \in File, NEW i \in 1..Len(Pending'), IsWriteOf(Pending'[i], g)
        PROVE  zip'[g] = None
    <3>1. i + 1 \in 2..Len(Pending) /\ IsWriteOf(Pending[i + 1], g)
      BY <1>2, <2>3
    <3>2. g # f
      BY <1>7, <3>1 DEF IsWriteOf
    <3>3. zip[g] = None
      BY <1>8, <3>1 DEF FaultFree, Located
    <3> QED BY <1>6, <3>2, <3>3
  <2> QED BY <2>1, <2>2, <2>3 DEF Located
<1>11. StoredIntact'
  BY <1>1, <1>5, <1>6 DEF FaultFree, StoredIntact
<1>12. WrittenBeforeRead'
  <2>1. ASSUME NEW i \in 1..Len(Pending'), Pending'[i].op = "read"
        PROVE  \/ zip'[Pending'[i].file] # None
               \/ \E j \in 1..(i - 1) : IsWriteOf(Pending'[j], Pending'[i].file)
    <3>1. i + 1 \in 2..Len(Pending) /\ i + 1 \in 1..Len(Pending)
          /\ Pending'[i] = Pending[i + 1]
      BY <1>2, <1>8
    <3>2. PICK g \in File : g = Pending'[i].file
      BY <2>1, <3>1, PendingRead
    <3>3. CASE g = f \/ zip[g] # None
      BY <1>6, <3>2, <3>3
    <3>4. CASE g # f /\ zip[g] = None
      <4>1. PICK j \in 1..((i + 1) - 1) : IsWriteOf(Pending[j], g)
        BY <2>1, <3>1, <3>2, <3>4 DEF FaultFree, WrittenBeforeRead
      <4>2. j # 1
        BY <1>2, <1>4, <3>4, <4>1 DEF IsWriteOf
      <4>3. j \in 2..Len(Pending) /\ j - 1 \in 1..(i - 1)
        BY <1>3, <3>1, <4>2
      <4>4. Pending'[j - 1] = Pending[j]
        BY <1>2, <4>3
      <4> QED BY <3>2, <4>1, <4>3, <4>4
    <3> QED BY <3>3, <3>4
  <2> QED BY <2>1 DEF WrittenBeforeRead
<1>13. ReadOnce'
  <2>1. ASSUME NEW i \in 1..Len(Pending'), NEW j \in 1..Len(Pending'),
               Pending'[i].op = "read", Pending'[j].op = "read",
               Pending'[i].reader = Pending'[j].reader
        PROVE  i = j
    <3>1. /\ i + 1 \in 1..Len(Pending) /\ Pending'[i] = Pending[i + 1]
          /\ j + 1 \in 1..Len(Pending) /\ Pending'[j] = Pending[j + 1]
      BY <1>2, <1>8
    <3>2. i + 1 = j + 1
      BY <2>1, <3>1 DEF FaultFree, ReadOnce
    <3> QED BY <3>2
  <2>2. \A i \in 1..Len(Pending') : Pending'[i].op = "read" =>
          answer'[Pending'[i].reader] = None
    BY <1>1, <1>2, <1>8 DEF FaultFree, ReadOnce
  <2>3. ASSUME NEW q \in Reader, asked'[q] # None, answer'[q] = None
        PROVE  \E i \in 1..Len(Pending') : IsReadBy(Pending'[i], q)
    <3>1. PICK i \in 1..Len(Pending) : IsReadBy(Pending[i], q)
      BY <1>1, <2>3 DEF FaultFree, ReadOnce
    <3>2. i # 1
      BY <1>1, <1>2, <3>1 DEF IsReadBy
    <3>3. i \in 2..Len(Pending)
      BY <1>3, <3>2
    <3> QED BY <1>2, <3>1, <3>3
  <2> QED BY <2>1, <2>2, <2>3 DEF ReadOnce
<1>14. AnsweredIntact'
  BY <1>1 DEF FaultFree, AnsweredIntact
<1>15. ReportedStored'
  BY <1>6 DEF FaultFree, ReportedStored
<1> QED BY <1>9, <1>10, <1>11, <1>12, <1>13, <1>14, <1>15 DEF Accounted

\* The worker performs a read: it finds the file, with what was accepted.
LEMMA ReadFinds ==
  ASSUME ~MayFail, Invariant, FaultFree, PerformRead
  PROVE  /\ inHand.file \in File /\ inHand.reader \in Reader
         /\ asked[inHand.reader] = inHand.file /\ inHand.file # None
         /\ answer[inHand.reader] = None
         /\ answer'[inHand.reader] = accepted[inHand.file]
         /\ accepted[inHand.file] # None
         /\ \A q \in Reader : q # inHand.reader => answer'[q] = answer[q]
         /\ zip' = zip
<1>1. /\ inHand # NoTask /\ inHand' = NoTask /\ tasks' = tasks
      /\ inHand.op = "read" /\ DoRead(inHand.file, inHand.reader)
  BY DEF PerformRead, Invariant, Phases
<1>2. 1 \in 1..Len(Pending) /\ Pending[1] = inHand
  BY <1>1, Shifted DEF Invariant
<1>3. PICK f \in File, r \in Reader : inHand.file = f /\ inHand.reader = r
  BY <1>1, <1>2, PendingRead
<1>4. asked[r] = f /\ f # None
  BY <1>1, <1>2, <1>3, PendingRead
<1>5. answer[r] = None
  BY <1>1, <1>2, <1>3 DEF FaultFree, ReadOnce
<1>6. zip[f] # None
  <2>1. \/ zip[f] # None
        \/ \E j \in 1..(1 - 1) : IsWriteOf(Pending[j], f)
    BY <1>1, <1>2, <1>3 DEF FaultFree, WrittenBeforeRead
  <2>2. 1..(1 - 1) = {}
    OBVIOUS
  <2> QED BY <2>1, <2>2
<1>7. zip[f] = accepted[f]
  BY <1>6 DEF FaultFree, StoredIntact
<1>8. /\ answer'[r] = zip[f]
      /\ \A q \in Reader : q # r => answer'[q] = answer[q]
      /\ zip' = zip
  BY <1>1, <1>3, ReadDone DEF Invariant
<1> QED BY <1>3, <1>4, <1>5, <1>6, <1>7, <1>8

LEMMA AccountedPerformRead ==
  ASSUME ~MayFail, Invariant, FaultFree, PerformRead
  PROVE  Accounted'
<1>1. /\ inHand # NoTask /\ inHand' = NoTask /\ tasks' = tasks
      /\ inHand.op = "read"
      /\ UNCHANGED <<contents, accepted, asked, reported>>
  BY DEF PerformRead, Invariant, Phases
<1>2. /\ 1 \in 1..Len(Pending) /\ Pending[1] = inHand
      /\ \A i \in 1..Len(Pending') :
           i + 1 \in 2..Len(Pending) /\ Pending'[i] = Pending[i + 1]
      /\ \A i \in 2..Len(Pending) :
           i - 1 \in 1..Len(Pending') /\ Pending'[i - 1] = Pending[i]
  BY <1>1, Shifted DEF Invariant
<1>3. Len(Pending) \in Nat
  BY PendingType DEF Invariant
<1>4. PICK f \in File, r \in Reader : inHand.file = f /\ inHand.reader = r
  BY ReadFinds
<1>5. /\ asked[r] = f /\ answer'[r] = accepted[f] /\ accepted[f] # None
      /\ \A q \in Reader : q # r => answer'[q] = answer[q]
      /\ zip' = zip
  BY <1>4, ReadFinds
<1>6. \A i \in 2..Len(Pending) : i \in 1..Len(Pending) /\ i # 1
  BY <1>3
<1>7. WrittenOnce'
  <2>1. ASSUME NEW i \in 1..Len(Pending'), NEW j \in 1..Len(Pending'),
               Pending'[i].op = "write", Pending'[j].op = "write",
               Pending'[i].file = Pending'[j].file
        PROVE  i = j
    <3>1. /\ i + 1 \in 1..Len(Pending) /\ Pending'[i] = Pending[i + 1]
          /\ j + 1 \in 1..Len(Pending) /\ Pending'[j] = Pending[j + 1]
      BY <1>2, <1>6
    <3>2. i + 1 = j + 1
      BY <2>1, <3>1 DEF FaultFree, WrittenOnce
    <3> QED BY <3>2
  <2> QED BY <2>1 DEF WrittenOnce
<1>8. Located'
  <2>1. ASSUME NEW g \in File, g \in contents'
        PROVE  zip'[g] # None \/ \E i \in 1..Len(Pending') : IsWriteOf(Pending'[i], g)
    <3>1. ASSUME NEW i \in 1..Len(Pending), IsWriteOf(Pending[i], g)
          PROVE  \E j \in 1..Len(Pending') : IsWriteOf(Pending'[j], g)
      <4>1. i # 1
        BY <1>1, <1>2, <3>1 DEF IsWriteOf
      <4>2. i \in 2..Len(Pending)
        BY <1>3, <4>1
      <4> QED BY <1>2, <3>1, <4>2
    <3>2. zip[g] # None \/ \E i \in 1..Len(Pending) : IsWriteOf(Pending[i], g)
      BY <1>1, <2>1 DEF FaultFree, Located
    <3> QED BY <1>5, <3>1, <3>2
  <2>2. \A g \in File : zip'[g] # None => g \in contents'
    BY <1>1, <1>5 DEF FaultFree, Located
  <2>3. \A g \in File : \A i \in 1..Len(Pending') : IsWriteOf(Pending'[i], g) => zip'[g] = None
    BY <1>2, <1>5, <1>6 DEF FaultFree, Located
  <2> QED BY <2>1, <2>2, <2>3 DEF Located
<1>9. StoredIntact' /\ ReportedStored'
  BY <1>1, <1>5 DEF FaultFree, StoredIntact, ReportedStored
<1>10. WrittenBeforeRead'
  <2>1. ASSUME NEW i \in 1..Len(Pending'), Pending'[i].op = "read", zip'[Pending'[i].file] = None
        PROVE  \E j \in 1..(i - 1) : IsWriteOf(Pending'[j], Pending'[i].file)
    <3>1. i + 1 \in 2..Len(Pending) /\ i + 1 \in 1..Len(Pending)
          /\ Pending'[i] = Pending[i + 1]
      BY <1>2, <1>6
    <3>2. PICK j \in 1..((i + 1) - 1) : IsWriteOf(Pending[j], Pending[i + 1].file)
      BY <1>5, <2>1, <3>1 DEF FaultFree, WrittenBeforeRead
    <3>3. j # 1
      BY <1>1, <1>2, <3>2 DEF IsWriteOf
    <3>4. j \in 2..Len(Pending) /\ j - 1 \in 1..(i - 1)
      BY <1>3, <3>1, <3>3
    <3>5. Pending'[j - 1] = Pending[j]
      BY <1>2, <3>4
    <3> QED BY <3>1, <3>2, <3>4, <3>5
  <2> QED BY <2>1 DEF WrittenBeforeRead
<1>11. ReadOnce'
  <2>1. ASSUME NEW i \in 1..Len(Pending'), NEW j \in 1..Len(Pending'),
               Pending'[i].op = "read", Pending'[j].op = "read",
               Pending'[i].reader = Pending'[j].reader
        PROVE  i = j
    <3>1. /\ i + 1 \in 1..Len(Pending) /\ Pending'[i] = Pending[i + 1]
          /\ j + 1 \in 1..Len(Pending) /\ Pending'[j] = Pending[j + 1]
      BY <1>2, <1>6
    <3>2. i + 1 = j + 1
      BY <2>1, <3>1 DEF FaultFree, ReadOnce
    <3> QED BY <3>2
  <2>2. ASSUME NEW i \in 1..Len(Pending'), Pending'[i].op = "read"
        PROVE  answer'[Pending'[i].reader] = None
    <3>1. i + 1 \in 1..Len(Pending) /\ i + 1 # 1 /\ Pending'[i] = Pending[i + 1]
      BY <1>2, <1>6
    <3>2. Pending[i + 1].reader \in Reader /\ Pending[i + 1].reader # r
      BY <1>1, <1>2, <1>4, <2>2, <3>1, PendingRead DEF FaultFree, ReadOnce
    <3>3. answer[Pending[i + 1].reader] = None
      BY <2>2, <3>1 DEF FaultFree, ReadOnce
    <3> QED BY <1>5, <3>1, <3>2, <3>3
  <2>3. ASSUME NEW q \in Reader, asked'[q] # None, answer'[q] = None
        PROVE  \E i \in 1..Len(Pending') : IsReadBy(Pending'[i], q)
    <3>1. q # r
      BY <1>5, <2>3
    <3>2. PICK i \in 1..Len(Pending) : IsReadBy(Pending[i], q)
      BY <1>1, <1>5, <2>3, <3>1 DEF FaultFree, ReadOnce
    <3>3. i # 1
      BY <1>2, <1>4, <3>1, <3>2 DEF IsReadBy
    <3>4. i \in 2..Len(Pending)
      BY <1>3, <3>3
    <3> QED BY <1>2, <3>2, <3>4
  <2> QED BY <2>1, <2>2, <2>3 DEF ReadOnce
<1>12. AnsweredIntact'
  BY <1>1, <1>5 DEF FaultFree, AnsweredIntact
<1> QED BY <1>7, <1>8, <1>9, <1>10, <1>11, <1>12 DEF Accounted

\* Every step keeps the accounts.
LEMMA FaultFreeStep == ~MayFail /\ Invariant /\ FaultFree /\ [Next]_vars => FaultFree'
<1> SUFFICES ASSUME ~MayFail, Invariant, FaultFree, [Next]_vars PROVE FaultFree'
  OBVIOUS
<1>1. TypeOK /\ Phases
  BY DEF Invariant
<1>2. HandleKept'
  BY <1>1, HandleStep DEF FaultFree
<1>3. ASSUME Quiet PROVE Accounted'
  BY <1>3
  DEF FaultFree, Accounted, Quiet, WrittenOnce, Located, StoredIntact,
      WrittenBeforeRead, ReadOnce, AnsweredIntact, ReportedStored
<1>4. Accounted'
  BY <1>1, <1>3, StepKinds, AccountedWrite, AccountedAsyncWrite, AccountedAsyncRead,
     AccountedPerformWrite, AccountedPerformRead
<1> QED BY <1>2, <1>4 DEF FaultFree, Accounted

LEMMA FaultFreeInit == Init => FaultFree
<1> SUFFICES ASSUME Init PROVE FaultFree
  OBVIOUS
<1>1. Pending = <<>> /\ Len(Pending) = 0
  BY DEF Init, Pending
<1>2. HandleKept /\ StoredIntact /\ AnsweredIntact /\ ReportedStored
  BY DEF Init, EmptyZip, HandleKept, StoredIntact, AnsweredIntact, ReportedStored
<1>3. WrittenOnce /\ Located /\ WrittenBeforeRead /\ ReadOnce
  BY <1>1 DEF Init, EmptyZip, WrittenOnce, Located, WrittenBeforeRead, ReadOnce
<1> QED BY <1>2, <1>3 DEF FaultFree

LEMMA FaultFreeAlways == ~MayFail => (Spec => [](Invariant /\ FaultFree))
<1> SUFFICES ASSUME ~MayFail PROVE Spec => [](Invariant /\ FaultFree)
  OBVIOUS
<1>1. Init => Invariant /\ FaultFree
  BY InvariantInit, FaultFreeInit
<1>2. (Invariant /\ FaultFree) /\ [Next]_vars => (Invariant /\ FaultFree)'
  BY InvariantStep, FaultFreeStep
<1> QED BY <1>1, <1>2, PTL DEF Spec

\* A write that is pending is in hand or queued.
LEMMA PendingOutstanding ==
  ASSUME TypeOK, NEW f \in File
  PROVE  /\ (\E i \in 1..Len(Pending) : IsWriteOf(Pending[i], f)) <=> Outstanding(f)
         /\ InHandWrite(f) => 1 \in 1..Len(Pending) /\ IsWriteOf(Pending[1], f)
         /\ \A i \in QueuedWrites(f) :
              \E k \in 1..Len(Pending) :
                IsWriteOf(Pending[k], f) /\ k = IF inHand = NoTask THEN i ELSE i + 1
<1>1. tasks \in Seq(Task) /\ Len(tasks) \in Nat
  BY DEF TypeOK, Task
<1>2. CASE inHand = NoTask
  <2>1. Pending = tasks
    BY <1>2 DEF Pending
  <2>2. ~InHandWrite(f)
    BY <1>2 DEF InHandWrite, NoTask
  <2> QED BY <1>2, <2>1, <2>2 DEF IsWriteOf, Outstanding, QueuedWrites
<1>3. CASE inHand # NoTask
  <2>1. inHand \in Task /\ Pending = <<inHand>> \o tasks
    BY <1>3 DEF TypeOK, Task, Pending
  <2>2. /\ Len(Pending) = Len(tasks) + 1
        /\ Pending[1] = inHand
        /\ \A i \in 1..Len(tasks) : Pending[i + 1] = tasks[i]
    BY <1>1, <2>1, InFront
  <2>3. 1 \in 1..Len(Pending) /\ \A i \in 1..Len(tasks) : i + 1 \in 1..Len(Pending)
    BY <1>1, <2>2
  <2>4. \A i \in QueuedWrites(f) : IsWriteOf(Pending[i + 1], f)
    BY <2>2 DEF IsWriteOf, QueuedWrites
  <2>5. InHandWrite(f) <=> IsWriteOf(Pending[1], f)
    BY <2>2 DEF InHandWrite, IsWriteOf
  <2>6. ASSUME NEW i \in 1..Len(Pending), IsWriteOf(Pending[i], f), ~InHandWrite(f)
        PROVE  QueuedWrites(f) # {}
    <3>1. i - 1 \in 1..Len(tasks) /\ (i - 1) + 1 = i
      BY <1>1, <2>2, <2>5, <2>6
    <3>2. Pending[i] = tasks[i - 1]
      BY <2>2, <3>1
    <3>3. i - 1 \in QueuedWrites(f)
      BY <2>6, <3>1, <3>2 DEF IsWriteOf, QueuedWrites
    <3> QED BY <3>3
  <2>7. QueuedWrites(f) \subseteq 1..Len(tasks)
    BY DEF QueuedWrites
  <2> QED BY <1>3, <2>3, <2>4, <2>5, <2>6, <2>7 DEF Outstanding
<1> QED BY <1>2, <1>3

\* While nothing fails, a file that contains() knows is in the ZIP file or its
\* one write is outstanding, never both and never twice (m_contents, m_tasks):
\* the owner accepts and the worker performs, each under its own mutex, and no
\* order of their steps loses or repeats a write.
THEOREM AlwaysAccounted == ~MayFail => (Spec => []ContentsAccounted)
<1> SUFFICES ASSUME ~MayFail PROVE Spec => []ContentsAccounted
  OBVIOUS
<1>1. Invariant /\ FaultFree => ContentsAccounted
  <2> SUFFICES ASSUME Invariant, FaultFree, NEW f \in File
               PROVE  /\ f \in contents <=> (zip[f] # None \/ Outstanding(f))
                      /\ zip[f] # None => ~Outstanding(f)
                      /\ InHandWrite(f) => QueuedWrites(f) = {}
                      /\ \A i, j \in QueuedWrites(f) : i = j
    BY DEF ContentsAccounted
  <2>1. TypeOK /\ Len(Pending) \in Nat
    BY PendingType DEF Invariant
  <2>2. (\E i \in 1..Len(Pending) : IsWriteOf(Pending[i], f)) <=> Outstanding(f)
    BY <2>1, PendingOutstanding
  <2>3. \A i \in 1..Len(Pending) : IsWriteOf(Pending[i], f) => f \in contents
    BY PendingWrite DEF IsWriteOf
  <2>4. f \in contents <=> (zip[f] # None \/ Outstanding(f))
    BY <2>2, <2>3 DEF FaultFree, Located
  <2>5. zip[f] # None => ~Outstanding(f)
    BY <2>2 DEF FaultFree, Located
  <2>6. \A i, j \in 1..Len(Pending) : IsWriteOf(Pending[i], f) /\ IsWriteOf(Pending[j], f) => i = j
    BY DEF FaultFree, WrittenOnce, IsWriteOf
  <2>7. /\ InHandWrite(f) => 1 \in 1..Len(Pending) /\ IsWriteOf(Pending[1], f)
        /\ \A i \in QueuedWrites(f) :
             \E k \in 1..Len(Pending) :
               IsWriteOf(Pending[k], f) /\ k = IF inHand = NoTask THEN i ELSE i + 1
    BY <2>1, PendingOutstanding
  <2>8. QueuedWrites(f) \subseteq 1..Len(tasks) /\ Len(tasks) \in Nat
    BY <2>1 DEF QueuedWrites, TypeOK
  <2>9. ASSUME InHandWrite(f), NEW i \in QueuedWrites(f) PROVE FALSE
    <3>1. inHand # NoTask
      BY <2>9 DEF InHandWrite, NoTask
    <3>2. i + 1 \in 1..Len(Pending) /\ IsWriteOf(Pending[i + 1], f)
      BY <2>7, <3>1
    <3>3. i + 1 = 1
      BY <2>6, <2>7, <2>9, <3>2
    <3> QED BY <2>8, <3>3
  <2>10. ASSUME NEW i \in QueuedWrites(f), NEW j \in QueuedWrites(f) PROVE i = j
    <3>1. PICK k \in 1..Len(Pending) :
            IsWriteOf(Pending[k], f) /\ k = IF inHand = NoTask THEN i ELSE i + 1
      BY <2>7
    <3>2. PICK m \in 1..Len(Pending) :
            IsWriteOf(Pending[m], f) /\ m = IF inHand = NoTask THEN j ELSE j + 1
      BY <2>7
    <3>3. k = m
      BY <2>6, <3>1, <3>2
    <3> QED BY <2>8, <3>1, <3>2, <3>3
  <2> QED BY <2>4, <2>5, <2>9, <2>10
<1> QED BY <1>1, FaultFreeAlways, PTL

\* Once the worker has exited, nothing is pending and all is in the archive.
LEMMA NothingPending ==
  ASSUME Invariant, owner \in {"joined", "closed"}
  PROVE  Pending = <<>> /\ Len(Pending) = 0
BY DEF Invariant, Phases, Pending

LEMMA CompleteAtEnd ==
  ASSUME Invariant, FaultFree, owner \in {"joined", "closed"}
  PROVE  /\ zip = accepted
         /\ \A r \in Reader : asked[r] # None => answer[r] # None
<1>1. Len(Pending) = 0 /\ 1..0 = {}
  BY NothingPending
<1>2. \A f \in File : f \in contents <=> zip[f] # None
  BY <1>1 DEF FaultFree, Located
<1>3. \A f \in File : zip[f] = accepted[f]
  BY <1>2 DEF Invariant, ContentsNamed, FaultFree, StoredIntact
<1>4. zip = accepted
  BY <1>3 DEF Invariant, TypeOK
<1>5. \A r \in Reader : asked[r] # None => answer[r] # None
  BY <1>1 DEF FaultFree, ReadOnce
<1> QED BY <1>4, <1>5

\* While nothing fails, the archive that close leaves behind holds every
\* accepted file with the data it was accepted with, every write was reported
\* and every read answered (finish_thread, do_close), whatever was still
\* queued when close was called.
THEOREM CompleteWhenClosed == ~MayFail => (Spec => []ClosedComplete)
<1> SUFFICES ASSUME ~MayFail PROVE Spec => []ClosedComplete
  OBVIOUS
<1>1. Invariant /\ FaultFree => ClosedComplete
  BY CompleteAtEnd DEF ClosedComplete, FaultFree, ReportedStored
<1> QED BY <1>1, FaultFreeAlways, PTL

-----------------------------------------------------------------------------
(* The refinement.                                                          *)

\* A step of the queue, the threads and the ZIP handle is a step of the store
\* or changes nothing that the store shows.
LEMMA StoreStep ==
  ASSUME ~MayFail, Invariant, FaultFree, [Next]_vars
  PROVE  [Store!Next]_(Store!vars)
<1>1. TypeOK /\ Phases
  BY DEF Invariant
<1> DEFINE archive == IF owner = "closed" THEN zip ELSE None
<1>2. ASSUME NEW f \in File, NEW d \in Data, UpdateContents(f, d),
             owner = "open", owner' # "closed", UNCHANGED <<asked, answer>>
      PROVE  Store!Next
  <2>1. f \notin contents /\ accepted' = [accepted EXCEPT ![f] = d]
    BY <1>2 DEF UpdateContents
  <2>2. accepted[f] = None
    BY <2>1 DEF Invariant, ContentsNamed
  <2>3. Store!Accept(f, d)
    BY <1>2, <2>1, <2>2 DEF Store!Accept
  <2> QED BY <2>3 DEF Store!Next
<1>3. ASSUME NEW f \in Meta, NEW d \in Data, Write(f, d) PROVE Store!Next
  BY <1>2, <1>3 DEF Write, File
<1>4. ASSUME NEW f \in Content, NEW d \in Data, AsyncWrite(f, d) PROVE Store!Next
  BY <1>2, <1>4 DEF AsyncWrite, InsertTask, File
<1>5. ASSUME NEW r \in Reader, NEW f \in Content, AsyncRead(r, f) PROVE Store!Next
  <2>1. /\ f \in File /\ f \in contents /\ asked[r] = None
        /\ asked' = [asked EXCEPT ![r] = f]
        /\ owner = "open" /\ owner' # "closed" /\ UNCHANGED <<accepted, answer>>
    BY <1>5 DEF AsyncRead, InsertTask, File
  <2>2. accepted[f] # None
    BY <2>1 DEF Invariant, ContentsNamed
  <2>3. Store!Ask(r, f)
    BY <2>1, <2>2 DEF Store!Ask
  <2> QED BY <2>1, <2>3 DEF Store!Next
<1>6. CASE PerformRead
  <2>1. PICK r \in Reader : r = inHand.reader
    BY <1>6, ReadFinds
  <2>2. /\ asked[r] = inHand.file /\ inHand.file # None /\ answer[r] = None
        /\ answer'[r] = accepted[inHand.file]
        /\ \A q \in Reader : q # r => answer'[q] = answer[q]
    BY <1>6, <2>1, ReadFinds
  <2>3. answer' = [answer EXCEPT ![r] = accepted[asked[r]]]
    <3>1. TypeOK'
      BY <1>1, TypeStep
    <3> QED BY <1>1, <2>2, <3>1 DEF TypeOK
  <2>4. UNCHANGED <<owner, accepted, asked>> /\ owner # "closed"
    BY <1>1, <1>6, OpenWhileRunning DEF PerformRead
  <2>5. Store!Reply(r)
    BY <2>2, <2>3, <2>4 DEF Store!Reply
  <2> QED BY <2>5 DEF Store!Next
<1>7. CASE Close
  <2>1. /\ owner = "joined" /\ owner' = "closed"
        /\ UNCHANGED <<zip, asked, answer, accepted>>
    BY <1>7 DEF Close, historyVars
  <2>2. zip = accepted /\ \A r \in Reader : asked[r] # None => answer[r] # None
    BY <2>1, CompleteAtEnd
  <2>3. Store!Close
    BY <2>1, <2>2 DEF Store!Close
  <2> QED BY <2>3 DEF Store!Next
<1>8. ASSUME owner # "closed", owner' # "closed", UNCHANGED <<asked, answer, accepted>>
      PROVE  UNCHANGED Store!vars
  BY <1>8 DEF Store!vars
<1>9. CASE PerformWrite
  <2>1. UNCHANGED <<owner, asked, answer, accepted>> /\ owner # "closed"
    BY <1>1, <1>9, OpenWhileRunning DEF PerformWrite
  <2> QED BY <1>8, <2>1
<1>10. CASE Open \/ Notify \/ FinishThread \/ FinishNotify \/ Join
  BY <1>8, <1>10 DEF Open, Notify, FinishThread, FinishNotify, Join, historyVars
<1>11. CASE Wait \/ TakeTask \/ Exit \/ SpuriousWakeup
  <2>1. owner # "closed"
    BY <1>1, <1>11 DEF Phases, Wait, TakeTask, Exit, SpuriousWakeup
  <2> QED BY <1>8, <1>11, <2>1 DEF Wait, TakeTask, Exit, SpuriousWakeup, historyVars
<1>12. CASE UNCHANGED vars
  BY <1>12 DEF vars, Store!vars
<1> QED
  BY <1>3, <1>4, <1>5, <1>6, <1>7, <1>9, <1>10, <1>11, <1>12
  DEF Next, Worker, Shutdown, Terminated

\* While nothing fails, ArchiveWriter implements the write-once store: its
\* queue, its worker, its condition variable and its reopened ZIP handle are
\* not visible in what the submitter is told and finds in the archive.
THEOREM Implementation == ~MayFail => (Spec => ImplementsStore)
<1> SUFFICES ASSUME ~MayFail PROVE Spec => Store!Spec
  BY DEF ImplementsStore
<1>1. Init => Store!Init
  BY DEF Init, EmptyZip, Store!Init, Store!Nothing
<1>2. (Invariant /\ FaultFree) /\ [Next]_vars => [Store!Next]_(Store!vars)
  BY StoreStep
<1> QED BY <1>1, <1>2, FaultFreeAlways, PTL DEF Spec, Store!Spec
=============================================================================

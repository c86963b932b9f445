------------------------ MODULE RecordingSessionProofs ------------------------
(***************************************************************************)
(* Theorems about RecordingSession for any set of URLs and any number of   *)
(* sessions, which may be killed or fail at every step.                    *)
(***************************************************************************)
EXTENDS RecordingSession, TLAPS

-----------------------------------------------------------------------------
(* Type correctness.                                                       *)

\* append_unrequested_files produces an archive.
LEMMA AppendType ==
  ASSUME TypeOK PROVE AppendUnrequestedFiles \in Archive
<1>1. CASE reader = None \/ policy = "requested"
  BY <1>1 DEF TypeOK, AppendUnrequestedFiles
<1>2. CASE ~(reader = None \/ policy = "requested")
  <2>1. reader \in Archive /\ writer \in Archive
    BY <1>2 DEF TypeOK
  <2>2. ASSUME NEW u \in Url
        PROVE  /\ Top(u) \in Version
               /\ AppendedHeader(u) \in Version
               /\ AppendedBody(u) \in Version
    BY <2>1 DEF Archive, Pages, Top, AppendedHeader, AppendedBody
  <2>3. ASSUME NEW u \in Url PROVE AppendedFirst(u) \in Version
    BY <2>2, SessionAssumption DEF AppendedFirst, Version
  <2> QED BY <1>2, <2>2, <2>3 DEF AppendUnrequestedFiles, Archive, Pages
<1> QED BY <1>1, <1>2

\* The types hold initially and every step keeps them.
LEMMA TypeStep == TypeOK /\ [Next]_vars => TypeOK'
<1> SUFFICES ASSUME TypeOK, [Next]_vars PROVE TypeOK'
  OBVIOUS
<1> USE SessionAssumption DEF TypeOK
<1>0. Empty \in Archive
  BY DEF Empty, NoPages, Archive, Pages, Version
<1>1. CASE Start
  <2>1. session' \in 0..MaxSession
    BY <1>1 DEF Start, Open
  <2>2. blocked' \in SUBSET Url
    BY <1>1 DEF Start
  <2> QED BY <1>0, <1>1, <2>1, <2>2 DEF Start, Open
<1>2. CASE StartFails
  <2>1. session' \in 0..MaxSession
    BY <1>2 DEF StartFails, Open
  <2> QED BY <1>0, <1>2, <2>1 DEF StartFails, Open
<1>3. ASSUME NEW u \in Url, NEW empty \in BOOLEAN, Download(u, empty) PROVE TypeOK'
  <2>1. writer' \in Archive
    BY <1>3 DEF Download, Archive, Pages, Version
  <2> QED BY <1>3, <2>1 DEF Download, files, setup, history
<1>4. ASSUME NEW u \in Url, Keep(u) PROVE TypeOK'
  <2>1. writer' \in Archive
    BY <1>4 DEF Keep, Archive, Pages
  <2> QED BY <1>4, <2>1 DEF Keep, files, setup, history
<1>5. CASE Finish
  <2>1. AppendUnrequestedFiles \in Archive
    BY AppendType
  <2> QED BY <1>5, <2>1 DEF Finish, setup
<1>6. CASE RemoveTarget
  BY <1>6 DEF RemoveTarget, setup, history
<1>7. ASSUME Abandon, target' \in Archive \cup {None, Damaged} PROVE TypeOK'
  BY <1>7 DEF Abandon, setup
<1>8. CASE RemoveFails \/ CopyFails \/ Kill
  BY <1>7, <1>8 DEF RemoveFails, CopyFails, Kill
<1>9. CASE Rename
  BY <1>9 DEF Rename, InPlace, setup
<1>10. CASE RenameFails
  BY <1>10 DEF RenameFails, files, setup, history
<1>11. CASE BeginCopy
  BY <1>11 DEF BeginCopy, setup, history
<1>12. CASE EndCopy
  BY <1>12 DEF EndCopy, InPlace, setup
<1>13. CASE RemoveTemp
  BY <1>13 DEF RemoveTemp, setup, history
<1>14. CASE UNCHANGED vars
  BY <1>14 DEF vars
<1> QED
  BY <1>1, <1>2, <1>3, <1>4, <1>5, <1>6, <1>8, <1>9, <1>10, <1>11, <1>12, <1>13,
     <1>14
  DEF Next, Terminated

\* Every state of a session is well-formed.
THEOREM TypeCorrect == Spec => []TypeOK
<1>1. Init => TypeOK
  <2> SUFFICES ASSUME Init PROVE TypeOK
    OBVIOUS
  <2>1. Empty \in Archive
    BY SessionAssumption DEF Empty, NoPages, Archive, Pages, Version
  <2>2. session \in 0..MaxSession /\ strays \in SUBSET Archive
    BY SessionAssumption DEF Init
  <2>3. blocked \in SUBSET Url /\ fetched \in SUBSET Url
    BY DEF Init
  <2> QED BY <2>1, <2>2, <2>3 DEF Init, TypeOK
<1> QED BY <1>1, TypeStep, PTL DEF Spec

-----------------------------------------------------------------------------
(* No completed recording is destroyed.                                    *)

\* Where the archive completed last is to be found in each phase.
Whereabouts ==
  /\ phase \in {"idle", "recording"} => temp = None
  /\ phase \in {"removing", "renaming", "copying", "copied"} =>
       temp # None /\ newest = temp
  /\ phase = "unlinking" => target = newest

\* The archive completed last survives kills and failing file operations.
THEOREM NeverDestroyed == Spec => []NothingDestroyed
<1> DEFINE IInv == NothingDestroyed /\ Whereabouts
<1>1. Init => IInv
  BY DEF Init, NothingDestroyed, Whereabouts
<1>2. TypeOK /\ IInv /\ [Next]_vars => IInv'
  <2> SUFFICES ASSUME TypeOK, IInv, [Next]_vars PROVE IInv'
    OBVIOUS
  <2> USE DEF NothingDestroyed, Whereabouts
  <2>1. CASE Start
    BY <2>1 DEF Start, Open
  <2>2. CASE StartFails
    <3>1. Empty \in Archive
      BY SessionAssumption DEF Empty, NoPages, Archive, Pages, Version
    <3> QED BY <2>2, <3>1, SessionAssumption DEF StartFails, Open
  <2>3. ASSUME NEW u \in Url, NEW empty \in BOOLEAN, Download(u, empty) PROVE IInv'
    BY <2>3 DEF Download, files, history
  <2>4. ASSUME NEW u \in Url, Keep(u) PROVE IInv'
    BY <2>4 DEF Keep, files, history
  <2>5. CASE Finish
    <3>1. AppendUnrequestedFiles # None
      BY AppendType, SessionAssumption
    <3> QED BY <2>5, <3>1 DEF Finish
  <2>6. CASE RemoveTarget
    BY <2>6 DEF RemoveTarget, history
  <2>7. CASE RemoveFails \/ CopyFails \/ Kill
    BY <2>7 DEF RemoveFails, CopyFails, Kill, Abandon
  <2>8. CASE Rename
    BY <2>8 DEF Rename, InPlace
  <2>9. CASE RenameFails
    BY <2>9 DEF RenameFails, files, history
  <2>10. CASE BeginCopy
    BY <2>10 DEF BeginCopy, history
  <2>11. CASE EndCopy
    BY <2>11 DEF EndCopy, InPlace
  <2>12. CASE RemoveTemp
    BY <2>12 DEF RemoveTemp, history
  <2>13. CASE UNCHANGED vars
    BY <2>13 DEF vars
  <2> QED
    BY <2>1, <2>2, <2>3, <2>4, <2>5, <2>6, <2>7, <2>8, <2>9, <2>10, <2>11, <2>12,
       <2>13
    DEF Next, Terminated
<1> QED BY <1>1, <1>2, TypeCorrect, PTL DEF Spec
-----------------------------------------------------------------------------
(* Pages accumulate.                                                       *)

\* What holds of every archive the program has written or is writing: there
\* is no body without a header, and nothing is from a later session.
Sound(a) == \A u \in Url : /\ a.body[u] # 0 => a.header[u] # 0
                           /\ a.first[u] # 0 => a.header[u] # 0
                           /\ a.body[u] <= session
                           /\ a.first[u] <= session

\* Archive a still has the oldest version of every page of the archive read.
KeepsFirst(a) == \A u \in Url \ blocked :
                   Oldest(reader, u) # 0 => Oldest(a, u) = Oldest(reader, u)

\* The archives at hand are sound; a body that is recorded is not older than
\* the archived one; a completed archive covers the one the session read.
Accumulating ==
  /\ phase # "idle" => session > 0
  /\ target \in Archive => Sound(target)
  /\ reader \in Archive => Sound(reader)
  /\ temp \in Archive => Sound(temp)
  /\ phase = "recording" =>
       /\ Sound(writer)
       /\ reader # None => \A u \in Url :
            writer.body[u] # 0 => writer.body[u] >= reader.body[u]
  /\ phase \in {"removing", "renaming", "copying", "copied"} =>
       /\ temp \in Archive
       /\ reader # None /\ policy \notin {"requested", "first"} =>
            Covers(temp, reader, blocked)
       /\ reader # None /\ policy = "latest-and-first" => KeepsFirst(temp)

\* append_unrequested_files completes what was recorded to a sound archive
\* that covers the one that was read.
LEMMA AppendAccumulates ==
  ASSUME TypeOK, Accumulating, phase = "recording"
  PROVE  LET a == AppendUnrequestedFiles
         IN  /\ Sound(a)
             /\ reader # None /\ policy \notin {"requested", "first"} =>
                  Covers(a, reader, blocked)
             /\ reader # None /\ policy = "latest-and-first" => KeepsFirst(a)
<1> DEFINE a == AppendUnrequestedFiles
<1>1. CASE reader = None \/ policy = "requested"
  BY <1>1 DEF AppendUnrequestedFiles, Accumulating
<1>2. CASE ~(reader = None \/ policy = "requested")
  <2>1. reader \in Archive /\ writer \in Archive /\ session \in Nat
    BY <1>2, SessionAssumption DEF TypeOK
  <2>2. Sound(reader) /\ Sound(writer)
    BY <2>1 DEF Accumulating
  <2>3. ASSUME NEW u \in Url
        PROVE  /\ a.header[u] = AppendedHeader(u)
               /\ a.body[u] = AppendedBody(u)
               /\ a.first[u] = AppendedFirst(u)
    BY <1>2 DEF AppendUnrequestedFiles
  <2>4. ASSUME NEW u \in Url
        PROVE  /\ reader.header[u] \in Nat /\ writer.header[u] \in Nat
               /\ reader.body[u] \in Nat /\ writer.body[u] \in Nat
               /\ reader.first[u] \in Nat
    BY <2>1, SessionAssumption DEF Archive, Pages, Version
  <2>5. Sound(a)
    <3> SUFFICES ASSUME NEW u \in Url
                 PROVE  /\ AppendedBody(u) # 0 => AppendedHeader(u) # 0
                        /\ AppendedFirst(u) # 0 => AppendedHeader(u) # 0
                        /\ AppendedBody(u) <= session
                        /\ AppendedFirst(u) <= session
      BY <2>3 DEF Sound
    <3>1. Top(u) <= session
      BY <2>2 DEF Top, Sound
    <3> QED
      BY <2>1, <2>2, <2>4, <3>1
      DEF Sound, AppendedBody, AppendedHeader, AppendedFirst, Unrequested
  <2>6. ASSUME policy \notin {"requested", "first"}
        PROVE  Covers(a, reader, blocked)
    <3> SUFFICES ASSUME NEW u \in Url \ blocked
                 PROVE  /\ reader.header[u] # 0 => AppendedHeader(u) # 0
                        /\ AppendedBody(u) >= reader.body[u]
      BY <2>3 DEF Covers
    <3>1. writer.body[u] # 0 => writer.body[u] >= reader.body[u]
      BY <1>2 DEF Accumulating
    <3> QED
      BY <2>2, <2>4, <2>6, <3>1
      DEF Sound, AppendedBody, AppendedHeader, Unrequested
  <2>7. ASSUME policy = "latest-and-first" PROVE KeepsFirst(a)
    <3> SUFFICES ASSUME NEW u \in Url \ blocked, Oldest(reader, u) # 0
                 PROVE  IF AppendedFirst(u) # 0
                        THEN AppendedFirst(u) = Oldest(reader, u)
                        ELSE AppendedBody(u) = Oldest(reader, u)
      BY <2>3 DEF KeepsFirst, Oldest
    <3>1. reader.header[u] # 0
      BY <2>2 DEF Sound, Oldest
    <3> QED BY <2>7, <3>1 DEF AppendedFirst, Top, Oldest
  <2> QED BY <2>5, <2>6, <2>7
<1> QED BY <1>1, <1>2

\* Every step keeps the invariant.
LEMMA AccumulatingStep ==
  TypeOK /\ Accumulating /\ [Next]_vars => Accumulating'
<1> SUFFICES ASSUME TypeOK, Accumulating, [Next]_vars PROVE Accumulating'
  OBVIOUS
<1>1. session \in Nat /\ writer \in Archive
  BY SessionAssumption DEF TypeOK
<1>2. Empty \in Archive
  BY SessionAssumption DEF Empty, NoPages, Archive, Pages, Version
<1>3. ASSUME NEW a \in Archive, Sound(a), session' \in {session, session + 1}
      PROVE  Sound(a)'
  <2>1. ASSUME NEW u \in Url PROVE a.body[u] \in Nat /\ a.first[u] \in Nat
    BY SessionAssumption DEF Archive, Pages, Version
  <2> QED BY <1>1, <1>3, <2>1 DEF Sound
<1>4. CASE Start
  <2>1. session' = session + 1 /\ target' = target /\ temp' = temp
    BY <1>4 DEF Start, Open
  <2>2. target \in Archive => Sound(target)'
    BY <1>3, <2>1 DEF Accumulating
  <2>3. temp \in Archive => Sound(temp)'
    BY <1>3, <2>1 DEF Accumulating
  <2>4. (reader \in Archive => Sound(reader))'
    <3>1. reader' = None \/ reader' = target
      BY <1>4 DEF Start
    <3> QED BY <2>1, <2>2, <3>1, SessionAssumption DEF Sound
  <2>5. writer' = Empty /\ phase' = "recording"
    BY <1>4 DEF Start, Open
  <2>6. Sound(writer)'
    BY <1>1, <2>1, <2>5 DEF Sound, Empty, NoPages
  <2>7. (\A u \in Url : writer.body[u] # 0 => writer.body[u] >= reader.body[u])'
    BY <2>5 DEF Empty, NoPages
  <2> QED BY <1>1, <2>1, <2>2, <2>3, <2>4, <2>5, <2>6, <2>7 DEF Accumulating
<1>5. CASE StartFails
  <2>1. /\ session' = session + 1 /\ target' = target
        /\ temp' = Empty /\ reader' = None /\ phase' = "removing"
    BY <1>5 DEF StartFails, Open
  <2>2. target \in Archive => Sound(target)'
    BY <1>3, <2>1 DEF Accumulating
  <2>3. Sound(temp)'
    BY <1>1, <2>1 DEF Sound, Empty, NoPages
  <2> QED BY <1>1, <1>2, <2>1, <2>2, <2>3, SessionAssumption DEF Accumulating
<1>6. ASSUME phase = "recording", phase' = "recording",
             UNCHANGED <<target, temp, session, reader>>,
             NEW u \in Url, NEW h \in Nat \ {0}, NEW b \in 0..session,
             writer' = [writer EXCEPT !.header[u] = h, !.body[u] = b],
             reader # None /\ b # 0 => b >= reader.body[u]
      PROVE  Accumulating'
  <2>1. \A v \in Url : /\ writer'.header[v] = (IF v = u THEN h ELSE writer.header[v])
                       /\ writer'.body[v] = (IF v = u THEN b ELSE writer.body[v])
                       /\ writer'.first[v] = writer.first[v]
    BY <1>1, <1>6 DEF Archive, Pages
  <2>2. Sound(writer) /\ (reader # None => \A v \in Url :
                            writer.body[v] # 0 => writer.body[v] >= reader.body[v])
    BY <1>6 DEF Accumulating
  <2>3. Sound(writer)'
    BY <1>1, <1>6, <2>1, <2>2 DEF Sound
  <2>4. (reader # None => \A v \in Url :
           writer.body[v] # 0 => writer.body[v] >= reader.body[v])'
    BY <1>6, <2>1, <2>2
  <2> QED BY <1>6, <2>3, <2>4 DEF Accumulating, Sound
<1>7. ASSUME NEW u \in Url, NEW empty \in BOOLEAN, Download(u, empty)
      PROVE  Accumulating'
  <2> DEFINE b == IF empty THEN 0 ELSE session
  <2>1. session \in Nat \ {0}
    BY <1>1, <1>7 DEF Accumulating, Download
  <2>2. b \in 0..session
    BY <2>1
  <2>3. reader # None /\ b # 0 => b >= reader.body[u]
    BY <2>1 DEF Accumulating, TypeOK, Sound
  <2>4. /\ phase = "recording" /\ phase' = "recording"
        /\ UNCHANGED <<target, temp, session, reader>>
        /\ writer' = [writer EXCEPT !.header[u] = session, !.body[u] = b]
    BY <1>7 DEF Download, files, setup
  <2> HIDE DEF b
  <2> QED BY <1>6, <2>1, <2>2, <2>3, <2>4
<1>8. ASSUME NEW u \in Url, Keep(u) PROVE Accumulating'
  <2>1. reader \in Archive /\ Sound(reader)
    BY <1>8 DEF Keep, TypeOK, Accumulating
  <2>2. /\ reader.header[u] \in Nat \ {0}
        /\ reader.body[u] \in 0..session
    BY <1>1, <1>8, <2>1, SessionAssumption DEF Keep, Sound, Archive, Pages, Version
  <2>3. /\ phase = "recording" /\ phase' = "recording"
        /\ UNCHANGED <<target, temp, session, reader>>
        /\ writer' = [writer EXCEPT !.header[u] = reader.header[u],
                                    !.body[u] = reader.body[u]]
    BY <1>8 DEF Keep, files, setup
  <2>4. reader.body[u] >= reader.body[u]
    BY <2>2
  <2> QED BY <1>6, <2>2, <2>3, <2>4
<1>9. CASE Finish
  <2>1. phase = "recording" /\ phase' = "removing"
        /\ temp' = AppendUnrequestedFiles
        /\ UNCHANGED <<target, session, policy, blocked, reader>>
    BY <1>9 DEF Finish, setup
  <2>2. AppendUnrequestedFiles \in Archive
    BY AppendType
  <2>3. Sound(temp)'
    BY <2>1, AppendAccumulates DEF Sound
  <2>4. (reader # None /\ policy \notin {"requested", "first"} =>
           Covers(temp, reader, blocked))'
    BY <2>1, AppendAccumulates DEF Covers
  <2>5. (reader # None /\ policy = "latest-and-first" => KeepsFirst(temp))'
    BY <2>1, AppendAccumulates DEF KeepsFirst, Oldest
  <2> QED BY <2>1, <2>2, <2>3, <2>4, <2>5 DEF Accumulating, Sound
<1>10. CASE RemoveTarget
  BY <1>10, SessionAssumption DEF RemoveTarget, setup, Accumulating, Sound, Covers,
  KeepsFirst, Oldest
<1>11. CASE RemoveFails \/ CopyFails \/ Kill
  BY <1>11, SessionAssumption
  DEF RemoveFails, CopyFails, Kill, Abandon, setup, Accumulating, Sound
<1>12. CASE Rename
  BY <1>12, SessionAssumption DEF Rename, InPlace, setup, Accumulating, Sound
<1>13. CASE RenameFails
  BY <1>13 DEF RenameFails, files, setup, Accumulating, Sound, Covers,
  KeepsFirst, Oldest
<1>14. CASE BeginCopy
  BY <1>14, SessionAssumption DEF BeginCopy, setup, Accumulating, Sound, Covers,
  KeepsFirst, Oldest
<1>15. CASE EndCopy
  BY <1>15 DEF EndCopy, InPlace, setup, Accumulating, Sound
<1>16. CASE RemoveTemp
  BY <1>16, SessionAssumption DEF RemoveTemp, setup, Accumulating, Sound
<1>17. CASE UNCHANGED vars
  BY <1>17 DEF vars, Accumulating, Sound, Covers,
  KeepsFirst, Oldest
<1> QED
  BY <1>4, <1>5, <1>7, <1>8, <1>9, <1>10, <1>11, <1>12, <1>13, <1>14, <1>15,
     <1>16, <1>17
  DEF Next, Terminated

\* Only move_file puts an archive in place.
LEMMA ArchiveReplaced == Next /\ last' # last => Rename \/ EndCopy
BY DEF Next, Start, StartFails, Open, Download, Keep, Finish, RemoveTarget,
       RemoveFails, RenameFails, BeginCopy, CopyFails, RemoveTemp, Kill, Abandon,
       Terminated, vars, history

\* A session that puts its archive in place forgets no page of the archive it
\* started with and reverts none to an older version, for any history of
\* sessions, kills and failures before it.
THEOREM NothingForgotten == Spec => PagesAccumulate
<1>1. Init => Accumulating
  BY SessionAssumption DEF Init, Accumulating
<1>2. TypeOK /\ Accumulating /\ [Next]_vars =>
        [last' # last /\ reader # None /\ policy \notin {"requested", "first"} =>
           Covers(last', reader, blocked)]_vars
  <2> SUFFICES ASSUME TypeOK, Accumulating, Next,
                      last' # last, reader # None,
                      policy \notin {"requested", "first"}
               PROVE  Covers(last', reader, blocked)
    BY DEF vars
  <2>1. Rename \/ EndCopy
    BY ArchiveReplaced
  <2>2. last' = temp /\ phase \in {"renaming", "copied"}
    BY <2>1 DEF Rename, EndCopy, InPlace
  <2> QED BY <2>2 DEF Accumulating
<1> QED
  BY <1>1, <1>2, AccumulatingStep, TypeCorrect, PTL DEF Spec, PagesAccumulate

\* Under the policy latest-and-first the oldest version of a page stays the
\* oldest in the archive, whatever is downloaded in between.
THEOREM FirstVersionKept == Spec => FirstIsKept
<1>1. Init => Accumulating
  BY SessionAssumption DEF Init, Accumulating
<1>2. TypeOK /\ Accumulating /\ [Next]_vars =>
        [last' # last /\ reader # None /\ policy = "latest-and-first" =>
           \A u \in Url \ blocked :
             Oldest(reader, u) # 0 => Oldest(last', u) = Oldest(reader, u)]_vars
  <2> SUFFICES ASSUME TypeOK, Accumulating, Next,
                      last' # last, reader # None, policy = "latest-and-first",
                      NEW u \in Url \ blocked, Oldest(reader, u) # 0
               PROVE  Oldest(last', u) = Oldest(reader, u)
    BY DEF vars
  <2>1. Rename \/ EndCopy
    BY ArchiveReplaced
  <2>2. last' = temp /\ phase \in {"renaming", "copied"}
    BY <2>1 DEF Rename, EndCopy, InPlace
  <2> QED BY <2>2 DEF Accumulating, KeepsFirst
<1> QED
  BY <1>1, <1>2, AccumulatingStep, TypeCorrect, PTL DEF Spec, FirstIsKept
-----------------------------------------------------------------------------
(* Bodies and their headers.                                               *)

\* Every body is stored with the header it arrived with.
Paired(a) == \A u \in Url : a.body[u] # 0 => a.header[u] = a.body[u]

\* All the archives at hand are paired, also those that are not in place yet.
Pairing ==
  /\ target \in Archive => Paired(target)
  /\ reader \in Archive => Paired(reader)
  /\ temp \in Archive => Paired(temp)
  /\ last \in Archive => Paired(last)
  /\ Paired(writer)

\* append_unrequested_files takes body and header from the same archive,
\* unless it is to take the body under first/.
LEMMA AppendPairs ==
  ASSUME TypeOK, Pairing, policy # "first"
  PROVE  Paired(AppendUnrequestedFiles)
<1>1. CASE reader = None \/ policy = "requested"
  BY <1>1 DEF AppendUnrequestedFiles, Pairing
<1>2. CASE ~(reader = None \/ policy = "requested")
  <2>1. Paired(reader) /\ Paired(writer)
    BY <1>2 DEF TypeOK, Pairing
  <2>2. ASSUME NEW u \in Url
        PROVE  AppendedBody(u) # 0 => AppendedHeader(u) = AppendedBody(u)
    BY <2>1 DEF Paired, AppendedBody, AppendedHeader
  <2> QED BY <1>2, <2>2 DEF AppendUnrequestedFiles, Paired
<1> QED BY <1>1, <1>2

\* Every step keeps the archives paired.
LEMMA PairingStep ==
  ASSUME "first" \notin Policies, TypeOK, Pairing, [Next]_vars
  PROVE  Pairing'
<1>1. Paired(Empty)
  BY DEF Paired, Empty, NoPages
<1>2. CASE Start
  <2>1. /\ UNCHANGED <<target, temp, last>>
        /\ writer' = Empty
        /\ reader' = None \/ reader' = target
    BY <1>2 DEF Start, Open
  <2> QED BY <1>1, <2>1, SessionAssumption DEF Pairing, Paired
<1>3. CASE StartFails
  BY <1>1, <1>3, SessionAssumption DEF StartFails, Open, Pairing, Paired
\* What is recorded for a URL is recorded in a pair.
<1>4. ASSUME UNCHANGED <<target, temp, last, reader>>,
             NEW u \in Url, NEW h, NEW b, b # 0 => h = b,
             writer' = [writer EXCEPT !.header[u] = h, !.body[u] = b]
      PROVE  Pairing'
  <2>1. \A v \in Url : /\ writer'.header[v] = (IF v = u THEN h ELSE writer.header[v])
                       /\ writer'.body[v] = (IF v = u THEN b ELSE writer.body[v])
    BY <1>4 DEF TypeOK, Archive, Pages
  <2>2. Paired(writer)'
    BY <1>4, <2>1 DEF Pairing, Paired
  <2> QED BY <1>4, <2>2 DEF Pairing, Paired
<1>5. ASSUME NEW u \in Url, NEW empty \in BOOLEAN, Download(u, empty)
      PROVE  Pairing'
  <2> DEFINE b == IF empty THEN 0 ELSE session
  <2>1. b # 0 => session = b
    OBVIOUS
  <2>2. /\ UNCHANGED <<target, temp, last, reader>>
        /\ writer' = [writer EXCEPT !.header[u] = session, !.body[u] = b]
    BY <1>5 DEF Download, files, setup, history
  <2> HIDE DEF b
  <2> QED BY <1>4, <2>1, <2>2
<1>6. ASSUME NEW u \in Url, Keep(u) PROVE Pairing'
  <2>1. reader.body[u] # 0 => reader.header[u] = reader.body[u]
    BY <1>6 DEF Keep, TypeOK, Pairing, Paired
  <2>2. /\ UNCHANGED <<target, temp, last, reader>>
        /\ writer' = [writer EXCEPT !.header[u] = reader.header[u],
                                    !.body[u] = reader.body[u]]
    BY <1>6 DEF Keep, files, setup, history
  <2> QED BY <1>4, <2>1, <2>2
<1>7. CASE Finish
  <2>1. Paired(AppendUnrequestedFiles)
    BY AppendPairs DEF TypeOK
  <2> QED BY <1>7, <2>1 DEF Finish, setup, Pairing, Paired
<1>8. CASE RemoveTarget
  BY <1>8, SessionAssumption DEF RemoveTarget, setup, history, Pairing, Paired
<1>9. CASE RemoveFails \/ CopyFails \/ Kill
  BY <1>9, SessionAssumption
  DEF RemoveFails, CopyFails, Kill, Abandon, setup, Pairing, Paired
<1>10. CASE Rename
  BY <1>10, SessionAssumption DEF Rename, InPlace, setup, Pairing, Paired
<1>11. CASE RenameFails
  BY <1>11 DEF RenameFails, files, setup, history, Pairing, Paired
<1>12. CASE BeginCopy
  BY <1>12, SessionAssumption DEF BeginCopy, setup, history, Pairing, Paired
<1>13. CASE EndCopy
  BY <1>13 DEF EndCopy, InPlace, setup, Pairing, Paired
<1>14. CASE RemoveTemp
  BY <1>14, SessionAssumption DEF RemoveTemp, setup, history, Pairing, Paired
<1>15. CASE UNCHANGED vars
  BY <1>15 DEF vars, Pairing, Paired
<1> QED
  BY <1>2, <1>3, <1>5, <1>6, <1>7, <1>8, <1>9, <1>10, <1>11, <1>12, <1>13, <1>14,
     <1>15
  DEF Next, Terminated

\* The archive in place never combines the body of one session with the
\* header of another, however many sessions have kept, updated or appended
\* the page, and whichever were killed or failed.
THEOREM AlwaysPaired == Spec => []BodyHasItsHeader
<1>1. CASE "first" \in Policies
  <2>1. BodyHasItsHeader
    BY <1>1 DEF BodyHasItsHeader
  <2> QED BY <2>1, PTL
<1>2. CASE "first" \notin Policies
  <2>1. Init => Pairing
    BY SessionAssumption DEF Init, Pairing, Paired, Empty, NoPages
  <2>2. TypeOK /\ Pairing /\ [Next]_vars => Pairing'
    BY <1>2, PairingStep
  <2>3. TypeOK /\ Pairing => BodyHasItsHeader
    BY DEF TypeOK, Pairing, Paired, BodyHasItsHeader
  <2> QED BY <2>1, <2>2, <2>3, TypeCorrect, PTL DEF Spec
<1> QED BY <1>1, <1>2

-----------------------------------------------------------------------------
(* The archive between the sessions.                                       *)

\* As long as every session went through, nothing but its archive is left of
\* it, also while the next one records, and the copy is removed only after
\* the archive is in place.
Whole ==
  /\ phase \in {"idle", "recording"} => temp = None
  /\ phase = "unlinking" => target = last
  /\ ~interrupted => strays = {}
  /\ ~interrupted /\ phase \in {"idle", "recording"} => target = last

\* Sessions that are neither killed nor fail leave the archive in place and
\* no other file.
THEOREM AlwaysWhole == Spec => []IdleIsWhole
<1>1. Init => Whole
  BY DEF Init, Whole
<1>2. Whole /\ [Next]_vars => Whole'
  <2> SUFFICES ASSUME Whole, [Next]_vars PROVE Whole'
    OBVIOUS
  <2> USE DEF Whole
  <2>1. CASE Start
    BY <2>1 DEF Start, Open
  <2>2. CASE StartFails
    BY <2>2 DEF StartFails, Open
  <2>3. ASSUME NEW u \in Url, NEW empty \in BOOLEAN, Download(u, empty) PROVE Whole'
    BY <2>3 DEF Download, files, history
  <2>4. ASSUME NEW u \in Url, Keep(u) PROVE Whole'
    BY <2>4 DEF Keep, files, history
  <2>5. CASE Finish
    BY <2>5 DEF Finish
  <2>6. CASE RemoveTarget
    BY <2>6 DEF RemoveTarget, history
  <2>7. CASE RemoveFails \/ CopyFails \/ Kill
    BY <2>7 DEF RemoveFails, CopyFails, Kill, Abandon
  <2>8. CASE Rename
    BY <2>8 DEF Rename, InPlace
  <2>9. CASE RenameFails
    BY <2>9 DEF RenameFails, files, history
  <2>10. CASE BeginCopy
    BY <2>10 DEF BeginCopy, history
  <2>11. CASE EndCopy
    BY <2>11 DEF EndCopy, InPlace
  <2>12. CASE RemoveTemp
    BY <2>12 DEF RemoveTemp, history
  <2>13. CASE UNCHANGED vars
    BY <2>13 DEF vars
  <2> QED
    BY <2>1, <2>2, <2>3, <2>4, <2>5, <2>6, <2>7, <2>8, <2>9, <2>10, <2>11, <2>12,
       <2>13
    DEF Next, Terminated
<1>3. Whole => IdleIsWhole
  BY DEF Whole, IdleIsWhole
<1> QED BY <1>1, <1>2, <1>3, PTL DEF Spec
=============================================================================

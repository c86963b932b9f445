--------------------------- MODULE WriteOnceStore ---------------------------
(***************************************************************************)
(* What the rest of webrecorder relies on when it hands files to an        *)
(* ArchiveWriter (src/src/Archive.h): a file is accepted at most once and  *)
(* keeps the data it was accepted with, a read of an accepted file is      *)
(* answered with that data, and the archive that close() leaves behind     *)
(* holds exactly the accepted files.  Threads, queues and ZIP handles do   *)
(* not appear here; ArchiveWriter.tla is shown to implement this module.   *)
(***************************************************************************)
CONSTANTS File,     \* names of files in the archive
          Data,     \* contents a file can have
          Reader,   \* one element for each async_read that may be issued
          None      \* neither a file nor any contents

VARIABLES accepted, \* the data each file was accepted with, None before that
          asked,    \* the file each reader has asked for, None before that
          answer,   \* the data each reader was answered with, None before that
          archive   \* the files of the finished archive, None while open
vars == <<accepted, asked, answer, archive>>

Nothing == [f \in File |-> None]

Init == /\ accepted = Nothing
        /\ asked = [r \in Reader |-> None]
        /\ answer = [r \in Reader |-> None]
        /\ archive = None

\* The first write of a file decides its contents.
Accept(f, d) == /\ archive = None
                /\ accepted[f] = None
                /\ accepted' = [accepted EXCEPT ![f] = d]
                /\ UNCHANGED <<asked, answer, archive>>

\* A read is issued for a file that was accepted before.
Ask(r, f) == /\ archive = None
             /\ asked[r] = None
             /\ accepted[f] # None
             /\ asked' = [asked EXCEPT ![r] = f]
             /\ UNCHANGED <<accepted, answer, archive>>

Reply(r) == /\ archive = None
            /\ asked[r] # None
            /\ answer[r] = None
            /\ answer' = [answer EXCEPT ![r] = accepted[asked[r]]]
            /\ UNCHANGED <<accepted, asked, archive>>

\* Closing answers every read first and makes the archive of what was accepted.
Close == /\ archive = None
         /\ \A r \in Reader : asked[r] # None => answer[r] # None
         /\ archive' = accepted
         /\ UNCHANGED <<accepted, asked, answer>>

Next == \/ \E f \in File, d \in Data : Accept(f, d)
        \/ \E r \in Reader, f \in File : Ask(r, f)
        \/ \E r \in Reader : Reply(r)
        \/ Close

Spec == Init /\ [][Next]_vars
=============================================================================

----------------------------- MODULE ArchiveReader -----------------------------
(***************************************************************************)
(* ArchiveReader (src/src/Archive.cpp): the table of contents, the overlay *)
(* of first versions and the pool of unzip contexts.                       *)
(*                                                                         *)
(* Several threads serve pages from the archive at the same time.  An      *)
(* unzip context has one position and one current file, so every read      *)
(* takes a context for itself: from m_unzip_contexts, or a new one.        *)
(* m_contents is filled once and then only read.  Opening or reading the   *)
(* archive may fail at every step.                                         *)
(*                                                                         *)
(* A handler of Logic asks for the info of a file and then for its data;   *)
(* the overlay path is set before the threads start, or never, and again   *)
(* by finish, which closes the reader when they have ended.                *)
(***************************************************************************)
EXTENDS Naturals, Sequences, FiniteSets, SequencesExt

CONSTANTS
  Thread,     \* that serve pages from the archive
  File,       \* names in the archive
  Context,    \* unzip contexts that can be opened
  None

\* An entry of the ZIP file is a file of the overlay or one below it.
Entry == {"overlay", "base"} \X File
Nothing == <<>>            \* an empty ByteVector, or no FileInfo
Garbage == <<"garbage">>   \* a buffer that was not filled completely

Version == {"top", "overlay", "base"}
Question == File \X Version \X BOOLEAN

ASSUME ReaderAssumption ==
  /\ IsFiniteSet(Thread) /\ Thread # {}
  /\ None \notin Context \cup Entry \cup Question

VARIABLES
  entries,    \* the ZIP file's directory
  empty,      \* those entries that have no data
  overlaid,   \* m_overlay_path is set
  contents,   \* m_contents
  closed,     \* finish has reset the reader
  pool,       \* m_unzip_contexts
  live,       \* the contexts that are open
  position,   \* of each context: unzGoToFilePos64
  at,         \* what each thread is doing
  using,      \* its context
  todo,       \* the entries it still has to try
  info,       \* what get_file_info has returned to it
  answer,     \* what read has returned to it
  asked,      \* history: file and version it asked for, and m_overlay_path
  failed      \* history: entries it could not read

archive == <<entries, empty, overlaid, contents, closed>>
call == <<info, answer, asked>>
vars == <<archive, pool, live, position, at, using, todo, call, failed>>

TypeOK ==
  /\ entries \subseteq Entry /\ empty \subseteq entries
  /\ overlaid \in BOOLEAN /\ closed \in BOOLEAN
  /\ contents \in {{}, entries}
  /\ pool \in Seq(Context)
  /\ live \subseteq Context
  /\ position \in [Context -> Entry \cup {None}]
  /\ at \in [Thread -> {"idle", "searching", "opening", "reading", "returning"}]
  /\ using \in [Thread -> Context \cup {None}]
  /\ todo \in [Thread -> Seq(Entry)]
  /\ info \in [Thread -> Entry \cup {Nothing}]
  /\ answer \in [Thread -> Entry \cup {Nothing, Garbage}]
  /\ asked \in [Thread -> Question \cup {None}]
  /\ failed \in [Thread -> SUBSET Entry]

Init ==
  /\ entries \in SUBSET Entry
  /\ empty \in SUBSET entries
  /\ overlaid = FALSE
  /\ contents = {}
  /\ closed = FALSE
  /\ pool = <<>>
  /\ live = {}
  /\ position = [c \in Context |-> None]
  /\ at = [t \in Thread |-> "idle"]
  /\ using = [t \in Thread |-> None]
  /\ todo = [t \in Thread |-> <<>>]
  /\ info = [t \in Thread |-> Nothing]
  /\ answer = [t \in Thread |-> Nothing]
  /\ asked = [t \in Thread |-> None]
  /\ failed = [t \in Thread |-> {}]

-----------------------------------------------------------------------------
(* The pool of contexts, under m_mutex.                                    *)

\* Mutant of Acquire: the context remains in the pool.
Acquire_Shared(c) ==
  IF pool # <<>> THEN c = Last(pool) /\ UNCHANGED <<pool, live>>
                 ELSE c \notin live /\ live' = live \cup {c} /\ UNCHANGED pool

\* acquire_context: the context returned last, or a new one.
Acquire(c) ==
  IF pool # <<>> THEN c = Last(pool) /\ pool' = Front(pool) /\ UNCHANGED live
                 ELSE c \notin live /\ live' = live \cup {c} /\ UNCHANGED pool

ReturnContext(c) == pool' = Append(pool, c)

\* The shared_ptr guard of do_read returns the context on every way out.
\* Mutant: only after a file was read.
ReturnFailed_Leaking(c) == UNCHANGED pool
ReturnFailed(c) == ReturnContext(c)

-----------------------------------------------------------------------------
(* Opening and closing, on one thread.                                     *)

\* open and read_contents; the context goes to the pool.  A kind of archive
\* policy and serve policy sets the overlay path.
Open(c) ==
  /\ contents = {} /\ ~closed /\ live = {}
  /\ contents' = entries
  /\ live' = {c}
  /\ pool' = <<c>>
  /\ overlaid' \in BOOLEAN
  /\ UNCHANGED <<entries, empty, closed, position, at, using, todo, call, failed>>

\* append_unrequested_files sets the overlay path, with no other thread left.
SetOverlayPath ==
  /\ contents # {} /\ ~closed /\ ~overlaid
  /\ \A t \in Thread : at[t] = "idle"
  /\ overlaid' = TRUE
  /\ UNCHANGED <<entries, empty, contents, closed, pool, live, position, at, using,
                 todo, call, failed>>

\* ~ArchiveReader: the contexts in the pool are closed.
Close ==
  /\ contents # {} /\ ~closed
  /\ \A t \in Thread : at[t] = "idle"
  /\ closed' = TRUE
  /\ live' = live \ ToSet(pool)
  /\ pool' = <<>>
  /\ UNCHANGED <<entries, empty, overlaid, contents, position, at, using, todo, call, failed>>

-----------------------------------------------------------------------------
(* get_file_info and read.                                                 *)

\* The entry of a file in a layer, if the version includes the layer and
\* m_contents has the entry.
InOverlay(f, v) ==
  IF v # "base" /\ overlaid /\ <<"overlay", f>> \in contents THEN <<<<"overlay", f>>>> ELSE <<>>
InBase(f, v) ==
  IF v # "overlay" /\ <<"base", f>> \in contents THEN <<<<"base", f>>>> ELSE <<>>

\* Where a version of a file is searched.
\* Mutant: the overlay comes last.
Found_BaseFirst(f, v) == InBase(f, v) \o InOverlay(f, v)
Found(f, v) == InOverlay(f, v) \o InBase(f, v)

GetFileInfo(f, v) == IF Found(f, v) = <<>> THEN Nothing ELSE Head(Found(f, v))

Ask(t, f, v) ==
  /\ at[t] = "idle"
  /\ ~closed /\ contents # {}
  /\ asked' = [asked EXCEPT ![t] = <<f, v, overlaid>>]
  /\ info' = [info EXCEPT ![t] = GetFileInfo(f, v)]
  /\ answer' = [answer EXCEPT ![t] = Nothing]
  /\ failed' = [failed EXCEPT ![t] = {}]
  /\ todo' = [todo EXCEPT ![t] = Found(f, v)]
  /\ at' = [at EXCEPT ![t] = IF Found(f, v) = <<>> THEN "idle" ELSE "searching"]
  /\ UNCHANGED <<archive, pool, live, position, using>>

\* do_read of the next entry has come to an end without data: read goes on
\* with the layer below, if there is one.
NextEntry(t) ==
  /\ todo' = [todo EXCEPT ![t] = Tail(todo[t])]
  /\ at' = [at EXCEPT ![t] = IF Tail(todo[t]) = <<>> THEN "idle" ELSE "searching"]

\* do_read: acquire_context and unzGoToFilePos64, ...
GoTo(t) ==
  /\ at[t] = "searching"
  /\ \E c \in Context :
       /\ Acquire(c)
       /\ using' = [using EXCEPT ![t] = c]
       /\ position' = [position EXCEPT ![c] = Head(todo[t])]
  /\ at' = [at EXCEPT ![t] = "opening"]
  /\ UNCHANGED <<archive, todo, call, failed>>

\* ... or the archive cannot be opened again.
AcquireFails(t) ==
  /\ at[t] = "searching"
  /\ pool = <<>>
  /\ failed' = [failed EXCEPT ![t] = @ \cup {Head(todo[t])}]
  /\ NextEntry(t)
  /\ UNCHANGED <<archive, pool, live, position, using, call>>

\* ... unzOpenCurrentFile, ...
OpenCurrentFile(t) ==
  /\ at[t] = "opening"
  /\ at' = [at EXCEPT ![t] = "reading"]
  /\ UNCHANGED <<archive, pool, live, position, using, todo, call, failed>>

\* ... which or whose seeking fails, ...
OpenFails(t) ==
  /\ at[t] = "opening"
  /\ ReturnFailed(using[t])
  /\ using' = [using EXCEPT ![t] = None]
  /\ failed' = [failed EXCEPT ![t] = @ \cup {Head(todo[t])}]
  /\ NextEntry(t)
  /\ UNCHANGED <<archive, live, position, call>>

\* ... unzReadCurrentFile, whose result is not examined, and
\* unzCloseCurrentFile.
ReadCurrentFile(t) ==
  /\ at[t] = "reading"
  /\ LET e == position[using[t]]
     IN \E data \in {IF e \in empty THEN Nothing ELSE e} \cup
                    (IF e \in empty THEN {} ELSE {Garbage}) :
          /\ answer' = [answer EXCEPT ![t] = data]
          /\ failed' = [failed EXCEPT ![t] = IF data = Garbage THEN @ \cup {e} ELSE @]
  /\ at' = [at EXCEPT ![t] = "returning"]
  /\ UNCHANGED <<archive, pool, live, position, using, todo, info, asked>>

\* ... return_context.
Return(t) ==
  /\ at[t] = "returning"
  /\ ReturnContext(using[t])
  /\ using' = [using EXCEPT ![t] = None]
  /\ IF answer[t] = Nothing
     THEN NextEntry(t)
     ELSE todo' = [todo EXCEPT ![t] = <<>>] /\ at' = [at EXCEPT ![t] = "idle"]
  /\ UNCHANGED <<archive, live, position, call, failed>>

-----------------------------------------------------------------------------
Next ==
  \/ \E c \in Context : Open(c)
  \/ SetOverlayPath
  \/ Close
  \/ \E t \in Thread, f \in File, v \in Version : Ask(t, f, v)
  \/ \E t \in Thread : GoTo(t)
  \/ \E t \in Thread : AcquireFails(t)
  \/ \E t \in Thread : OpenCurrentFile(t)
  \/ \E t \in Thread : OpenFails(t)
  \/ \E t \in Thread : ReadCurrentFile(t)
  \/ \E t \in Thread : Return(t)

Spec == Init /\ [][Next]_vars

-----------------------------------------------------------------------------
(* What a caller may rely on (serve_from_archive, append_unrequested_files *)
(* in src/src/Logic.cpp).                                                  *)

Done(t) == at[t] = "idle" /\ asked[t] # None

\* A read returns the data of the file and of the version that were asked
\* for, whatever other threads read at the same time: the first that has
\* data of the layers of the version, unless that one could not be read.
ReadsAreFaithful ==
  \A t \in Thread : Done(t) =>
    LET f == asked[t][1]
        mine == {e \in contents : e[2] = f /\ e[1] \in {"overlay", "base"}}
        top == <<"overlay", f>>
    IN /\ answer[t] \in mine \cup {Nothing, Garbage}
       /\ answer[t] = Garbage => failed[t] \cap mine # {}
       /\ failed[t] = {} /\ answer[t] = Nothing /\ asked[t][2] \in {"top", "base"} =>
            <<"base", f>> \notin contents \ empty
       /\ answer[t] = top => asked[t][2] # "base"
       /\ answer[t] = <<"base", f>> =>
            /\ asked[t][2] # "overlay"
            /\ asked[t][2] = "top" /\ asked[t][3] /\ top \in contents =>
                 top \in empty \cup failed[t]

\* Every open context is either in the pool or used by exactly one thread,
\* on every way out of do_read: there are never more of them than threads
\* that read at once, and closing the reader leaves none open.
ContextsAccounted ==
  /\ ToSet(pool) \subseteq live
  /\ IsInjective(pool)
  /\ \A t, u \in Thread : using[t] # None =>
       /\ using[t] \in live \ ToSet(pool)
       /\ t # u => using[t] # using[u]
  /\ live = ToSet(pool) \cup {using[t] : t \in {u \in Thread : using[u] # None}}
  /\ Cardinality(live) <= Cardinality(Thread)
  /\ closed => live = {}
=============================================================================

-------------------------- MODULE ArchiveReaderProofs --------------------------
(***************************************************************************)
(* Theorems about ArchiveReader for any number of threads, files and       *)
(* contexts, and any archive.                                              *)
(***************************************************************************)
EXTENDS ArchiveReader, SequenceTheorems, FiniteSetTheorems, TLAPS

-----------------------------------------------------------------------------
(* Helper facts.                                                           *)

\* What the pool becomes when a context is taken from it or returned.
LEMMA PoolTaken ==
  ASSUME NEW S, NEW s \in Seq(S), s # <<>>, IsInjective(s)
  PROVE  /\ Last(s) \in ToSet(s)
         /\ Front(s) \in Seq(S)
         /\ IsInjective(Front(s))
         /\ ToSet(Front(s)) = ToSet(s) \ {Last(s)}
<1>1. Len(s) \in Nat \ {0} /\ DOMAIN s = 1..Len(s)
  BY EmptySeq, LenProperties
<1>2. \A i \in 1..Len(s) - 1 : s[i] \in S
  BY <1>1, ElementOfSeq
<1>3. /\ Front(s) \in Seq(S)
      /\ Len(Front(s)) = Len(s) - 1
      /\ \A i \in 1..Len(s) - 1 : Front(s)[i] = s[i]
  BY <1>1, <1>2, SubSeqProperties DEF Front
<1>4. DOMAIN Front(s) = 1..Len(s) - 1
  BY <1>3, LenProperties
<1>5. IsInjective(Front(s))
  BY <1>1, <1>3, <1>4 DEF IsInjective
<1>6. \A i \in 1..Len(s) - 1 : s[i] # s[Len(s)]
  BY <1>1 DEF IsInjective
<1>7. ToSet(Front(s)) = ToSet(s) \ {Last(s)}
  <2>1. ToSet(Front(s)) = {s[i] : i \in 1..Len(s) - 1}
    BY <1>3, <1>4 DEF ToSet
  <2>2. ToSet(s) = {s[i] : i \in 1..Len(s)}
    BY <1>1 DEF ToSet
  <2> QED BY <1>1, <1>6, <2>1, <2>2 DEF Last
<1>8. Last(s) \in ToSet(s)
  BY <1>1 DEF Last, ToSet
<1> QED BY <1>3, <1>5, <1>7, <1>8

LEMMA PoolReturned ==
  ASSUME NEW S, NEW s \in Seq(S), IsInjective(s), NEW c \in S, c \notin ToSet(s)
  PROVE  /\ Append(s, c) \in Seq(S)
         /\ IsInjective(Append(s, c))
         /\ ToSet(Append(s, c)) = ToSet(s) \cup {c}
<1>1. Len(s) \in Nat /\ DOMAIN s = 1..Len(s)
  BY LenProperties
<1>2. /\ Append(s, c) \in Seq(S)
      /\ DOMAIN Append(s, c) = 1..Len(s) + 1
      /\ \A i \in 1..Len(s) : Append(s, c)[i] = s[i]
      /\ Append(s, c)[Len(s) + 1] = c
  BY <1>1, AppendProperties, LenProperties
<1>3. \A i \in 1..Len(s) : s[i] # c
  BY <1>1 DEF ToSet
<1>4. IsInjective(Append(s, c))
  BY <1>1, <1>2, <1>3 DEF IsInjective
<1>5. ToSet(Append(s, c)) = ToSet(s) \cup {c}
  BY <1>1, <1>2 DEF ToSet
<1> QED BY <1>2, <1>4, <1>5

\* Threads each with a context of its own are at least as many as those.
LEMMA UsersAreEnough ==
  ASSUME NEW f \in [Thread -> Context \cup {None}],
         NEW U \in SUBSET Thread
  PROVE  /\ IsFiniteSet({f[u] : u \in U})
         /\ Cardinality({f[u] : u \in U}) <= Cardinality(U)
         /\ Cardinality(U) \in Nat
<1> DEFINE T == {f[u] : u \in U}
           g == [u \in U |-> f[u]]
<1>1. IsFiniteSet(U) /\ Cardinality(U) \in Nat
  BY ReaderAssumption, FS_Subset, FS_CardinalityType
<1>2. g \in Surjection(U, T)
  BY DEF Surjection
<1> HIDE DEF T, g
<1>3. IsFiniteSet(T) /\ Cardinality(T) <= Cardinality(U)
  BY <1>1, <1>2, FS_Surjection
<1> QED BY <1>1, <1>3 DEF T

-----------------------------------------------------------------------------
(* Type correctness.                                                       *)

LEMMA FoundType ==
  ASSUME TypeOK, NEW f \in File, NEW v \in Version
  PROVE  /\ Found(f, v) \in Seq(Entry)
         /\ GetFileInfo(f, v) \in Entry \cup {Nothing}
<1>1. InOverlay(f, v) \in Seq(Entry) /\ InBase(f, v) \in Seq(Entry)
  BY DEF InOverlay, InBase, Entry
<1>2. Found(f, v) \in Seq(Entry)
  BY <1>1, ConcatProperties DEF Found
<1> QED BY <1>2, HeadTailProperties DEF GetFileInfo

\* A thread that is busy has an entry to try, and a context while it reads.
Busy ==
  \A t \in Thread :
    /\ at[t] # "idle" => todo[t] # <<>> /\ ~closed
    /\ using[t] # None <=> at[t] \in {"opening", "reading", "returning"}
    /\ using[t] # None => position[using[t]] # None

\* Going on with the next entry keeps the types.
LEMMA NextEntryType ==
  ASSUME TypeOK, NEW t \in Thread, todo[t] # <<>>, NextEntry(t)
  PROVE  /\ todo' \in [Thread -> Seq(Entry)]
         /\ at' \in [Thread -> {"idle", "searching", "opening", "reading", "returning"}]
         /\ \A u \in Thread : u # t => at'[u] = at[u] /\ todo'[u] = todo[u]
         /\ at'[t] \in {"idle", "searching"}
         /\ at'[t] # "idle" => todo'[t] # <<>>
<1>1. Tail(todo[t]) \in Seq(Entry)
  BY HeadTailProperties DEF TypeOK
<1> QED BY <1>1 DEF NextEntry, TypeOK

\* The types hold initially and every step keeps them, with Busy.
LEMMA TypeStep == TypeOK /\ Busy /\ [Next]_vars => TypeOK' /\ Busy'
<1> SUFFICES ASSUME TypeOK, Busy, [Next]_vars PROVE TypeOK' /\ Busy'
  OBVIOUS
<1> USE ReaderAssumption DEF TypeOK, Busy
<1>1. ASSUME NEW c \in Context, Open(c) PROVE TypeOK' /\ Busy'
  BY <1>1 DEF Open, call
<1>2. CASE SetOverlayPath
  BY <1>2 DEF SetOverlayPath, call
<1>3. CASE Close
  BY <1>3, EmptySeq DEF Close, call
<1>4. ASSUME NEW t \in Thread, NEW f \in File, NEW v \in Version, Ask(t, f, v)
      PROVE  TypeOK' /\ Busy'
  <2>1. Found(f, v) \in Seq(Entry) /\ GetFileInfo(f, v) \in Entry \cup {Nothing}
    BY FoundType
  <2> QED BY <1>4, <2>1 DEF Ask, archive, Question
<1>5. ASSUME NEW t \in Thread, GoTo(t) PROVE TypeOK' /\ Busy'
  <2>1. PICK c \in Context : /\ Acquire(c)
                             /\ using' = [using EXCEPT ![t] = c]
                             /\ position' = [position EXCEPT ![c] = Head(todo[t])]
    BY <1>5 DEF GoTo
  <2>2. todo[t] # <<>> /\ Head(todo[t]) \in Entry
    BY <1>5, HeadTailProperties DEF GoTo
  <2>3. pool' \in Seq(Context) /\ live' \subseteq Context
    <3>1. CASE pool # <<>>
      <4>1. \A i \in 1..Len(pool) - 1 : pool[i] \in Context
        BY ElementOfSeq, LenProperties
      <4>2. Front(pool) \in Seq(Context)
        BY <4>1, SubSeqProperties, LenProperties DEF Front
      <4> QED BY <2>1, <3>1, <4>2 DEF Acquire
    <3>2. CASE pool = <<>>
      BY <2>1, <3>2 DEF Acquire
    <3> QED BY <3>1, <3>2
  <2>4. None \notin Entry \cup Context
    OBVIOUS
  <2> QED BY <1>5, <2>1, <2>2, <2>3, <2>4 DEF GoTo, archive, call
<1>6. ASSUME NEW t \in Thread, AcquireFails(t) PROVE TypeOK' /\ Busy'
  BY <1>6, NextEntryType, HeadTailProperties DEF AcquireFails, archive, call
<1>7. ASSUME NEW t \in Thread, OpenCurrentFile(t) PROVE TypeOK' /\ Busy'
  BY <1>7 DEF OpenCurrentFile, archive, call
<1>8. ASSUME NEW t \in Thread, OpenFails(t) PROVE TypeOK' /\ Busy'
  <2>1. pool' \in Seq(Context)
    BY <1>8, AppendProperties DEF OpenFails, ReturnFailed, ReturnContext
  <2> QED BY <1>8, <2>1, NextEntryType, HeadTailProperties DEF OpenFails, archive, call
<1>9. ASSUME NEW t \in Thread, ReadCurrentFile(t) PROVE TypeOK' /\ Busy'
  BY <1>9 DEF ReadCurrentFile, archive
<1>10. ASSUME NEW t \in Thread, Return(t) PROVE TypeOK' /\ Busy'
  <2>1. pool' \in Seq(Context)
    BY <1>10, AppendProperties DEF Return, ReturnContext
  <2>2. CASE answer[t] = Nothing
    <3>1. todo[t] # <<>> /\ NextEntry(t)
      BY <1>10, <2>2 DEF Return
    <3> QED BY <1>10, <2>1, <3>1, NextEntryType DEF Return, archive, call
  <2>3. CASE answer[t] # Nothing
    <3>1. /\ todo' = [todo EXCEPT ![t] = <<>>]
          /\ at' = [at EXCEPT ![t] = "idle"]
          /\ using' = [using EXCEPT ![t] = None]
          /\ UNCHANGED <<archive, live, position, call, failed>>
      BY <1>10, <2>3 DEF Return
    <3>2. todo' \in [Thread -> Seq(Entry)]
      BY <3>1, EmptySeq
    <3> QED BY <2>1, <3>1, <3>2 DEF archive, call
  <2> QED BY <2>2, <2>3
<1>11. CASE UNCHANGED vars
  BY <1>11 DEF vars, archive, call
<1> QED
  BY <1>1, <1>2, <1>3, <1>4, <1>5, <1>6, <1>7, <1>8, <1>9, <1>10, <1>11 DEF Next

LEMMA TypeInit == Init => TypeOK /\ Busy
<1> SUFFICES ASSUME Init PROVE TypeOK /\ Busy
  OBVIOUS
<1>1. <<>> \in Seq(Context) /\ <<>> \in Seq(Entry)
  BY EmptySeq
<1>2. TypeOK
  BY <1>1 DEF Init, TypeOK
<1>3. Busy
  BY DEF Init, Busy
<1> QED BY <1>2, <1>3

\* The state of the reader and its threads is well-formed, whatever fails.
THEOREM TypeCorrect == Spec => []TypeOK
<1>1. Spec => [](TypeOK /\ Busy)
  BY TypeInit, TypeStep, PTL DEF Spec
<1> QED BY <1>1, PTL

-----------------------------------------------------------------------------
(* The pool.                                                               *)

Users == {t \in Thread : using[t] # None}
InUse == {using[t] : t \in Users}

\* ContextsAccounted without the number of contexts.
Separate ==
  /\ IsInjective(pool)
  /\ ToSet(pool) \cap InUse = {}
  /\ \A t, u \in Users : t # u => using[t] # using[u]
  /\ live = ToSet(pool) \cup InUse
  /\ closed => live = {}

\* A context that is taken is in nobody else's hands.
LEMMA GoToSeparate ==
  ASSUME TypeOK, Busy, Separate, Cardinality(live) <= Cardinality(Thread),
         NEW t \in Thread, NEW c \in Context, at[t] = "searching",
         Acquire(c), using' = [using EXCEPT ![t] = c], closed' = closed
  PROVE  /\ Separate'
         /\ \A u \in Users : using[u] # c
         /\ IsFiniteSet(live) => IsFiniteSet(live')
         /\ Cardinality(live') <= Cardinality(Thread)
<1> USE ReaderAssumption
<1>1. t \notin Users /\ ~closed /\ c # None
  BY DEF Busy, Users, TypeOK
<1>2. Users' = Users \cup {t} /\ InUse' = InUse \cup {c} /\ using'[t] = c
      /\ \A u \in Users : using'[u] = using[u]
  BY <1>1 DEF Users, InUse, TypeOK
<1>3. CASE pool # <<>>
  <2>1. c = Last(pool) /\ pool' = Front(pool) /\ live' = live
    BY <1>3 DEF Acquire
  <2>2. /\ c \in ToSet(pool)
        /\ IsInjective(pool')
        /\ ToSet(pool') = ToSet(pool) \ {c}
    BY <1>3, <2>1, PoolTaken DEF TypeOK, Separate
  <2>3. \A u \in Users : using[u] # c
    BY <2>2 DEF Separate, InUse
  <2> QED BY <1>1, <1>2, <2>1, <2>2, <2>3 DEF Separate
<1>4. CASE pool = <<>>
  <2>1. c \notin live /\ live' = live \cup {c} /\ pool' = pool
    BY <1>4 DEF Acquire
  <2>2. ToSet(pool) = {}
    BY <1>4 DEF ToSet
  <2>3. \A u \in Users : using[u] # c
    BY <2>1 DEF Separate, InUse
  <2>4. Separate'
    BY <1>1, <1>2, <2>1, <2>2, <2>3 DEF Separate
  <2>5. IsFiniteSet(Thread \ {t}) /\ Cardinality(Thread \ {t}) = Cardinality(Thread) - 1
        /\ Cardinality(Thread) \in Nat
    BY FS_RemoveElement, FS_CardinalityType
  <2>6. Users \subseteq Thread \ {t}
    BY <1>1 DEF Users
  <2>7. Cardinality(Users) <= Cardinality(Thread) - 1
    BY <2>5, <2>6, FS_Subset
  <2>8. live = InUse
    BY <2>2 DEF Separate
  <2>9. IsFiniteSet(live) /\ Cardinality(live) <= Cardinality(Users)
        /\ Cardinality(Users) \in Nat
    BY <2>8, UsersAreEnough DEF InUse, Users, TypeOK
  <2>10. /\ IsFiniteSet(live') /\ Cardinality(live') = Cardinality(live) + 1
         /\ Cardinality(live) \in Nat
    BY <2>1, <2>9, FS_AddElement, FS_CardinalityType
  <2> QED BY <2>3, <2>4, <2>5, <2>7, <2>9, <2>10
<1> QED BY <1>3, <1>4

\* A context that is returned is in the pool and in nobody's hands.
LEMMA ReturnSeparate ==
  ASSUME TypeOK, Separate, NEW t \in Users, ReturnContext(using[t]),
         using' = [using EXCEPT ![t] = None], UNCHANGED <<live, closed>>
  PROVE  Separate'
<1>1. t \in Thread /\ using[t] \in Context
  BY DEF Users, TypeOK
<1>2. using[t] \notin ToSet(pool)
  BY DEF Separate, InUse
<1>3. IsInjective(pool') /\ ToSet(pool') = ToSet(pool) \cup {using[t]}
  BY <1>1, <1>2, PoolReturned DEF ReturnContext, Separate, TypeOK
<1>4. Users' = Users \ {t} /\ \A u \in Users' : using'[u] = using[u]
  BY <1>1 DEF Users, TypeOK
<1>5. InUse' = InUse \ {using[t]}
  BY <1>4 DEF InUse, Separate
<1> QED BY <1>3, <1>4, <1>5 DEF Separate, InUse

\* Steps that touch no context.
LEMMA ContextsUntouched ==
  ASSUME Separate, UNCHANGED <<pool, live, using, closed>>
  PROVE  Separate'
BY DEF Separate, Users, InUse

LEMMA ContextsStep ==
  ASSUME TypeOK, Busy, Separate, Cardinality(live) <= Cardinality(Thread), [Next]_vars
  PROVE  Separate' /\ Cardinality(live') <= Cardinality(Thread)
<1> USE ReaderAssumption
<1>1. ASSUME NEW c \in Context, Open(c)
      PROVE  Separate' /\ Cardinality(live') <= Cardinality(Thread)
  <2>1. Users = {}
    BY <1>1 DEF Open, Separate, InUse
  <2>2. Users' = {} /\ InUse' = {}
    BY <1>1, <2>1 DEF Open, Users, InUse
  <2>3. IsInjective(pool') /\ ToSet(pool') = {c} /\ live' = {c}
    BY <1>1 DEF Open, IsInjective, ToSet
  <2>4. PICK t \in Thread : TRUE
    OBVIOUS
  <2>5. Cardinality({t}) = 1 /\ Cardinality({c}) = 1
    BY FS_Singleton, Zenon
  <2>6. Cardinality({t}) <= Cardinality(Thread)
    BY FS_Subset
  <2> QED BY <1>1, <2>2, <2>3, <2>5, <2>6 DEF Open, Separate
<1>2. CASE SetOverlayPath
  BY <1>2, ContextsUntouched DEF SetOverlayPath
<1>3. CASE Close
  <2>1. Users = {} /\ using' = using
    BY <1>3 DEF Close, Busy, Users
  <2>2. Users' = {} /\ InUse = {} /\ InUse' = {}
    BY <2>1 DEF Users, InUse
  <2>3. live' = {} /\ ToSet(pool') = {} /\ IsInjective(pool')
    BY <1>3, <2>2 DEF Close, Separate, ToSet, IsInjective
  <2>4. Cardinality(Thread) \in Nat /\ Cardinality({}) = 0
    BY FS_CardinalityType, FS_EmptySet
  <2> QED BY <2>2, <2>3, <2>4 DEF Separate
<1>4. ASSUME NEW t \in Thread, NEW f \in File, NEW v \in Version, Ask(t, f, v)
      PROVE  Separate' /\ live' = live
  BY <1>4, ContextsUntouched DEF Ask, archive
<1>5. ASSUME NEW t \in Thread, GoTo(t)
      PROVE  Separate' /\ Cardinality(live') <= Cardinality(Thread)
  BY <1>5, GoToSeparate DEF GoTo, archive
<1>6. ASSUME NEW t \in Thread, AcquireFails(t) \/ OpenCurrentFile(t) \/ ReadCurrentFile(t)
      PROVE  Separate' /\ live' = live
  BY <1>6, ContextsUntouched DEF AcquireFails, OpenCurrentFile, ReadCurrentFile, archive
<1>7. ASSUME NEW t \in Thread, OpenFails(t) \/ Return(t)
      PROVE  Separate' /\ live' = live
  <2>1. t \in Users
    BY <1>7 DEF OpenFails, Return, Busy, Users
  <2>2. /\ ReturnContext(using[t]) /\ using' = [using EXCEPT ![t] = None]
        /\ UNCHANGED <<live, closed>>
    BY <1>7 DEF OpenFails, Return, ReturnFailed, archive
  <2> QED BY <2>1, <2>2, ReturnSeparate
<1>8. CASE UNCHANGED vars
  BY <1>8, ContextsUntouched DEF vars, archive
<1> QED BY <1>1, <1>2, <1>3, <1>4, <1>5, <1>6, <1>7, <1>8 DEF Next

LEMMA ContextsInit == Init => Separate /\ Cardinality(live) <= Cardinality(Thread)
<1> SUFFICES ASSUME Init PROVE Separate /\ Cardinality(live) <= Cardinality(Thread)
  OBVIOUS
<1>1. Users = {} /\ InUse = {}
  BY DEF Init, Users, InUse
<1>2. Cardinality({}) = 0 /\ Cardinality(Thread) \in Nat
  BY ReaderAssumption, FS_EmptySet, FS_CardinalityType
<1> QED BY <1>1, <1>2 DEF Init, Separate, ToSet, IsInjective

\* What is inductive of it.
Accounted ==
  /\ TypeOK
  /\ Busy
  /\ Separate
  /\ Cardinality(live) <= Cardinality(Thread)

LEMMA AccountedStep == Accounted /\ [Next]_vars => Accounted'
BY TypeStep, ContextsStep DEF Accounted

LEMMA AccountedSuffices == Accounted => ContextsAccounted
<1> SUFFICES ASSUME Accounted PROVE ContextsAccounted
  OBVIOUS
<1>1. \A t \in Thread : using[t] # None => t \in Users /\ using[t] \in InUse
  BY DEF Users, InUse
<1>2. \A t, u \in Thread : using[t] # None =>
        /\ using[t] \in live \ ToSet(pool)
        /\ t # u => using[t] # using[u]
  BY <1>1 DEF Accounted, Separate, Users
<1>3. live = ToSet(pool) \cup {using[t] : t \in {u \in Thread : using[u] # None}}
  BY DEF Accounted, Separate, Users, InUse
<1>4. ToSet(pool) \subseteq live
  BY <1>3
<1> QED BY <1>2, <1>3, <1>4 DEF Accounted, Separate, ContextsAccounted

\* Every open context is in the pool or used by one thread (ContextsAccounted).
THEOREM AlwaysAccounted == Spec => []ContextsAccounted
<1>1. Init => Accounted
  BY TypeInit, ContextsInit DEF Accounted
<1>2. Spec => []Accounted
  BY <1>1, AccountedStep, PTL DEF Spec
<1> QED BY <1>2, AccountedSuffices, PTL

-----------------------------------------------------------------------------
(* What a read returns.                                                    *)

Top(t) == <<"overlay", asked[t][1]>>
Base(t) == <<"base", asked[t][1]>>

\* The entries a thread has asked for, and those that were of no use.
Wanted(t) == {e \in contents : \/ e = Top(t) /\ asked[t][2] # "base" /\ asked[t][3]
                               \/ e = Base(t) /\ asked[t][2] # "overlay"}
Passed(t) == empty \cup failed[t]

\* A thread that reads an entry has a context that stands there.
Search(t) ==
  /\ contents # {}
  /\ todo[t] \in {<<>>, <<Top(t)>>, <<Base(t)>>, <<Top(t), Base(t)>>}
  /\ ToSet(todo[t]) \subseteq Wanted(t)
  /\ at[t] = "idle" => todo[t] = <<>>
  /\ at[t] \in {"opening", "reading", "returning"} => position[using[t]] = Head(todo[t])

\* As long as nothing was read, what is wanted was passed or is still to be tried.
Result(t) ==
  /\ at[t] \in {"searching", "opening", "reading"} => answer[t] = Nothing
  /\ at[t] = "returning" /\ answer[t] = Nothing => Head(todo[t]) \in empty
  /\ answer[t] \in Wanted(t) \cup {Nothing, Garbage}
  /\ answer[t] = Garbage => failed[t] \cap Wanted(t) # {}
  /\ answer[t] = Base(t) => Top(t) \notin Wanted(t) \ Passed(t)
  /\ answer[t] = Nothing => Wanted(t) \subseteq Passed(t) \cup ToSet(todo[t])

Faithful(t) == asked[t] # None => Search(t) /\ Result(t)

LEMMA Distinct ==
  /\ \A e \in Entry : e # Nothing /\ e # Garbage
  /\ Nothing # Garbage
  /\ \A x, y : <<"overlay", x>> # <<"base", y>>
BY DEF Entry, Nothing, Garbage

\* Lists of one or two.
LEMMA NoneListed == ToSet(<<>>) = {}
BY DEF ToSet
LEMMA OneListed == \A a : ToSet(<<a>>) = {a}
BY DEF ToSet
LEMMA TwoListed == \A a, b : ToSet(<<a, b>>) = {a, b}
BY DEF ToSet
LEMMA Joined ==
  ASSUME NEW a, NEW b
  PROVE  <<a>> \o <<b>> = <<a, b>>
<1> DEFINE S == {a, b}
<1>1. <<a>> \in Seq(S) /\ <<b>> \in Seq(S) /\ <<a, b>> \in Seq(S)
  OBVIOUS
<1>2. /\ <<a>> \o <<b>> \in Seq(S)
      /\ Len(<<a>> \o <<b>>) = 2
      /\ (<<a>> \o <<b>>)[1] = a /\ (<<a>> \o <<b>>)[2] = b
  BY <1>1, ConcatProperties
<1>3. Len(<<a, b>>) = 2 /\ \A i \in 1..2 : (<<a>> \o <<b>>)[i] = <<a, b>>[i]
  BY <1>2
<1> QED BY <1>1, <1>2, <1>3, SeqEqual

\* The head and the tail of a list of layers.
LEMMA ListSplit ==
  ASSUME NEW a, NEW b, NEW s, s = <<a>> \/ s = <<b>> \/ s = <<a, b>>
  PROVE  ToSet(s) = {Head(s)} \cup ToSet(Tail(s)) /\ Tail(s) \in {<<>>, <<b>>}
<1>1. CASE s = <<a>>
  <2>1. Head(s) = a /\ Tail(s) = <<>> /\ ToSet(s) = {a}
    BY <1>1, OneListed
  <2> QED BY <2>1, NoneListed
<1>2. CASE s = <<b>>
  <2>1. Head(s) = b /\ Tail(s) = <<>> /\ ToSet(s) = {b}
    BY <1>2, OneListed
  <2> QED BY <2>1, NoneListed
<1>3. CASE s = <<a, b>>
  <2>1. Head(s) = a /\ Tail(s) = <<b>>
    BY <1>3
  <2>2. ToSet(s) = {a, b}
    BY <1>3, TwoListed
  <2>3. ToSet(Tail(s)) = {b}
    BY <2>1, OneListed, Zenon
  <2> QED BY <2>1, <2>2, <2>3
<1> QED BY <1>1, <1>2, <1>3

LEMMA ListHead ==
  ASSUME NEW a, NEW b, NEW s, s = <<a>> \/ s = <<b>> \/ s = <<a, b>>
  PROVE  Head(s) = a \/ ToSet(s) = {b}
<1>1. CASE s = <<a>> \/ s = <<a, b>>
  BY <1>1
<1>2. CASE s = <<b>>
  BY <1>2, OneListed
<1> QED BY <1>1, <1>2

\* Steps of other threads.
LEMMA OthersUntouched ==
  ASSUME NEW t \in Thread, Faithful(t), UNCHANGED <<contents, empty>>,
         at'[t] = at[t], todo'[t] = todo[t], answer'[t] = answer[t], asked'[t] = asked[t],
         failed'[t] = failed[t], using'[t] = using[t],
         at[t] \in {"opening", "reading", "returning"} => position'[using[t]] = position[using[t]]
  PROVE  Faithful(t)'
BY DEF Faithful, Search, Result, Top, Base, Wanted, Passed

\* A question is answered with all the entries its version has.
LEMMA AskFaithful ==
  ASSUME TypeOK, NEW t \in Thread, NEW f \in File, NEW v \in Version, Ask(t, f, v)
  PROVE  Faithful(t)'
<1>1. /\ asked'[t] = <<f, v, overlaid>> /\ answer'[t] = Nothing
      /\ todo'[t] = Found(f, v) /\ contents # {}
      /\ at'[t] = IF Found(f, v) = <<>> THEN "idle" ELSE "searching"
      /\ UNCHANGED <<contents, empty>>
  BY DEF Ask, TypeOK, archive
<1>2. Top(t)' = <<"overlay", f>> /\ Base(t)' = <<"base", f>>
  BY <1>1 DEF Top, Base
<1>3. Wanted(t)' = {e \in contents : \/ e = <<"overlay", f>> /\ v # "base" /\ overlaid
                                     \/ e = <<"base", f>> /\ v # "overlay"}
  BY <1>1, <1>2 DEF Wanted
<1>4. /\ Found(f, v) \in {<<>>, <<<<"overlay", f>>>>, <<<<"base", f>>>>,
                          <<<<"overlay", f>>, <<"base", f>>>>}
      /\ ToSet(Found(f, v)) = Wanted(t)'
  <2>1. ToSet(<<>>) = {}
    BY NoneListed
  <2> DEFINE o == <<"overlay", f>>
             b == <<"base", f>>
  <2>2. InOverlay(f, v) = (IF o \in Wanted(t)' THEN <<o>> ELSE <<>>)
    BY <1>3, Distinct DEF InOverlay
  <2>3. InBase(f, v) = (IF b \in Wanted(t)' THEN <<b>> ELSE <<>>)
    BY <1>3, Distinct DEF InBase
  <2>4. Wanted(t)' \subseteq {o, b}
    BY <1>3
  <2> HIDE DEF o, b
  <2> SUFFICES /\ Found(f, v) \in {<<>>, <<o>>, <<b>>, <<o, b>>}
               /\ ToSet(Found(f, v)) = Wanted(t)'
    BY DEF o, b
  <2>6. CASE o \in Wanted(t)' /\ b \in Wanted(t)'
    <3>1. Found(f, v) = <<o, b>>
      BY <2>2, <2>3, <2>6, Joined DEF Found
    <3>2. ToSet(Found(f, v)) = Wanted(t)'
      BY <2>4, <2>6, <3>1, TwoListed
    <3> QED BY <3>1, <3>2
  <2>7. CASE o \in Wanted(t)' /\ b \notin Wanted(t)'
    <3>1. Found(f, v) = <<o>>
      BY <2>2, <2>3, <2>7 DEF Found
    <3>2. ToSet(Found(f, v)) = Wanted(t)'
      BY <2>4, <2>7, <3>1, OneListed
    <3> QED BY <3>1, <3>2
  <2>8. CASE o \notin Wanted(t)' /\ b \in Wanted(t)'
    <3>1. Found(f, v) = <<b>>
      BY <2>2, <2>3, <2>8 DEF Found
    <3>2. ToSet(Found(f, v)) = Wanted(t)'
      BY <2>4, <2>8, <3>1, OneListed
    <3> QED BY <3>1, <3>2
  <2>9. CASE o \notin Wanted(t)' /\ b \notin Wanted(t)'
    <3>1. Found(f, v) = <<>>
      BY <2>2, <2>3, <2>9 DEF Found
    <3>2. ToSet(Found(f, v)) = Wanted(t)'
      BY <2>4, <2>9, <3>1, NoneListed
    <3> QED BY <3>1, <3>2
  <2> QED BY <2>6, <2>7, <2>8, <2>9
<1>5. Search(t)'
  BY <1>1, <1>2, <1>4 DEF Search
<1>6. <<"base", f>> # Nothing /\ Nothing # Garbage
  BY Distinct DEF Entry
<1>7. Result(t)'
  BY <1>1, <1>2, <1>4, <1>6 DEF Result
<1> QED BY <1>5, <1>7 DEF Faithful

\* What is known of a thread that has an entry to read.
LEMMA Reading ==
  ASSUME TypeOK, Busy, NEW t \in Thread, Faithful(t), asked[t] # None, at[t] # "idle"
  PROVE  /\ Head(todo[t]) \in Wanted(t)
         /\ ToSet(todo[t]) = {Head(todo[t])} \cup ToSet(Tail(todo[t]))
         /\ Tail(todo[t]) \in {<<>>, <<Base(t)>>}
         /\ Head(todo[t]) = Base(t) => ToSet(todo[t]) = {Base(t)}
         /\ Top(t) # Base(t)
         /\ \A e \in Wanted(t) : e # Nothing /\ e # Garbage
<1>1. todo[t] \in {<<Top(t)>>, <<Base(t)>>, <<Top(t), Base(t)>>}
  BY DEF Faithful, Search, Busy
<1>2. Top(t) # Base(t)
  BY Distinct DEF Top, Base
<1>3. /\ ToSet(todo[t]) = {Head(todo[t])} \cup ToSet(Tail(todo[t]))
      /\ Tail(todo[t]) \in {<<>>, <<Base(t)>>}
      /\ Head(todo[t]) = Base(t) => ToSet(todo[t]) = {Base(t)}
  <2>1. PICK a, b, s : a = Top(t) /\ b = Base(t) /\ s = todo[t]
    OBVIOUS
  <2>2. s = <<a>> \/ s = <<b>> \/ s = <<a, b>>
    BY <1>1, <2>1
  <2>3. ToSet(s) = {Head(s)} \cup ToSet(Tail(s)) /\ Tail(s) \in {<<>>, <<b>>}
    BY <2>2, ListSplit
  <2>4. Head(s) = a \/ ToSet(s) = {b}
    BY <2>2, ListHead
  <2> QED BY <1>2, <2>1, <2>3, <2>4
<1>4. Head(todo[t]) \in Wanted(t)
  BY <1>3 DEF Faithful, Search
<1>5. \A e \in Wanted(t) : e # Nothing /\ e # Garbage
  <2>1. Wanted(t) \subseteq Entry
    BY DEF Wanted, TypeOK
  <2> QED BY <2>1, Distinct
<1> QED BY <1>2, <1>3, <1>4, <1>5

\* Going on to the next entry when the one before was of no use.
LEMMA NextFaithful ==
  ASSUME TypeOK, Busy, NEW t \in Thread, Faithful(t), at[t] # "idle",
         NextEntry(t), answer[t] = Nothing, answer'[t] = Nothing,
         asked'[t] = asked[t], UNCHANGED <<contents, empty>>,
         failed[t] \subseteq failed'[t], Head(todo[t]) \in empty \cup failed'[t]
  PROVE  Faithful(t)'
<1> SUFFICES ASSUME asked[t] # None PROVE Search(t)' /\ Result(t)'
  BY DEF Faithful
<1>1. /\ todo'[t] = Tail(todo[t])
      /\ at'[t] = IF Tail(todo[t]) = <<>> THEN "idle" ELSE "searching"
  BY DEF NextEntry, TypeOK
<1>2. Top(t)' = Top(t) /\ Base(t)' = Base(t) /\ Wanted(t)' = Wanted(t)
  BY DEF Top, Base, Wanted
<1>3. Search(t)'
  BY <1>1, <1>2, Reading DEF Faithful, Search
<1>4. Base(t) # Nothing /\ Nothing # Garbage
  BY Distinct DEF Base, Nothing
<1>5. Wanted(t)' \subseteq Passed(t)' \cup ToSet(todo[t])'
  <2>1. Wanted(t) \subseteq Passed(t) \cup {Head(todo[t])} \cup ToSet(Tail(todo[t]))
    BY Reading DEF Faithful, Result
  <2>2. Passed(t) \cup {Head(todo[t])} \subseteq Passed(t)'
    BY DEF Passed
  <2>3. ToSet(todo[t])' = ToSet(Tail(todo[t]))
    BY <1>1 DEF ToSet
  <2> QED BY <1>2, <2>1, <2>2, <2>3
<1> QED BY <1>1, <1>2, <1>3, <1>4, <1>5 DEF Result

\* A thread goes on with a context of its own, with others left as they are.
LEMMA GoToFaithful ==
  ASSUME TypeOK, Busy, Separate, Cardinality(live) <= Cardinality(Thread),
         NEW t \in Thread, GoTo(t), NEW u \in Thread, Faithful(u)
  PROVE  Faithful(u)'
<1>1. PICK c \in Context : /\ Acquire(c)
                           /\ using' = [using EXCEPT ![t] = c]
                           /\ position' = [position EXCEPT ![c] = Head(todo[t])]
  BY DEF GoTo
<1>2. CASE u # t
  <2>1. at[u] \in {"opening", "reading", "returning"} => using[u] # c
    BY <1>1, GoToSeparate DEF GoTo, archive, Busy, Users
  <2>2. at[u] \in {"opening", "reading", "returning"} =>
          position'[using[u]] = position[using[u]]
    BY <1>1, <2>1 DEF TypeOK
  <2> QED BY <1>1, <1>2, <2>2, OthersUntouched DEF GoTo, archive, call, TypeOK
<1>3. CASE u = t
  <2> SUFFICES ASSUME asked[t] # None PROVE Search(t)' /\ Result(t)'
    BY <1>3 DEF Faithful, GoTo, call
  <2>1. /\ at[t] = "searching" /\ at'[t] = "opening" /\ using'[t] = c
        /\ position'[c] = Head(todo[t])
        /\ UNCHANGED <<contents, empty, todo, answer, asked, failed>>
    BY <1>1 DEF GoTo, archive, call, TypeOK
  <2>2. Search(t)'
    BY <1>3, <2>1 DEF Faithful, Search, Wanted, Top, Base
  <2>3. Result(t)'
    BY <1>3, <2>1 DEF Faithful, Result, Passed, Wanted, Top, Base
  <2> QED BY <2>2, <2>3
<1> QED BY <1>2, <1>3

\* What is read is the entry the context was sent to.
LEMMA ReadFaithful ==
  ASSUME TypeOK, Busy, NEW t \in Thread, Faithful(t), ReadCurrentFile(t)
  PROVE  Faithful(t)'
<1> SUFFICES ASSUME asked[t] # None PROVE Search(t)' /\ Result(t)'
  BY DEF Faithful, ReadCurrentFile
<1> DEFINE e == Head(todo[t])
<1>1. /\ at[t] = "reading" /\ at'[t] = "returning" /\ position[using[t]] = e
      /\ UNCHANGED <<contents, empty, todo, asked, position, using>>
  BY DEF Faithful, Search, ReadCurrentFile, archive, TypeOK
<1>2. Top(t)' = Top(t) /\ Base(t)' = Base(t) /\ Wanted(t)' = Wanted(t)
  BY <1>1 DEF Top, Base, Wanted
<1>3. Search(t)'
  BY <1>1, <1>2 DEF Faithful, Search
<1>4. PICK d \in {IF e \in empty THEN Nothing ELSE e} \cup
                 (IF e \in empty THEN {} ELSE {Garbage}) :
        /\ answer' = [answer EXCEPT ![t] = d]
        /\ failed' = [failed EXCEPT ![t] = IF d = Garbage THEN @ \cup {e} ELSE @]
  BY <1>1 DEF ReadCurrentFile
<1>5. /\ e \in Wanted(t) /\ e # Nothing /\ e # Garbage /\ Nothing # Garbage
      /\ Top(t) # Base(t) /\ Base(t) # Nothing /\ Base(t) # Garbage
      /\ e = Base(t) => ToSet(todo[t]) = {Base(t)}
  <2>1. Base(t) # Nothing /\ Base(t) # Garbage
    BY DEF Base, Nothing, Garbage
  <2> QED BY <1>1, <2>1, Reading, Distinct
<1>6. answer[t] = Nothing /\ Wanted(t) \subseteq Passed(t) \cup ToSet(todo[t])
  BY <1>1 DEF Faithful, Result
<1>7. answer'[t] = d /\ failed'[t] = IF d = Garbage THEN failed[t] \cup {e} ELSE failed[t]
  BY <1>4 DEF TypeOK
<1>8. Passed(t) \subseteq Passed(t)' /\ ToSet(todo[t])' = ToSet(todo[t])
  BY <1>1, <1>7 DEF Passed, ToSet
<1>9. CASE e \in empty
  <2>1. d = Nothing
    BY <1>4, <1>9
  <2> QED BY <1>1, <1>2, <1>3, <1>5, <1>6, <1>7, <1>8, <1>9, <2>1 DEF Result
<1>10. CASE e \notin empty /\ d = e
  <2>1. e = Base(t) => Top(t) \notin Wanted(t) \ Passed(t)
    BY <1>5, <1>6
  <2> QED BY <1>1, <1>2, <1>3, <1>5, <1>7, <1>8, <1>10, <2>1 DEF Result
<1>11. CASE e \notin empty /\ d = Garbage
  <2>1. failed'[t] \cap Wanted(t) # {}
    BY <1>5, <1>7, <1>11
  <2> QED BY <1>1, <1>2, <1>3, <1>5, <1>7, <1>11, <2>1 DEF Result
<1> QED BY <1>4, <1>9, <1>10, <1>11

LEMMA FaithfulStep ==
  ASSUME Accounted, \A t \in Thread : Faithful(t), [Next]_vars
  PROVE  \A t \in Thread : Faithful(t)'
<1> SUFFICES ASSUME NEW u \in Thread PROVE Faithful(u)'
  OBVIOUS
<1> USE DEF Accounted
<1>1. ASSUME NEW c \in Context, Open(c) PROVE Faithful(u)'
  BY <1>1 DEF Open, call, Faithful, Search
<1>2. CASE SetOverlayPath \/ Close
  BY <1>2, OthersUntouched DEF SetOverlayPath, Close, call
<1>3. ASSUME NEW t \in Thread, NEW f \in File, NEW v \in Version, Ask(t, f, v)
      PROVE  Faithful(u)'
  <2>1. CASE u # t
    BY <1>3, <2>1, OthersUntouched DEF Ask, archive, TypeOK
  <2> QED BY <1>3, <2>1, AskFaithful
<1>4. ASSUME NEW t \in Thread, GoTo(t) PROVE Faithful(u)'
  BY <1>4, GoToFaithful
<1>5. ASSUME NEW t \in Thread, AcquireFails(t) \/ OpenFails(t) PROVE Faithful(u)'
  <2>1. /\ at[t] \in {"searching", "opening"} /\ NextEntry(t) /\ todo[t] # <<>>
        /\ failed' = [failed EXCEPT ![t] = @ \cup {Head(todo[t])}]
        /\ UNCHANGED <<contents, empty, position, answer, asked>>
        /\ \A x \in Thread : x # t => using'[x] = using[x]
    BY <1>5 DEF AcquireFails, OpenFails, archive, call, Busy, TypeOK
  <2>2. failed'[t] = failed[t] \cup {Head(todo[t])} /\ \A x \in Thread : x # t => failed'[x] = failed[x]
    BY <2>1 DEF TypeOK
  <2>3. CASE u # t
    <3>1. at'[u] = at[u] /\ todo'[u] = todo[u]
      BY <2>1, <2>3 DEF NextEntry, TypeOK
    <3> QED BY <2>1, <2>2, <2>3, <3>1, OthersUntouched
  <2>4. CASE u = t /\ asked[t] = None
    BY <2>1, <2>4 DEF Faithful
  <2>5. CASE u = t /\ asked[t] # None
    <3>1. answer[t] = Nothing
      BY <2>1, <2>5 DEF Faithful, Result
    <3> QED BY <2>1, <2>2, <2>5, <3>1, NextFaithful
  <2> QED BY <2>3, <2>4, <2>5
<1>6. ASSUME NEW t \in Thread, OpenCurrentFile(t) PROVE Faithful(u)'
  <2>1. CASE u # t
    BY <1>6, <2>1, OthersUntouched DEF OpenCurrentFile, archive, call, TypeOK
  <2>2. CASE u = t
    <3>1. /\ at[t] = "opening" /\ at'[t] = "reading"
          /\ UNCHANGED <<contents, empty, position, using, todo, answer, asked, failed>>
      BY <1>6 DEF OpenCurrentFile, archive, call, TypeOK
    <3>2. Top(t)' = Top(t) /\ Base(t)' = Base(t) /\ Wanted(t)' = Wanted(t)
      BY <3>1 DEF Top, Base, Wanted
    <3>3. Passed(t)' = Passed(t) /\ ToSet(todo[t])' = ToSet(todo[t])
      BY <3>1 DEF Passed, ToSet
    <3>4. asked[t] # None => Search(t)'
      BY <2>2, <3>1, <3>2, <3>3 DEF Faithful, Search
    <3>5. asked[t] # None => Result(t)'
      BY <2>2, <3>1, <3>2, <3>3 DEF Faithful, Result
    <3> QED BY <2>2, <3>1, <3>4, <3>5 DEF Faithful
  <2> QED BY <2>1, <2>2
<1>7. ASSUME NEW t \in Thread, ReadCurrentFile(t) PROVE Faithful(u)'
  <2>1. CASE u # t
    BY <1>7, <2>1, OthersUntouched DEF ReadCurrentFile, archive, TypeOK
  <2> QED BY <1>7, <2>1, ReadFaithful
<1>8. ASSUME NEW t \in Thread, Return(t) PROVE Faithful(u)'
  <2>1. /\ at[t] = "returning" /\ todo[t] # <<>>
        /\ UNCHANGED <<contents, empty, position, answer, asked, failed>>
        /\ \A x \in Thread : x # t => using'[x] = using[x]
    BY <1>8 DEF Return, archive, call, Busy, TypeOK
  <2>2. CASE u # t
    <3>1. at'[u] = at[u] /\ todo'[u] = todo[u]
      BY <1>8, <2>2 DEF Return, NextEntry, TypeOK
    <3> QED BY <2>1, <2>2, <3>1, OthersUntouched
  <2>3. CASE u = t /\ asked[t] = None
    BY <2>1, <2>3 DEF Faithful
  <2>4. CASE u = t /\ asked[t] # None /\ answer[t] = Nothing
    <3>1. NextEntry(t) /\ Head(todo[t]) \in empty
      BY <1>8, <2>1, <2>4 DEF Return, Faithful, Result
    <3> QED BY <2>1, <2>4, <3>1, NextFaithful
  <2>5. CASE u = t /\ asked[t] # None /\ answer[t] # Nothing
    <3>1. todo'[t] = <<>> /\ at'[t] = "idle"
      BY <1>8, <2>5 DEF Return, TypeOK
    <3>2. Top(t)' = Top(t) /\ Base(t)' = Base(t) /\ Wanted(t)' = Wanted(t)
          /\ Passed(t)' = Passed(t)
      BY <2>1 DEF Top, Base, Wanted, Passed
    <3>3. ToSet(todo[t])' = {}
      BY <3>1, NoneListed DEF ToSet
    <3>4. Search(t)'
      BY <2>1, <2>5, <3>1, <3>2, <3>3 DEF Faithful, Search
    <3>5. Result(t)'
      BY <2>1, <2>5, <3>1, <3>2 DEF Faithful, Result
    <3> QED BY <2>5, <3>4, <3>5 DEF Faithful
  <2> QED BY <2>2, <2>3, <2>4, <2>5
<1>9. CASE UNCHANGED vars
  BY <1>9, OthersUntouched DEF vars, archive, call
<1> QED BY <1>1, <1>2, <1>3, <1>4, <1>5, <1>6, <1>7, <1>8, <1>9 DEF Next

LEMMA FaithfulSuffices ==
  ASSUME TypeOK, \A t \in Thread : Faithful(t)
  PROVE  ReadsAreFaithful
<1> SUFFICES ASSUME NEW t \in Thread, Done(t)
             PROVE  LET f == asked[t][1]
                        mine == {e \in contents : e[2] = f /\ e[1] \in {"overlay", "base"}}
                        top == <<"overlay", f>>
                    IN /\ answer[t] \in mine \cup {Nothing, Garbage}
                       /\ answer[t] = Garbage => failed[t] \cap mine # {}
                       /\ failed[t] = {} /\ answer[t] = Nothing /\ asked[t][2] \in {"top", "base"} =>
                            <<"base", f>> \notin contents \ empty
                       /\ answer[t] = top => asked[t][2] # "base"
                       /\ answer[t] = <<"base", f>> =>
                            /\ asked[t][2] # "overlay"
                            /\ asked[t][2] = "top" /\ asked[t][3] /\ top \in contents =>
                                 top \in empty \cup failed[t]
  BY DEF ReadsAreFaithful
<1> DEFINE f == asked[t][1]
           mine == {e \in contents : e[2] = f /\ e[1] \in {"overlay", "base"}}
<1>1. Search(t) /\ Result(t) /\ at[t] = "idle" /\ todo[t] = <<>>
  BY DEF Done, Faithful, Search
<1>2. Wanted(t) \subseteq mine
  BY DEF Wanted, Top, Base
<1>3. ToSet(todo[t]) = {}
  BY <1>1 DEF ToSet
<1>4. answer[t] = Top(t) => Top(t) \in Wanted(t)
  BY <1>1, Distinct DEF Result, Top, Nothing, Garbage
<1>5. answer[t] = Base(t) => Base(t) \in Wanted(t)
  BY <1>1, Distinct DEF Result, Base, Nothing, Garbage
<1>6. Top(t) # Base(t)
  BY Distinct DEF Top, Base
<1>7. answer[t] = Nothing => Wanted(t) \subseteq empty \cup failed[t]
  BY <1>1, <1>3 DEF Result, Passed
<1>8. Base(t) \in contents /\ asked[t][2] # "overlay" => Base(t) \in Wanted(t)
  BY DEF Wanted
<1>9. Top(t) \in contents /\ asked[t][2] = "top" /\ asked[t][3] => Top(t) \in Wanted(t)
  BY DEF Wanted
<1>10. answer[t] \in mine \cup {Nothing, Garbage} /\ (answer[t] = Garbage => failed[t] \cap mine # {})
  BY <1>1, <1>2 DEF Result
<1>11. failed[t] = {} /\ answer[t] = Nothing /\ asked[t][2] \in {"top", "base"} =>
         Base(t) \notin contents \ empty
  BY <1>7, <1>8
<1>12. answer[t] = Top(t) => asked[t][2] # "base"
  BY <1>4, <1>6 DEF Wanted
<1>13. answer[t] = Base(t) =>
         /\ asked[t][2] # "overlay"
         /\ asked[t][2] = "top" /\ asked[t][3] /\ Top(t) \in contents =>
              Top(t) \in empty \cup failed[t]
  BY <1>1, <1>5, <1>6, <1>9 DEF Wanted, Result, Passed
<1> QED BY <1>10, <1>11, <1>12, <1>13 DEF Top, Base

\* A read returns the data of the file and version that were asked for
\* (ReadsAreFaithful), whatever other threads do with their contexts.
THEOREM AlwaysFaithful == Spec => []ReadsAreFaithful
<1> DEFINE AllFaithful == \A t \in Thread : Faithful(t)
<1>1. Init => Accounted /\ AllFaithful
  <2>1. Init => Accounted
    BY TypeInit, ContextsInit DEF Accounted
  <2>2. Init => AllFaithful
    BY DEF Init, Faithful
  <2> QED BY <2>1, <2>2
<1>2. Accounted /\ AllFaithful /\ [Next]_vars => Accounted' /\ AllFaithful'
  BY AccountedStep, FaithfulStep
<1>3. Accounted /\ AllFaithful => ReadsAreFaithful
  BY FaithfulSuffices DEF Accounted
<1> HIDE DEF AllFaithful
<1> QED BY <1>1, <1>2, <1>3, PTL DEF Spec
=============================================================================

-------------------------------- MODULE CacheInfo --------------------------------
(***************************************************************************)
(* CacheInfo (src/src/CacheInfo.cpp): whether an archived response has     *)
(* expired.  A header is a record of the fields that matter:               *)
(* Cache_Control with the directives found in it, and times in seconds.    *)
(***************************************************************************)
EXTENDS Integers

Absent == -1     \* a field or directive that is not there

\* A Cache-Control field, and a header without any field.
Directives == [no_store : BOOLEAN, no_cache : BOOLEAN, s_max_age : Nat \cup {Absent},
               max_age : Nat \cup {Absent}]
NoDirectives == [no_store |-> FALSE, no_cache |-> FALSE, s_max_age |-> Absent,
                 max_age |-> Absent]
NoFields == [Cache_Control |-> NoDirectives, Date |-> Absent, Expires |-> Absent,
             Last_Modified |-> Absent, ETag |-> FALSE]

NotCached == {}  \* std::nullopt; otherwise the set of the one value

Decides(d) == d # NoDirectives

\* The first directive that is found, in the order of the code.
Allowed(d) ==
  CASE d.no_store -> NotCached
    [] ~d.no_store /\ d.no_cache -> {0}
    [] OTHER -> {IF d.s_max_age # Absent THEN d.s_max_age ELSE d.max_age}

\* Division of the code, which rounds towards zero.
Quotient(a, b) == IF a >= 0 THEN a \div b ELSE -((-a) \div b)

\* The request's Cache-Control comes before that of the reply.
get_cache_max_age(reply, request) ==
  LET from == IF Decides(request.Cache_Control) THEN request ELSE reply
  IN CASE Decides(from.Cache_Control) -> Allowed(from.Cache_Control)
       [] OTHER ->
            {IF reply.Date = Absent THEN 0
             ELSE IF reply.Expires # Absent THEN reply.Expires - reply.Date
             ELSE IF reply.Last_Modified # Absent
             THEN Quotient(reply.Date - reply.Last_Modified, 10) ELSE 0}

\* Without a Date the age is the time since 1970.  A permanent redirect does
\* not expire, unless it must not be stored.
get_cache_info(moved, reply, request, now) ==
  LET max_age == get_cache_max_age(reply, request)
      age == IF reply.Date = Absent THEN now ELSE now - reply.Date
  IN [cached |-> max_age # NotCached,
      expired |-> max_age = NotCached \/ (~moved /\ \A allowed \in max_age : age > allowed),
      last_modified_time |-> reply.Last_Modified,
      etag |-> reply.ETag]
=============================================================================

----------------------------- MODULE SessionStores -----------------------------
(***************************************************************************)
(* CookieStore and HeaderStore (src/src/CookieStore.cpp, HeaderStore.cpp): *)
(* what is known of hosts and pages in a session, and how it comes back in *)
(* the next session from the texts "cookies" and "headers" in the archive. *)
(*                                                                         *)
(* A text is a sequence of lines, a line or a string a sequence of tokens: *)
(* the separators the formats use and words that contain none of them.     *)
(* Each operation of CookieStore holds its mutex, and m_header_writer is   *)
(* written holding m_write_mutex, so each is one step.  A header is a set  *)
(* of names with values (the same line twice counts once).                 *)
(***************************************************************************)
EXTENDS Naturals, FiniteSets, Sequences, SequencesExt

CONSTANTS
  Host, Url,        \* host names and URLs, as sequences of tokens
  Cookie,           \* the values of Set-Cookie headers, as sequences of tokens
  HeaderEntry,      \* the [status, header] that responses may have
  None

Empty == [x \in {} |-> None]

ASSUME StoresAssumption ==
  \* no line break in them, and no host begins with a tabulator
  /\ \A s \in Host \cup Url \cup Cookie : s \in Seq(STRING) /\ "crlf" \notin Range(s)
  /\ \A h \in Host : Len(h) > 0 /\ h[1] # "tab"
  /\ None \notin Host \cup Url
  /\ \A e \in HeaderEntry :
       /\ e \in [status : STRING \ {"tab", "space"}, header : SUBSET (Seq(STRING) \X Seq(STRING))]
       /\ IsFiniteSet(e.header)
       /\ \A field \in e.header : "colon" \notin Range(field[1])

VARIABLES
  cookies,  \* CookieStore::m_cookies
  cache,    \* CookieStore::m_cookies_list_cache
  reader,   \* m_header_reader: the entries of the input archive
  writer,   \* m_header_writer: the entries of this session
  archive   \* the texts of the last archive when no session runs, or None

vars == <<cookies, cache, reader, writer, archive>>

-----------------------------------------------------------------------------
(* Strings.                                                                *)

Position(s, token) == SelectInSeq(s, LAMBDA t : t = token)   \* 0 for npos
Before(s, i) == SubSeq(s, 1, i - 1)
After(s, i) == SubSeq(s, i + 1, Len(s))
Until(s, token) == IF Contains(s, token) THEN Before(s, Position(s, token)) ELSE s

Lookup(f, x) == IF x \in DOMAIN f THEN f[x] ELSE Empty
Assign(f, x, y) == [z \in DOMAIN f \cup {x} |-> IF z = x THEN y ELSE f[z]]
\* std::map::emplace keeps the value of a key that is there already
Emplace(f, x, y) == IF x \in DOMAIN f THEN f ELSE Assign(f, x, y)

Indented(key, separator, value) == <<"tab">> \o key \o <<separator>> \o value

-----------------------------------------------------------------------------
(* CookieStore                                                             *)

\* CookieStore::set splits the text at the first "="; without one,
CookieKey(c) == Until(c, "eq")
\* both are the whole text, since npos + 1 = 0.
CookieValue(c) == After(c, Position(c, "eq"))

\* Mutant of Set: the list of the host stays in the cache.
Set_Cached(h, c) ==
  /\ archive = None
  /\ cookies' = Assign(cookies, h, Assign(Lookup(cookies, h), CookieKey(c), CookieValue(c)))
  /\ UNCHANGED <<cache, reader, writer, archive>>

Set(h, c) ==
  /\ archive = None
  /\ cookies' = Assign(cookies, h, Assign(Lookup(cookies, h), CookieKey(c), CookieValue(c)))
  /\ cache' = [g \in DOMAIN cache \ {h} |-> cache[g]]
  /\ UNCHANGED <<reader, writer, archive>>

\* build_cookies_list, as the set of what it joins: the attributes of a cookie
\* follow a semicolon and are not for the server.
BuildCookiesList(h) ==
  LET known == Lookup(cookies, h)
  IN  {<<key, Until(known[key], "semicolon")>> : key \in DOMAIN known}

GetCookiesList(h) ==
  /\ archive = None
  /\ cache' = Emplace(cache, h, BuildCookiesList(h))
  /\ UNCHANGED <<cookies, reader, writer, archive>>

CookieLines(h) ==
  LET keys == SetToSeq(DOMAIN cookies[h])
  IN  <<h>> \o [k \in 1..Len(keys) |-> Indented(keys[k], "eq", cookies[h][keys[k]])]

SerializeCookies ==
  LET hosts == SetToSeq(DOMAIN cookies)
  IN  FlattenSeq([i \in 1..Len(hosts) |-> CookieLines(hosts[i])])

HeadLine(line) == line = <<>> \/ line[1] # "tab"

\* Mutant of CookieLine: a cookie ends where its attributes begin.
CookieLine_Value(line) ==
  LET i == Position(line, "eq")
  IN  <<SubSeq(line, 2, i - 1), Until(After(line, i), "semicolon")>>

CookieLine(line) ==
  LET i == Position(line, "eq")
  IN  <<SubSeq(line, 2, i - 1), After(line, i)>>

\* CookieStore::deserialize: a line that begins with no tabulator names the
\* host of the cookies that follow.
ReadCookieLine(s, line) ==
  IF HeadLine(line)
  THEN [host |-> line, store |-> Emplace(s.store, line, Empty)]
  ELSE IF s.host = None \/ ~Contains(line, "eq")
  THEN s
  ELSE LET c == CookieLine(line)
       IN  [s EXCEPT !.store[s.host] = Emplace(@, c[1], c[2])]

DeserializeCookies(text) ==
  LET after[n \in 0..Len(text)] ==
        IF n = 0 THEN [host |-> None, store |-> Empty] ELSE ReadCookieLine(after[n - 1], text[n])
  IN  after[Len(text)].store

-----------------------------------------------------------------------------
(* HeaderStore                                                             *)

\* HeaderStore::write, of a response or of an entry of the input archive.
Write(u, e) ==
  /\ archive = None
  /\ writer' = Assign(writer, u, e)
  /\ UNCHANGED <<cookies, cache, reader, archive>>

HeaderLines(u) ==
  LET fields == SetToSeq(writer[u].header)
  IN  <<<<writer[u].status, "space">> \o u>> \o
      [k \in 1..Len(fields) |-> Indented(fields[k][1], "colon", fields[k][2])]

SerializeHeaders ==
  LET urls == SetToSeq(DOMAIN writer)
  IN  FlattenSeq([i \in 1..Len(urls) |-> HeaderLines(urls[i])])

\* Mutant of HeaderLine: the last colon separates name and value.
HeaderLine_LastColon(line) ==
  LET i == SelectLastInSeq(line, LAMBDA t : t = "colon")
  IN  <<SubSeq(line, 2, i - 1), After(line, i)>>

HeaderLine(line) ==
  LET i == Position(line, "colon")
  IN  <<SubSeq(line, 2, i - 1), After(line, i)>>

\* HeaderStore::deserialize; the status is what atoi makes of the line, and a
\* URL that comes again continues its entry.
ReadHeaderLine(s, line) ==
  IF HeadLine(line)
  THEN LET u == After(line, Position(line, "space"))
           header == IF u \in DOMAIN s.store THEN s.store[u].header ELSE {}
       IN  [url |-> u, store |-> Assign(s.store, u, [status |-> line[1], header |-> header])]
  ELSE IF s.url = None \/ ~Contains(line, "colon")
  THEN s
  ELSE [s EXCEPT !.store[s.url].header = @ \cup {HeaderLine(line)}]

DeserializeHeaders(text) ==
  LET after[n \in 0..Len(text)] ==
        IF n = 0 THEN [url |-> None, store |-> Empty] ELSE ReadHeaderLine(after[n - 1], text[n])
  IN  after[Len(text)].store

-----------------------------------------------------------------------------
(* Sessions                                                                *)

Init ==
  /\ cookies = Empty
  /\ cache = Empty
  /\ reader = Empty
  /\ writer = Empty
  /\ archive = None

\* Logic::finish
Finish ==
  /\ archive = None
  /\ archive' = [headers |-> SerializeHeaders, cookies |-> SerializeCookies]
  /\ UNCHANGED <<cookies, cache, reader, writer>>

\* Logic::initialize, with stores that are new
Initialize ==
  /\ archive # None
  /\ reader' = DeserializeHeaders(archive.headers)
  /\ cookies' = DeserializeCookies(archive.cookies)
  /\ cache' = Empty
  /\ writer' = Empty
  /\ archive' = None

Next ==
  \/ \E h \in Host : (\E c \in Cookie : Set(h, c)) \/ GetCookiesList(h)
  \/ \E u \in Url : \/ \E e \in HeaderEntry : Write(u, e)
                    \/ u \in DOMAIN reader /\ Write(u, reader[u])
  \/ Finish
  \/ Initialize

Spec == Init /\ [][Next]_vars

-----------------------------------------------------------------------------
(* Properties.                                                             *)

\* Whatever was read from an archive is made of what was written: the stores
\* hold known hosts, pages and responses only.
TypeOK ==
  /\ DOMAIN cookies \subseteq Host
  /\ \A h \in DOMAIN cookies : \A key \in DOMAIN cookies[h] :
       \E c \in Cookie : key = CookieKey(c) /\ cookies[h][key] \in {CookieValue(d) : d \in Cookie}
  /\ DOMAIN cache \subseteq Host
  /\ \A headers \in {reader, writer} : \A u \in DOMAIN headers :
       u \in Url /\ headers[u] \in HeaderEntry

\* The list a request is forwarded with is the one that would be built anew:
\* no cookie that was replaced since is ever sent (get_cookies_list).
CacheIsFresh == \A h \in DOMAIN cache : cache[h] = BuildCookiesList(h)

\* The next session knows the very cookies, attributes included, and the very
\* headers this one has ended with (serialize and deserialize).
CookiesReturn == [][archive # None /\ archive' = None => cookies' = cookies]_vars
HeadersReturn == [][archive # None /\ archive' = None => reader' = writer]_vars
=============================================================================

------------------------------ MODULE UrlFunctions ------------------------------
(***************************************************************************)
(* The functions on URLs of src/src/common.cpp.                            *)
(*                                                                         *)
(* A URL is a sequence of tokens: the characters : / . ? # &, each a token *)
(* of its own, and words (host labels, names, numbers), which are never    *)
(* divided.  "http://a.com/x" is <<"http", ":", "/", "/", "a", ".", "com", *)
(* "/", "x">>.  No word is the beginning of another, so that a prefix or a *)
(* part of the sequence is one of the string.                              *)
(***************************************************************************)
EXTENDS Naturals, Sequences, FiniteSets, FiniteSetsExt, SequencesExt

Delimiters == {":", "/", ".", "?", "#", "&"}
Numbers == {"8080"}          \* words that are not of the letters a-z
Letters(token) == token \notin Delimiters \cup Numbers

\* std::string::find and rfind: the first (last) position at or behind (at or
\* before) a position, or 0 for npos.
Matches(s, part) ==
  {i \in 1..Len(s) + 1 - Len(part) :
     s[i] = part[1] /\ SubSeq(s, i, i + Len(part) - 1) = part}
Find(s, part, from) ==
  LET found == {i \in Matches(s, part) : i >= from} IN IF found = {} THEN 0 ELSE Min(found)
RFind(s, part, from) ==
  LET found == {i \in Matches(s, part) : i <= from} IN IF found = {} THEN 0 ELSE Max(found)

Has(s, token) == Contains(s, token)
Upto(s, i) == IF i = 0 THEN s ELSE SubSeq(s, 1, i - 1)     \* s.substr(0, i)
From(s, i) == SubSeq(s, i, Len(s))                         \* s.substr(i)

SchemeMark == <<":", "/", "/">>

-----------------------------------------------------------------------------
(* The parts of a URL.                                                     *)

get_scheme(url) ==
  LET colon == Find(url, <<":">>, 1)
  IN IF colon > 0 /\ \A i \in 1..colon - 1 : Letters(url[i]) THEN Upto(url, colon) ELSE <<>>

is_relative_url(url) == get_scheme(url) = <<>>

\* Where the host name begins and the path begins (0 for npos).
HostBegin(url) == Find(url, SchemeMark, 1) + 3
PathBegin(url) == Find(url, <<"/">>, HostBegin(url))
HasHost(url) == ~is_relative_url(url) /\ Find(url, SchemeMark, 1) > 0

get_hostname_port(url) ==
  IF HasHost(url) THEN From(Upto(url, PathBegin(url)), HostBegin(url)) ELSE <<>>

get_hostname(url) == Upto(get_hostname_port(url), Find(get_hostname_port(url), <<":">>, 1))

get_scheme_hostname_port(url) ==
  IF is_relative_url(url) THEN url
  ELSE IF HasHost(url) THEN Upto(url, PathBegin(url)) ELSE <<>>

get_scheme_hostname_port_path(url) ==
  LET marks == {i \in DOMAIN url : url[i] \in {"?", "#"}}
  IN Upto(url, IF marks = {} THEN 0 ELSE Min(marks))

-----------------------------------------------------------------------------
(* Between URLs and requests of the local server.                          *)

\* replace_all of "/./" by "/": the search goes on behind the replacement.
\* Loops end when nothing changes any more, at the latest after as many rounds
\* as there are tokens.
RemoveDot(state) ==
  LET i == Find(state.path, <<"/", ".", "/">>, state.from)
  IN IF i = 0 THEN state
     ELSE [path |-> SubSeq(state.path, 1, i) \o From(state.path, i + 3), from |-> i + 1]
RemoveDots(path) ==
  LET after[n \in 0..Len(path)] ==
        IF n = 0 THEN [path |-> path, from |-> 1] ELSE RemoveDot(after[n - 1])
  IN after[Len(path)].path

RemoveParent(path) ==
  LET i == Find(path, <<"/", ".", ".">>, 1)
      slash == IF i > 1 THEN RFind(path, <<"/">>, i - 1) ELSE 1
  IN IF i = 0 THEN path ELSE SubSeq(path, 1, slash - 1) \o From(path, i + 3)
RemoveParents(path) ==
  LET after[n \in 0..Len(path)] == IF n = 0 THEN path ELSE RemoveParent(after[n - 1])
  IN after[Len(path)]

normalize_path(path) == RemoveParents(RemoveDots(path))

to_absolute_url(url, relative_to) ==
  LET base == get_scheme_hostname_port(relative_to)
      with_scheme == get_scheme(relative_to) \o <<":">> \o url
      path == From(get_scheme_hostname_port_path(relative_to), Len(base) + 1)
      directory == IF Has(path, "/") THEN SubSeq(path, 1, RFind(path, <<"/">>, Len(path)))
                                     ELSE path \o <<"/">>
  IN CASE ~is_relative_url(url) -> url
       [] IsPrefix(<<"/", "/">>, url) /\ Has(get_hostname(with_scheme), ".") -> with_scheme
       [] OTHER -> IF IsPrefix(<<"/">>, url) THEN base \o url
                   ELSE base \o normalize_path(directory \o url)

to_relative_url(url, base_url) ==
  IF ~IsPrefix(base_url, url) THEN url
  ELSE IF url = base_url THEN <<"/">> ELSE From(url, Len(base_url) + 1)

unpatch_url(url) ==
  IF is_relative_url(url) /\ get_scheme(Tail(url)) \in {<<"http">>, <<"https">>}
  THEN Tail(url) ELSE url

-----------------------------------------------------------------------------
(* Names of files and of header entries.                                   *)

\* Of slashes that follow each other one remains.
RemoveDoubleSlashes(path) ==
  LET kept == SelectSeq([i \in DOMAIN path |-> i],
                        LAMBDA i : i = 1 \/ path[i] # "/" \/ path[i - 1] # "/")
  IN [i \in DOMAIN kept |-> path[kept[i]]]

\* File names that are too long end with a hash, which is taken to be unique.
to_local_filename(url) ==
  LET name == Upto(url, Find(url, <<"#">>, 1))
      mark == Find(name, SchemeMark, 1)
      path == RemoveDoubleSlashes(IF mark = 0 THEN name
                                  ELSE SubSeq(name, 1, mark - 1) \o From(name, mark + 2))
  IN IF Last(path) = "/" THEN Append(path, "index") ELSE path

\* The hash of the data of a request is a word.
get_identifying_url(url, data) ==
  IF data = <<>> THEN url
  ELSE url \o <<IF Has(url, "?") THEN "&" ELSE "?">> \o data

\* Mutant of MatchesHost: domains of the host do not match.
MatchesHost_Alone(url, host, sub_domains) == get_hostname_port(url) = host

\* Whether the expression url_to_regex makes of http:// and a host matches a
\* URL: the host, or more if domains of it are included, and then anything.
MatchesHost(url, host, sub_domains) ==
  /\ get_scheme(url) \in {<<"http">>, <<"https">>}
  /\ HasHost(url)
  /\ LET rest == From(url, HostBegin(url))
         authority == get_hostname_port(url)
     IN \/ IsPrefix(host, rest)
        \/ sub_domains /\ \E i \in 2..Len(authority) :
             authority[i] = "." /\ IsPrefix(host, From(rest, i + 1))
=============================================================================

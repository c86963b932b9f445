--------------------------------- MODULE HostList ---------------------------------
(***************************************************************************)
(* HostList (src/src/HostList.cpp): the hosts of a block list file, and    *)
(* whether a URL is of one of them.  A file is a sequence of tokens: those *)
(* of UrlFunctions, " " and "\n" for white space and line breaks, and      *)
(* "0.0.0.0" as one token.                                                 *)
(***************************************************************************)
EXTENDS UrlFunctions

\* A host name without its surrounding white space.
TrimLine(line) ==
  LET black == {i \in DOMAIN line : line[i] # " "}
  IN IF black = {} THEN <<>> ELSE SubSeq(line, Min(black), Max(black))

\* Mutant of HostOfLine: the white space behind the address remains.
HostOfLine_Untrimmed(line) ==
  LET text == TrimLine(Upto(line, Find(line, <<"#">>, 1)))
  IN IF IsPrefix(<<"0.0.0.0">>, text) THEN Tail(text) ELSE text

\* A line without its comment and the address that blocked hosts get.
HostOfLine(line) ==
  LET text == TrimLine(Upto(line, Find(line, <<"#">>, 1)))
  IN IF IsPrefix(<<"0.0.0.0">>, text) THEN TrimLine(Tail(text)) ELSE text

\* Lines end with a line break; what follows the last one is not read.
LinesOf(file) ==
  LET breaks == {i \in DOMAIN file : file[i] = "\n"}
      begin(i) == IF \E j \in breaks : j < i
                  THEN 1 + CHOOSE j \in breaks : j < i /\ \A k \in breaks : k < i => k <= j
                  ELSE 1
  IN {SubSeq(file, begin(i), i - 1) : i \in breaks}

add_hosts_from_file(file) ==
  {host \in {HostOfLine(line) : line \in LinesOf(file)} : host # <<>> /\ ~Has(host, " ")}

\* The host name with its port and every domain above it, up to an empty one
\* (get_without_first_domain).
Domains(domain) ==
  {domain} \cup {From(domain, i + 1) : i \in {j \in 1..Len(domain) - 1 : domain[j] = "."}}

contains(hosts, url) == Domains(get_hostname_port(url)) \cap hosts # {}
=============================================================================

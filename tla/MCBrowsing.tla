------------------------------- MODULE MCBrowsing -------------------------------
(* Browsing for a site a.com that redirects, and uses other hosts.          *)
EXTENDS Browsing

Http == <<"http", ":", "/", "/">>
Https == <<"https", ":", "/", "/">>
HostA == <<"a", ".", "com">>
HostSub == <<"www", ".", "a", ".", "com">>
HostAds == <<"cdn", ".", "ads", ".", "com">>

MCStarts == {Http \o HostA \o <<"/", "dir">>}

Get(path, query) ==
  [method |-> "GET", path |-> path, query |-> query, data |-> <<>>, follows |-> FALSE]

\* What pages make a browser request: pages of the site, URLs of other hosts
\* that the injected script has redirected to the local server, a form, and
\* what the local server answers itself.
MCRequests ==
  {Get(<<"/", "dir">>, <<>>),
   Get(<<"/">> \o Http \o HostSub \o <<"/", "x">>, <<>>),
   Get(<<"/">> \o Http \o HostAds \o <<"/">>, <<>>),
   [Get(<<"/">>, <<"q">>) EXCEPT !.method = "POST", !.data = <<"form">>],
   [Get(<<"/">>, <<>>) EXCEPT !.method = "OPTIONS"],
   Get(<<"/", "__webrecorder.js">>, <<>>),
   Get(<<"/", "__webrecorder_setcookie">>, <<>>)}

Fresh == [NoFields EXCEPT !.Cache_Control.max_age = 5000, !.Date = 1000]
Expiring == [NoFields EXCEPT !.Date = 1000, !.Last_Modified = 900]

Page == [status |-> "ok", location |-> None, security |-> "none", header |-> Fresh,
         empty |-> FALSE]
Redirect(status, location) ==
  [Page EXCEPT !.status = status, !.location = location, !.empty = TRUE]

MCResponses ==
  {Page,
   [Page EXCEPT !.security = "domains", !.status = "failed", !.header = Expiring],
   Redirect("moved", Https \o HostA \o <<"/", "dir", "/", "?", "q">>),
   [Redirect("moved", Http \o HostSub) EXCEPT !.security = "host"],
   [Redirect("moved", <<"/", "home">>) EXCEPT !.empty = FALSE],
   Redirect("found", <<".", ".", "/", "x", "#", "here">>),
   Redirect("found", Http \o HostA \o <<":", "8080", "/", "x">>)}

\* The hosts file of a block list; what follows the last line break is not
\* read.
MCBlockList ==
  <<"#", " ", "hosts", "\n", "0.0.0.0", " ">> \o <<"ads", ".", "com", " ", "#", "x", "\n">> \o
  <<"\n", "localhost", "\n", "0.0.0.0", " ", "a", " ", "b", "\n", "www">>
MCListedHosts == {<<"ads", ".", "com">>, <<"localhost">>}
=============================================================================

-------------------------- MODULE MCRequestHandling --------------------------
(* RequestHandling on small instances: two URLs that may share a file name. *)
EXTENDS RequestHandling, TLC

CONSTANTS u1, u2, f1, f2, q1, q2, q3

MCUrl == {u1, u2}
MCFile == {f1, f2}
MCRequest == {q1, q2, q3}
MCTwoRequests == {q1, q2}

AllDownloadPolicies == {"standard", "always", "never"}
AllServePolicies == {"latest", "last", "first"}

\* An archived page, with or without body, and an archived error page.
MCArchived == {[status |-> "ok", empty |-> FALSE], [status |-> "ok", empty |-> TRUE],
               [status |-> "failed", empty |-> FALSE]}

Answer(status, empty) ==
  [status |-> status, empty |-> empty, error |-> FALSE, more |-> FALSE]
Incomplete == [status |-> "ok", empty |-> FALSE, error |-> TRUE, more |-> FALSE]
Event == [status |-> "ok", empty |-> FALSE, error |-> FALSE, more |-> TRUE]
StreamOpened == [Event EXCEPT !.empty = TRUE]

MCUpstream == {Answer("ok", FALSE), Answer("ok", TRUE), Answer("moved", FALSE),
               Answer("failed", FALSE)}
WithStreams == {Answer("ok", FALSE), Incomplete, Event, StreamOpened}

StandardDownload == {"standard"}
NoUrl == {}
OneBlocked == {u2}
Symmetry == Permutations(MCRequest)
=============================================================================

--------------------------- MODULE MCSessionStores ---------------------------
(* SessionStores with two hosts and two URLs, and texts that contain the     *)
(* separators of the formats where they may.                                 *)
EXTENDS SessionStores

MCHost == {<<"a">>, <<"b">>}
MCUrl == {<<"http", "colon", "a">>, <<"http", "colon", "a", "colon", "8080">>}

MCCookie == {<<"id", "eq", "x", "semicolon", "path", "eq", "y">>,
             <<"id", "eq", "x", "eq">>,
             <<"id", "eq">>,
             <<"flag">>}

ContentType == << <<"Content-Type">>, <<"space", "html">> >>
Location == << <<"Location">>, <<"http", "colon", "b">> >>
NoReason == << <<"X">>, <<>> >>

MCHeaderEntry == {[status |-> "200", header |-> {ContentType, NoReason}],
                  [status |-> "302", header |-> {Location}],
                  [status |-> "404", header |-> {}]}
=============================================================================

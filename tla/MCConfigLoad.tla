---------------------------- MODULE MCConfigLoad ----------------------------
(* What TLC reads with ConfigLoad: files of one and two lines of every    *)
(* directive with its good and bad forms, and of three lines where order,    *)
(* comments and quotes matter.                                               *)
EXTENDS ConfigLoad

DirectiveSet == {"server", "peer", "pool", "restrict", "driftfile", "leapfile", "enable", "disable", "includefile",
  "trustedkey", "controlkey", "mssntp", "nts", "fudge", "tinker", "tos", "mru", "discard", "interface",
  "statistics", "filegen", "pps", "provider", "setvar", "dscp", "revoke"}
Numerals == ("0" :> 0) @@ ("4" :> 4) @@ ("6" :> 6) @@ ("300" :> 300) @@ ("2001" :> 2001)
ClockAddresses == ("127.127.22.0" :> <<22, 0>>) @@ ("127.127.20.1" :> <<20, 1>>)
Others == {"Server", "bogus", "192.0.2.1", "192.0.2.2", "::1", ":db8::1", "2001:db8::1", "a.example",
  "/p", "iburst", "minpoll", "maxpoll", "default", "-4", "-6", "ignore", "noserve", "kod", "mask", "yes",
  "key", "cert", "port", "time1", "stratum", "refid", "step", "panic", "minsane", "maxdist",
  "maxdepth", "maxage", "average", "LISTEN", "listen", "eth0", "loopstats", "file", "type", "week",
  "unit", "clear", "prefer", "monitor", "stats", "auth", "x", "=", "quoted"}
WordSet == DirectiveSet \cup DOMAIN Numerals \cup DOMAIN ClockAddresses \cup Others
LiteralSet == {"192.0.2.1", "192.0.2.2", "::1"}
KeywordSet == WordSet \ (DOMAIN Numerals \cup DOMAIN ClockAddresses
                         \cup {"192.0.2.1", "192.0.2.2", "::1", "a.example", "/p", "-4", "-6", "2001:db8::1", "quoted"})
LowerMap == [w \in WordSet |-> CASE w = "Server" -> "server" [] w = "LISTEN" -> "listen" [] OTHER -> w]
\* An IPv6 address that begins with a digit is cut in two; "=" is no token.
PieceMap == [w \in WordSet |-> CASE w = "2001:db8::1" -> <<"2001", ":db8::1">> [] w = "=" -> <<>> [] OTHER -> <<w>>]

LineSet == {
  <<"server", "192.0.2.1", "iburst", "minpoll", "4">>, <<"Server", "192.0.2.2", "maxpoll">>,
  <<"peer", "::1", "maxpoll", "6", "minpoll", "300">>, <<"pool", "a.example">>, <<"server", "2001:db8::1">>, <<"server">>,
  <<"server", "127.127.22.0">>, <<"peer", "127.127.20.1", "prefer">>,
  <<"restrict", "default", "kod", "noserve">>, <<"restrict", "-6", "default", "ignore">>,
  <<"restrict", "192.0.2.1", "mask", "192.0.2.2", "kod">>, <<"restrict", "a.example">>, <<"restrict">>,
  <<"driftfile", "/p">>, <<"leapfile">>, <<"includefile", "/p">>, <<"trustedkey", "4">>, <<"controlkey", "x">>,
  <<"controlkey", "6">>, <<"revoke", "4">>, <<"mssntp", "yes">>, <<"bogus", "4">>, <<"dscp", "6">>,
  <<"nts", "key", "/p", "cert", "x">>, <<"nts", "cert", "/p", "key", "/p">>, <<"nts", "key", "/p">>, <<"nts", "port", "x">>, <<"nts", "bogus">>,
  <<"fudge", "6", "0", "time1", "4", "stratum", "300">>, <<"fudge", "6", "0", "refid", "x">>,
  <<"fudge", "300", "0">>, <<"tinker", "step", "4", "panic", "x">>, <<"tinker", "panic", "0", "step">>,
  <<"tos", "minsane", "4", "maxdist", "6">>, <<"tos", "minsane", "6">>, <<"tos", "minsane", "minsane", "4">>,
  <<"mru", "maxdepth", "0">>, <<"mru", "maxage", "6">>, <<"mru", "maxdepth", "300", "maxage", "4">>,
  <<"discard", "average", "4">>, <<"interface", "LISTEN", "eth0">>,
  <<"statistics", "loopstats">>, <<"filegen", "loopstats", "type", "week", "disable">>, <<"filegen", "x", "file", "/p">>,
  <<"pps", "unit", "300", "clear">>, <<"provider", "a.example", "port", "300">>, <<"setvar", "x", "=", "4">>,
  <<"enable", "monitor", "auth">>, <<"disable", "monitor">>, <<"disable", "stats">>, <<"enable", "x">>, <<"enable", "auth">>,
  <<"4", "server", "192.0.2.1">>, <<>>}


Tricky == {<<"server", "192.0.2.1", Hash, "x">>, <<Hash, "peer", "::1">>, <<"4", Hash, "x">>, <<"tos", "minsane", "6">>,
  <<"server", "127.127.22.0">>, <<"server", "192.0.2.2">>, <<"fudge", "6", "0">>, <<"disable", "monitor">>,
  <<"setvar", "x", Quote>>, <<"mru", "maxdepth", "300">>, <<"restrict", "default", "ignore", Hash>>, <<Quote, "x", Quote, "pool">>}

FileSet == {a \o <<Newline>> \o b : a \in LineSet, b \in LineSet}
  \cup {a \o <<Newline>> \o b \o <<Newline>> \o c \o <<Newline>> : a \in Tricky, b \in Tricky, c \in Tricky}
==============================================================================

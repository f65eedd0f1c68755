------------------------------- MODULE NtsKe --------------------------------
(***************************************************************************)
(* Network time security: a thread of the key establishment server         *)
(* (nts_server.rs), a client of it (nts_client.rs) and the requests with   *)
(* the cookies it got (NtsServerSession, NtsState).                        *)
(*                                                                         *)
(* The thread works on copies of the configuration and of its ring of keys *)
(* taken when the server started; its owner goes on to change the ring     *)
(* with which cookies are opened.  TLS is what the two ends see of it:     *)
(* messages of the handshake, halves of records and the notice of the end, *)
(* which arrive in order, as many at a time as the network likes.          *)
(***************************************************************************)
EXTENDS NtsRecords, NtsCookies

CONSTANTS Algorithms,   \* algorithms the server has
          Requests,     \* what a foreign client may send: sequences of records
          Answers,      \* what a foreign server may answer
          KeyIds,       \* numbers of server keys
          MaxAdded,     \* bound on the keys added to the ring
          MaxAsked,     \* bound on NTP requests with cookies
          MaxDays       \* bound on the days that go by

ASSUME KeAssumption == /\ Algorithms \subseteq {AesSiv256, AesSiv512, AesGcm128}
                       /\ \A recs \in Requests \cup Answers : recs \in Seq(ToSet(recs))
                       /\ MaxAdded \in Nat /\ MaxAsked \in Nat /\ MaxDays \in Nat

VARIABLES ring,     \* the owner's keys
          added,    \* history: the number of each key ever added
          floor,    \* history: keys up to this one were pruned
          now,      \* the day, one more than NTS_COOKIE_MAX_AGE after the last
          started,  \* the ring the server was started with, or Broken
          who,      \* both, server, client: which ends are ours; plain: a
                      \* strange client of our server that names no protocol
          request,  \* the records the client sends
          up,       \* the stream to the server
          down,     \* the stream to the client
          server,   \* the thread
          client,   \* the client
          jar,      \* its cookies
          asked,    \* NTP requests under way
          session   \* the server's session for it

keyVars == <<ring, added, floor, now>>
vars == <<ring, added, floor, now, started, who, request, up, down, server, client, jar, asked, session>>

Stream == [q |-> <<>>, closed |-> FALSE]
Halves(recs) == [k \in 1 .. 2 * Len(recs) |-> "half"]
Send(s, items) == [s EXCEPT !.q = @ \o items]
Count(items, x) == Cardinality({k \in DOMAIN items : items[k] = x})

\* Keys are exported from the session by algorithm and direction; what the
\* cookie takes of them is the first 32 bytes.
ExportedKey(alg, dir, cut) == [alg |-> alg, dir |-> dir, cut |-> cut]
KeyCut(alg) == alg = AesSiv512      \* 64 bytes long
TooShort(alg) == alg = AesGcm128    \* 16 bytes long
\* Mutant: the two directions are swapped.
CookieKeysSwapped(alg) == [alg |-> alg, c2s |-> ExportedKey(alg, "s2c", KeyCut(alg)), s2c |-> ExportedKey(alg, "c2s", KeyCut(alg))]
CookieKeys(alg) == [alg |-> alg, c2s |-> ExportedKey(alg, "c2s", KeyCut(alg)), s2c |-> ExportedKey(alg, "s2c", KeyCut(alg))]
ClientKeys == [alg |-> AesSiv256, c2s |-> ExportedKey(AesSiv256, "c2s", FALSE), s2c |-> ExportedKey(AesSiv256, "s2c", FALSE)]

Init == /\ ring = NewRing /\ added = <<>> /\ floor = 0 /\ now = 0 /\ started = Broken
        /\ \/ who = "both" /\ request = OurRequest
           \/ who = "server" /\ request \in Requests
           \/ who \in {"client", "plain"} /\ request = OurRequest
        /\ up = Stream /\ down = Stream
        /\ server = [st |-> "idle", plain |-> 0, got |-> 0, ended |-> FALSE, answer |-> <<>>]
        /\ client = [st |-> "start", got |-> 0, reply |-> <<>>]
        /\ jar = <<>> /\ asked = <<>>
        /\ session = [open |-> FALSE, sequence |-> 0]

-----------------------------------------------------------------------------
(* The owner of the ring.                                                  *)

\* The thread has its copy of the ring: what the owner does while a connection
\* runs commutes with it, and is taken before or after.
Quiet == client.st = "start" \/ (who = "both" /\ client.st = "established")

Rotate ==
  /\ Quiet /\ Len(added) < MaxAdded /\ (who = "both" \/ added = <<>>)
  /\ \E id \in KeyIds : /\ ring' = AddKey(ring, id, Len(added) + 1)
                        /\ added' = Append(added, id)
  /\ UNCHANGED <<floor, now, started, who, request, up, down, server, client, jar, asked, session>>

Prune ==
  /\ Quiet /\ who = "both"
  /\ \E keep \in 0 .. MaxKeys : /\ keep < Len(ring.keys)
                                /\ ring' = PruneKeys(ring, keep)
                                /\ floor' = Len(added) - keep
  /\ UNCHANGED <<added, now, started, who, request, up, down, server, client, jar, asked, session>>

BindIdentity ==
  /\ Quiet /\ who = "both"
  /\ \E i \in {0, 1} : i # ring.identity /\ ring' = [ring EXCEPT !.identity = i]
  /\ UNCHANGED <<added, floor, now, started, who, request, up, down, server, client, jar, asked, session>>

\* start_nts_ke_server, with the ring as it is; the daemon's is empty.
Start ==
  /\ started = Broken /\ who # "client" /\ started' = ring
  /\ server' = [server EXCEPT !.st = "handshake"]
  /\ UNCHANGED <<keyVars, who, request, up, down, client, jar, asked, session>>

-----------------------------------------------------------------------------
(* The thread of a connection.  A step takes what one call of read_tls     *)
(* finds: the first k items, or the end of the stream.                     *)

Rest(s, k) == [s EXCEPT !.q = SubSeq(@, k + 1, Len(@))]

ServerEnds(st) == [server EXCEPT !.st = st]

\* Handshake: hello is answered, the client's last message is followed by a
\* session ticket.  The end of the stream is no error: the loop goes on.
ServerShakes ==
  /\ server.st = "handshake"
  /\ \/ \E k \in DOMAIN up.q :
          LET got == SubSeq(up.q, 1, k) IN
          /\ up' = Rest(up, k)
          /\ down' = Send(down, (IF Count(got, "hello") > 0 THEN <<"flight">> ELSE <<>>)
                                \o (IF Count(got, "finished") > 0 THEN <<"ticket">> ELSE <<>>))
          /\ server' = [server EXCEPT !.plain = Count(got, "half"), !.ended = Count(got, "notify") > 0,
                                      !.st = IF Count(got, "finished") > 0 THEN "read" ELSE @]
     \/ up.q = <<>> /\ up.closed /\ UNCHANGED <<up, down, server>>
  /\ UNCHANGED <<keyVars, started, who, request, client, jar, asked, session>>

\* The protocol of the connection is looked at after the handshake.
ServerRefuses ==
  /\ server.st = "read" /\ who = "plain"
  /\ server' = ServerEnds("failed") /\ down' = [down EXCEPT !.closed = TRUE]
  /\ UNCHANGED <<keyVars, started, who, request, up, client, jar, asked, session>>

HasEnd(n) == \E k \in 1 .. n \div 2 : request[k].type = "eom"

\* The request is complete as far as the reader is concerned.
ReadOver(s) == IF s.got = 0 THEN [s EXCEPT !.st = "failed"] ELSE [s EXCEPT !.st = "request"]

\* Mutant: the end of the stream without a request is waited out.
WaitsAtEnd(s) == IF s.got = 0 THEN s ELSE ReadOver(s)
\* The end of the stream is the end of the request.
AtEnd(s) == ReadOver(s)

\* tls_read_all: what is decrypted is taken first; with an End of Message in
\* it, or after the notice of the end, that is the request.
ServerDrains ==
  /\ server.st = "read" /\ who # "plain" /\ (server.plain > 0 \/ (server.ended /\ server.got > 0))
  /\ LET s == [server EXCEPT !.got = @ + server.plain, !.plain = 0] IN
     server' = IF HasEnd(s.got) \/ server.plain = 0 THEN ReadOver(s) ELSE s
  /\ UNCHANGED <<keyVars, started, who, request, up, down, client, jar, asked, session>>

Drained == server.plain = 0 /\ ~(server.ended /\ server.got > 0)

\* Then more is read: some items, the end, or nothing within 15 seconds,
\* which is the end of the request if there is one, and else no reason to stop.
ServerReads ==
  /\ server.st = "read" /\ who # "plain" /\ Drained
  /\ \/ \E k \in DOMAIN up.q :
          LET got == SubSeq(up.q, 1, k) IN
          up' = Rest(up, k) /\ server' = [server EXCEPT !.plain = Count(got, "half"),
                                                        !.ended = @ \/ Count(got, "notify") > 0]
     \/ up.q = <<>> /\ (up.closed \/ server.ended) /\ server' = AtEnd(server) /\ UNCHANGED up
     \/ up.q = <<>> /\ ~up.closed /\ ~server.ended /\ UNCHANGED up
        /\ server' = IF server.got > 0 THEN ReadOver(server) ELSE server
  /\ UNCHANGED <<keyVars, started, who, request, down, client, jar, asked, session>>

\* The rest of handle_nts_ke_connection: parse, export the keys, seal the
\* cookies, answer, say that this was all, and drop the connection.
ServerAnswers ==
  /\ server.st = "request"
  /\ LET recs == WholeRecords(request, server.got)
         good == ServerAccepts(recs, server.got, Algorithms)
         alg == Chosen(recs, Algorithms)
     IN  IF good /\ ~TooShort(alg) /\ CanSeal(started)
         THEN LET answer == Answer(alg, [k \in 1 .. JarSize |-> Seal(started, CookieKeys(alg), now)])
              IN  /\ server' = [server EXCEPT !.st = "answered", !.answer = answer]
                  /\ down' = [Send(down, Halves(answer) \o <<"notify">>) EXCEPT !.closed = TRUE]
         ELSE server' = ServerEnds("failed") /\ down' = [down EXCEPT !.closed = TRUE]
  /\ UNCHANGED <<keyVars, started, who, request, up, client, jar, asked, session>>

-----------------------------------------------------------------------------
(* The client: ours, or a stranger who may stop at any point.              *)

\* A thread that has ended reads no more.
Says(items) == up' = Send(up, items)

ClientHello ==
  /\ client.st = "start" /\ (who = "client" \/ server.st # "idle")
  /\ IF who = "client" THEN UNCHANGED up ELSE Says(<<"hello">>)
  /\ client' = [client EXCEPT !.st = "hello"]
  /\ UNCHANGED <<keyVars, started, who, request, down, server, jar, asked, session>>

\* Our client's handshake and request; a strange server shakes hands too.
ClientAsks ==
  /\ client.st = "hello" /\ who \in {"both", "client"}
  /\ IF who = "client" THEN UNCHANGED <<up, down>>
     ELSE /\ down.q # <<>> /\ Head(down.q) = "flight"
          /\ down' = Rest(down, 1) /\ Says(<<"finished">> \o Halves(request))
  /\ client' = [client EXCEPT !.st = "reading"]
  /\ UNCHANGED <<keyVars, started, who, request, server, jar, asked, session>>

\* A stranger sends one thing after another.
StrangerSends ==
  /\ who \in {"server", "plain"} /\ client.st \in {"hello", "sending"} /\ ~up.closed
  /\ \/ client.st = "hello" /\ Says(<<"finished">>) /\ client' = [client EXCEPT !.st = "sending"]
     \/ /\ client.st = "sending" /\ client.got < 2 * Len(request)
        /\ Says(<<"half">>) /\ client' = [client EXCEPT !.got = @ + 1]
     \/ client.st = "sending" /\ Says(<<"notify">>) /\ client' = [client EXCEPT !.st = "said"]
  /\ UNCHANGED <<keyVars, started, who, request, down, server, jar, asked, session>>

StrangerLeaves ==
  /\ who \in {"server", "plain"} /\ client.st # "start" /\ ~up.closed
  /\ up' = [up EXCEPT !.closed = TRUE] /\ client' = [client EXCEPT !.st = "gone"]
  /\ UNCHANGED <<keyVars, started, who, request, down, server, jar, asked, session>>

StrangerAnswers ==
  /\ who = "client" /\ client.st = "reading" /\ ~down.closed
  /\ \E a \in Answers : /\ server' = [server EXCEPT !.answer = a]
                        /\ \E n \in 0 .. 2 * Len(a) : \E e \in {<<>>, <<"notify">>} :
                             down' = [q |-> [k \in 1 .. n |-> "half"] \o e, closed |-> TRUE]
  /\ UNCHANGED <<keyVars, started, who, request, up, client, jar, asked, session>>

\* handshake, reading: after every read all that was decrypted is taken, until
\* there is the notice of the end; to find nothing before it is an error.
ClientReads ==
  /\ client.st = "reading"
  /\ \/ \E k \in DOMAIN down.q :
          LET got == SubSeq(down.q, 1, k) IN
          /\ down' = Rest(down, k)
          /\ client' = IF Count(got, "notify") = 0 THEN [client EXCEPT !.st = "failed"]
                       ELSE [client EXCEPT !.got = Count(got, "half"), !.st = "answer"]
     \/ down.q = <<>> /\ down.closed /\ client' = [client EXCEPT !.st = "answer"] /\ UNCHANGED down
     \/ down.q = <<>> /\ ~down.closed /\ client' = [client EXCEPT !.st = "failed"] /\ UNCHANGED down
  /\ UNCHANGED <<keyVars, started, who, request, up, server, jar, asked, session>>

\* The answer is parsed by handshake or, if it came some other way, by
\* handshake_with_data.
ClientChecks ==
  /\ client.st = "answer"
  /\ \E warnings \in BOOLEAN : LET recs == WholeRecords(server.answer, client.got) IN
     IF ClientAccepts(recs, client.got, warnings)
     THEN client' = [client EXCEPT !.st = "established"] /\ jar' = JarOf(CookiesIn(recs))
     ELSE client' = [client EXCEPT !.st = "failed"] /\ UNCHANGED jar
  /\ UNCHANGED <<keyVars, started, who, request, up, down, server, asked, session>>

-----------------------------------------------------------------------------
(* NTP with cookies: the methods as their tests use them.  A request       *)
(* carries the first cookie and is authenticated with the client's key; it *)
(* may be lost, and so may the answer.                                     *)

Ask ==
  /\ who = "both" /\ client.st = "established" /\ jar # <<>> /\ Len(asked) < MaxAsked
  /\ asked' = Append(asked, [cookie |-> Head(jar), fresh |-> Broken, st |-> "sent"])
  /\ jar' = Tail(jar)
  /\ UNCHANGED <<keyVars, started, who, request, up, down, server, client, session>>

\* NtsServerSession of the keys in the cookie: authenticate_request, then
\* protect_response with a fresh cookie and the next number.
Serve(k) ==
  /\ asked[k].st = "sent"
  /\ LET keys == Open(ring, asked[k].cookie) IN
     IF keys # Broken /\ keys.c2s = ClientKeys.c2s /\ CanSeal(ring)
     THEN /\ asked' = [asked EXCEPT ![k].st = "served", ![k].fresh = Seal(ring, keys, now)]
          /\ session' = [open |-> TRUE, sequence |-> session.sequence + 1]
     ELSE asked' = [asked EXCEPT ![k].st = "refused"] /\ UNCHANGED session
  /\ UNCHANGED <<keyVars, started, who, request, up, down, server, client, jar>>

\* Time goes by between the requests of a client.
Day ==
  /\ who = "both" /\ client.st = "established" /\ now < MaxDays /\ now' = now + 1
  /\ UNCHANGED <<ring, added, floor, started, who, request, up, down, server, client, jar, asked, session>>

Receive(k) ==
  /\ asked[k].st = "served"
  /\ jar' = AddCookie(jar, asked[k].fresh)
  /\ asked' = [asked EXCEPT ![k].st = "done"]
  /\ UNCHANGED <<keyVars, started, who, request, up, down, server, client, session>>

-----------------------------------------------------------------------------
Thread == ServerShakes \/ ServerRefuses \/ ServerDrains \/ ServerReads \/ ServerAnswers
Client == ClientHello \/ ClientAsks \/ ClientReads \/ ClientChecks
Stranger == StrangerSends \/ StrangerLeaves \/ StrangerAnswers
Owner == Rotate \/ Prune \/ BindIdentity \/ Start

Next == Thread \/ Client \/ Stranger \/ Owner \/ Ask \/ Day
        \/ (\E k \in DOMAIN asked : Serve(k) \/ Receive(k))

\* The thread is scheduled; clients, owners and the network need do nothing.
Spec == Init /\ [][Next]_vars /\ WF_vars(Thread)

-----------------------------------------------------------------------------
(* Properties.                                                             *)

(* Whatever keys the ring has had, every cookie a client of ours holds,    *)
(* sends or is given holds the keys that the client exported itself, each  *)
(* for its direction (handle_nts_ke_connection, NtsKeClient::handshake,    *)
(* protect_response).                                                      *)
HeldCookies == ToSet(jar) \cup {asked[k].cookie : k \in DOMAIN asked}
               \cup {asked[k].fresh : k \in {j \in DOMAIN asked : asked[j].fresh # Broken}}
KeysAgree == who = "both" => \A c \in HeldCookies : c.plain = ClientKeys

(* A cookie is refused only when the key it was sealed with is one of the  *)
(* pruned, MaxKeys keys were added after it, its number was given again or *)
(* the identity changed, whatever its age: the keys of the ring grow old   *)
(* in the order they were added, and nothing else does (add_key,           *)
(* prune_keys, get_key, CookieCipher::decrypt).                            *)
Outlived(c) == \/ c.key <= floor \/ Len(added) - c.key >= MaxKeys
               \/ \E j \in c.key + 1 .. Len(added) : added[j] = added[c.key]
               \/ c.identity # ring.identity
CookieLife ==
  [][\A k \in DOMAIN asked : asked'[k].st = "refused" /\ asked[k].st = "sent" => Outlived(asked[k].cookie)]_vars

(* What nts_cookie.rs:47-48 says of NTS_COOKIE_MAX_AGE: a cookie sealed    *)
(* longer ago than that is rejected (CookieCipher::decrypt, which checks   *)
(* no age).                                                                *)
OldCookiesRefused ==
  [][\A k \in DOMAIN asked : asked[k].st = "sent" /\ asked'[k].st = "served" => asked[k].cookie.at = now]_vars

(* Neither end acts on a part of a message: the server has answered and    *)
(* the client is established only after an End of Message, however the     *)
(* stream was cut (tls_read_all, process_nts_ke_request, handshake).       *)
EndRead(recs, n) == \E k \in 1 .. n \div 2 : recs[k].type = "eom"
WholeMessages == /\ server.st = "answered" => EndRead(request, server.got)
                 /\ client.st = "established" => EndRead(server.answer, client.got)

(* A thread whose client is gone ends, once the handshake is over, whether *)
(* or not anything was asked (tls_read_all).                               *)
ReaderEnds == (server.st = "read" /\ up.closed) ~> server.st \in {"answered", "failed"}
=============================================================================

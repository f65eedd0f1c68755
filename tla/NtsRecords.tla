----------------------------- MODULE NtsRecords -----------------------------
(***************************************************************************)
(* The records of NTS key establishment and what each side makes of the    *)
(* other's.  A record has a type, the critical bit and a body: the         *)
(* protocol or algorithm numbers in it, with `odd' if a byte is left over, *)
(* or the cookie.  A message is a sequence of records; what has arrived of *)
(* it is counted in halves of a record, so that an odd count leaves bytes  *)
(* that do not decode.                                                     *)
(*                                                                         *)
(* Both parsers give up at the first record they do not like; since they   *)
(* give up in one way, each is the conjunction of what it likes.           *)
(***************************************************************************)
EXTENDS Naturals, Sequences, SequencesExt, FiniteSets

NTPv4 == 0
AesSiv256 == 15       \* the one algorithm the client offers
AesSiv512 == 16
AesGcm128 == 18

Record(type, crit, body) == [type |-> type, crit |-> crit, body |-> body, odd |-> FALSE]

\* decode_all: the whole records of the first n halves, and what is left.
WholeRecords(recs, n) == SubSeq(recs, 1, n \div 2)
Trailing(n) == n % 2 = 1

\* Where the records of a type are.
OfType(recs, type) == {k \in DOMAIN recs : recs[k].type = type}
Listed(r) == r.body # <<>> /\ ~r.odd

(* One critical Next Protocol record of whole numbers.                     *)
OneProtocol(recs) ==
  \E k \in DOMAIN recs : OfType(recs, "protocol") = {k} /\ recs[k].crit /\ Listed(recs[k])

NamesNTPv4(recs) == \E k \in DOMAIN recs : recs[k].type = "protocol" /\ NTPv4 \in ToSet(recs[k].body)

(* One End of Message, critical and empty, after which nothing comes.      *)
EndsOnce(recs, n) ==
  /\ OfType(recs, "eom") = {Len(recs)}
  /\ LET e == Last(recs) IN e.crit /\ e.body = <<>> /\ ~e.odd
  /\ ~Trailing(n)

\* process_nts_ke_request: the records that name an algorithm the server has.
Supports(recs, algs) == {k \in OfType(recs, "aead") : ToSet(recs[k].body) \cap algs # {}}

\* Mutant: nobody looks for the end of the message.
AcceptsUnended(recs, n, algs) ==
  /\ OfType(recs, "error") = {}
  /\ OneProtocol(recs) /\ NamesNTPv4(recs)
  /\ \A k \in DOMAIN recs : recs[k].type = "aead" => Listed(recs[k])
  /\ Supports(recs, algs) # {}
  /\ \A k \in DOMAIN recs : recs[k].crit => recs[k].type \in {"protocol", "aead", "eom", "warning"}
ServerAccepts(recs, n, algs) ==
  /\ OfType(recs, "error") = {}
  /\ OneProtocol(recs) /\ NamesNTPv4(recs)
  /\ \A k \in DOMAIN recs : recs[k].type = "aead" => Listed(recs[k])
  /\ Supports(recs, algs) # {}
  /\ \A k \in DOMAIN recs : recs[k].crit => recs[k].type \in {"protocol", "aead", "eom", "warning"}
  /\ EndsOnce(recs, n)

\* The first algorithm of the client that the server has.
Chosen(recs, algs) ==
  LET k == CHOOSE k \in Supports(recs, algs) : \A j \in Supports(recs, algs) : k <= j
      body == recs[k].body
  IN  body[CHOOSE i \in DOMAIN body : body[i] \in algs /\ \A j \in 1 .. (i - 1) : body[j] \notin algs]

\* build_nts_ke_response
Answer(alg, cookies) ==
  <<Record("protocol", TRUE, <<NTPv4>>), Record("aead", FALSE, <<alg>>)>>
  \o [k \in DOMAIN cookies |-> Record("cookie", FALSE, <<cookies[k]>>)]
  \o <<Record("eom", TRUE, <<>>)>>

\* The request of our client.
OurRequest == <<Record("protocol", TRUE, <<NTPv4>>), Record("aead", TRUE, <<AesSiv256>>), Record("eom", TRUE, <<>>)>>

(* NtsKeClient::handshake.  A warning is no reason to give up, unless it   *)
(* is critical; the other parser of the client, handshake_with_data, takes *)
(* that too (warnings are TRUE).                                           *)
ClientAccepts(recs, n, warnings) ==
  /\ OfType(recs, "error") = {}
  /\ \A k \in DOMAIN recs :
       recs[k].crit => \/ recs[k].type \in {"protocol", "aead", "cookie", "eom"}
                       \/ warnings /\ recs[k].type = "warning"
  /\ OneProtocol(recs) /\ NamesNTPv4(recs)
  /\ \E k \in DOMAIN recs : OfType(recs, "aead") = {k} /\ recs[k].body = <<AesSiv256>> /\ ~recs[k].odd
  /\ OfType(recs, "cookie") # {}
  /\ EndsOnce(recs, n)

\* The cookies in the order of their records.
CookiesIn(recs) ==
  LET at == OfType(recs, "cookie") IN
  [n \in 1 .. Cardinality(at) |->
     recs[CHOOSE k \in at : Cardinality({j \in at : j <= k}) = n].body[1]]
=============================================================================

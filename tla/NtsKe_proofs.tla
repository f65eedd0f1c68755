----------------------------- MODULE NtsKe_proofs -----------------------------
(***************************************************************************)
(* Proofs about NtsKe, for every ring size, jar size, request, answer and  *)
(* cut of the streams: neither end acts on a part of a message, what the   *)
(* cookies of our client hold are the keys it exported itself, and a       *)
(* cookie is refused only when its key or identity has gone.               *)
(***************************************************************************)
EXTENDS NtsKe, TLAPS, FiniteSetTheorems, SequenceTheorems, WellFoundedInduction

------------------------------------------------------------------------------
(* The inductive invariant. *)

Items == {"hello", "flight", "finished", "ticket", "half", "notify"}
Key == [id : KeyIds, key : Nat]
SealedCookie == [id : KeyIds, key : Nat, identity : {0, 1}, plain : {ClientKeys}, at : Nat]
AskedRequest == [cookie : SealedCookie, fresh : SealedCookie \cup {Broken},
                 st : {"sent", "served", "refused", "done"}]

TypeInv ==
  /\ who \in {"both", "server", "client", "plain"}
  /\ Len(request) \in Nat /\ now \in Nat
  /\ up \in [q : Seq(Items), closed : BOOLEAN]
  /\ down \in [q : Seq(Items), closed : BOOLEAN]
  /\ server = [st |-> server.st, plain |-> server.plain, got |-> server.got,
               ended |-> server.ended, answer |-> server.answer]
  /\ server.plain \in Nat /\ server.got \in Nat
  /\ client = [st |-> client.st, got |-> client.got, reply |-> client.reply]
  /\ client.got \in Nat

\* The keys are those added last, each with its number and its place.
AreLatest(keys, ids) ==
  LET gone == Len(ids) - Len(keys) IN
  \A j \in 1 .. Len(keys) : keys[j] = [id |-> ids[gone + j], key |-> gone + j]

\* The ring holds the keys added last, in their order; the others were pruned
\* or did not fit.
RingInv ==
  /\ added \in Seq(KeyIds) /\ floor \in Nat
  /\ ring \in [keys : Seq(Key), identity : {0, 1}]
  /\ LET kept == Len(ring.keys) IN
     /\ kept <= MaxKeys /\ kept <= Len(added)
     /\ kept = MaxKeys \/ Len(added) - kept <= floor
  /\ AreLatest(ring.keys, added)

\* The key was added under this number.
Numbered(c) == c.key \in 1 .. Len(added) /\ c.id = added[c.key]

StartedInv ==
  /\ \/ started = Broken
     \/ /\ started \in [keys : Seq(Key), identity : {0, 1}]
        /\ \A j \in DOMAIN started.keys : Numbered(started.keys[j])
  /\ server.st # "idle" => started # Broken /\ who # "client"

\* The answer of our server to our client.
OwnAnswer(c) == Answer(AesSiv256, [k \in 1 .. JarSize |-> c])

MessageInv ==
  /\ WholeMessages
  /\ who \in {"server", "plain"} => client.st \in {"start", "hello", "sending", "said", "gone"}
  /\ who = "both" =>
       /\ request = OurRequest
       /\ client.st = "established" => server.st = "answered"
       /\ IF server.st = "answered"
          THEN \E c \in SealedCookie : Numbered(c) /\ server.answer = OwnAnswer(c)
          ELSE down.q \in Seq(Items \ {"half"}) /\ client.got = 0

\* The cookies of a request are numbered; one that was served has a fresh one.
WellCookied(a) == /\ Numbered(a.cookie)
                  /\ a.fresh # Broken => Numbered(a.fresh)
                  /\ a.st = "served" => a.fresh # Broken

CookieInv ==
  /\ asked \in Seq(AskedRequest)
  /\ who # "both" => asked = <<>>
  /\ \A k \in DOMAIN asked : WellCookied(asked[k])
  /\ who = "both" => jar \in Seq(SealedCookie) /\ \A i \in DOMAIN jar : Numbered(jar[i])

IInv == TypeInv /\ RingInv /\ StartedInv /\ MessageInv /\ CookieInv
------------------------------------------------------------------------------
(* Lemmas about sequences and places. *)

\* Every nonempty set of naturals has a least element.
LEMMA LeastNat ==
  ASSUME NEW S \in SUBSET Nat, S # {}
  PROVE  \E k \in S : \A j \in S : k <= j
<1>1. PICK k \in S : \A j \in S : <<j, k>> \notin OpToRel(<, Nat)
  BY NatLessThanWellFounded, WFMin
<1>2. ASSUME NEW j \in S PROVE ~(j < k)
  <2>1. j < k => <<j, k>> \in OpToRel(<, Nat)
    BY DEF OpToRel
  <2>2. QED
    BY <1>1, <2>1
<1>3. QED
  BY <1>2

\* A nonempty set of places of a sequence has a first and a last one.
LEMMA FirstPlace ==
  ASSUME NEW m \in Nat, NEW S \in SUBSET (1 .. m), S # {}
  PROVE  /\ \E k \in S : \A j \in S : k <= j
         /\ \E k \in S : \A j \in S : j <= k
<1>1. S \in SUBSET Nat
  OBVIOUS
<1>2. \E k \in S : \A j \in S : k <= j
  BY <1>1, LeastNat
<1> DEFINE T == {m - k : k \in S}
<1>3. T \in SUBSET Nat /\ T # {}
  BY <1>1
<1>4. PICK t \in T : \A u \in T : t <= u
  <2> HIDE DEF T
  <2>1. QED
    BY <1>3, LeastNat
<1>5. PICK k \in S : t = m - k
  OBVIOUS
<1>6. ASSUME NEW j \in S PROVE j <= k
  <2>1. m - k <= m - j /\ j \in Nat /\ k \in Nat
    BY <1>1, <1>4, <1>5
  <2>2. QED
    BY <2>1
<1>7. QED
  BY <1>2, <1>6

\* Counting is finite, and a part of a stream is a stream.
LEMMA CountIsNat ==
  ASSUME NEW S, NEW s \in Seq(S), NEW x
  PROVE  Count(s, x) \in Nat /\ (s \in Seq(S \ {x}) => Count(s, x) = 0)
<1>1. Len(s) \in Nat /\ DOMAIN s = 1 .. Len(s)
  BY LenProperties
<1>2. IsFiniteSet(1 .. Len(s))
  BY <1>1, FS_Interval
<1>3. IsFiniteSet({k \in DOMAIN s : s[k] = x})
  BY <1>1, <1>2, FS_Subset
<1>4. s \in Seq(S \ {x}) => {k \in DOMAIN s : s[k] = x} = {}
  <2>1. s \in Seq(S \ {x}) => \A k \in 1 .. Len(s) : s[k] \in S \ {x}
    BY ElementOfSeq
  <2>2. QED
    BY <1>1, <2>1
<1>5. QED
  BY <1>3, <1>4, FS_CardinalityType, FS_EmptySet DEF Count

LEMMA FirstPart ==
  ASSUME NEW S, NEW s \in Seq(S), NEW k \in DOMAIN s
  PROVE  SubSeq(s, 1, k) \in Seq(S) /\ SubSeq(s, k + 1, Len(s)) \in Seq(S)
<1>1. Len(s) \in Nat /\ DOMAIN s = 1 .. Len(s) /\ \A i \in 1 .. Len(s) : s[i] \in S
  BY LenProperties, ElementOfSeq
<1>2. k \in Int /\ 1 <= k /\ k <= Len(s) /\ k + 1 \in Int /\ 1 \in Int /\ Len(s) \in Int
  BY <1>1
<1>3. (\A i \in 1 .. k : s[i] \in S) /\ (\A i \in (k + 1) .. Len(s) : s[i] \in S)
  BY <1>1, <1>2
<1>4. SubSeq(s, 1, k) \in Seq(S)
  BY <1>2, <1>3, SubSeqProperties
<1>5. SubSeq(s, k + 1, Len(s)) \in Seq(S)
  BY <1>2, <1>3, SubSeqProperties
<1>6. QED
  BY <1>4, <1>5

LEMMA HalvesAreHalf ==
  ASSUME NEW recs, Len(recs) \in Nat
  PROVE  Halves(recs) \in Seq({"half"})
<1> DEFINE n == 2 * Len(recs)
           e(i) == "half"
<1>1. n \in Nat
  OBVIOUS
<1>2. \A i \in 1 .. n : e(i) \in {"half"}
  OBVIOUS
<1>3. Halves(recs) = [i \in 1 .. n |-> e(i)]
  BY DEF Halves
<1> HIDE DEF n, e
<1>4. QED
  BY <1>1, <1>2, <1>3, IsASeq

\* A typed stream is typed over more items.
LEMMA MoreItems ==
  ASSUME NEW S, NEW T, S \subseteq T, NEW s \in Seq(S)
  PROVE  s \in Seq(T)
BY SeqMonotonic

\* What decodes of a message are its first records.
LEMMA WholeRecordsAre ==
  ASSUME NEW recs, NEW n \in Nat
  PROVE  /\ n \div 2 \in Nat
         /\ DOMAIN WholeRecords(recs, n) = 1 .. (n \div 2)
         /\ Len(WholeRecords(recs, n)) = n \div 2
         /\ \A i \in 1 .. (n \div 2) : WholeRecords(recs, n)[i] = recs[i]
<1> DEFINE m == n \div 2
           S == {recs[i] : i \in 1 .. m}
<1>1. m \in Nat
  OBVIOUS
<1> HIDE DEF m
<1>2. \A i \in 1 .. m : recs[i] \in S
  OBVIOUS
<1> HIDE DEF S
<1>3. /\ SubSeq(recs, 1, m) \in Seq(S)
      /\ Len(SubSeq(recs, 1, m)) = IF 1 <= m THEN m - 1 + 1 ELSE 0
      /\ \A i \in 1 .. (m - 1 + 1) : SubSeq(recs, 1, m)[i] = recs[1 + i - 1]
  BY <1>1, <1>2, SubSeqProperties
<1>4. Len(SubSeq(recs, 1, m)) = m /\ m - 1 + 1 = m /\ \A i \in 1 .. m : 1 + i - 1 = i
  BY <1>1, <1>3
<1>5. DOMAIN SubSeq(recs, 1, m) = 1 .. m
  BY <1>3, <1>4, LenProperties
<1>6. \A i \in 1 .. m : SubSeq(recs, 1, m)[i] = recs[i]
  BY <1>3, <1>4
<1>7. QED
  BY <1>1, <1>4, <1>5, <1>6 DEF WholeRecords, m

\* Whoever accepts a message has read its End of Message.
LEMMA EndIsRead ==
  ASSUME NEW recs, NEW n \in Nat, EndsOnce(WholeRecords(recs, n), n)
  PROVE  EndRead(recs, n) /\ n # 0
<1> DEFINE r == WholeRecords(recs, n)
           m == n \div 2
<1>1. m \in Nat /\ DOMAIN r = 1 .. m /\ Len(r) = m /\ \A i \in 1 .. m : r[i] = recs[i]
  BY WholeRecordsAre
<1>2. m \in OfType(r, "eom")
  BY <1>1 DEF EndsOnce
<1>3. m \in 1 .. m /\ recs[m].type = "eom"
  BY <1>1, <1>2 DEF OfType
<1>4. 0 \div 2 = 0
  OBVIOUS
<1>5. QED
  BY <1>3, <1>4 DEF EndRead

\* The n-th place of a set of places.
LEMMA NthPlace ==
  ASSUME NEW m \in Nat, NEW S \in SUBSET (1 .. m), NEW n \in 1 .. Cardinality(S)
  PROVE  \E k \in S : Cardinality({j \in S : j <= k}) = n
<1> DEFINE Upto(k) == {j \in S : j <= k}
           T == {k \in 0 .. m : Cardinality(Upto(k)) >= n}
<1>1. IsFiniteSet(S) /\ \A j \in S : j \in Int /\ 1 <= j /\ j <= m
  <2>1. IsFiniteSet(1 .. m)
    BY FS_Interval
  <2>2. IsFiniteSet(S)
    BY <2>1, FS_Subset
  <2>3. ASSUME NEW j \in S PROVE j \in Int /\ 1 <= j /\ j <= m
    <3>1. j \in 1 .. m
      OBVIOUS
    <3>2. QED
      BY <3>1
  <2>4. QED
    BY <2>2, <2>3
<1>2. ASSUME NEW k PROVE IsFiniteSet(Upto(k)) /\ Cardinality(Upto(k)) \in Nat
  <2>1. Upto(k) \subseteq S
    OBVIOUS
  <2>2. QED
    BY <1>1, <2>1, FS_Subset, FS_CardinalityType
<1>3. Upto(m) = S /\ Upto(0) = {}
  <2>1. \A j \in S : j <= m /\ ~(j <= 0)
    BY <1>1
  <2>2. QED
    BY <2>1
<1>4. Cardinality(S) \in Nat /\ n \in Nat /\ n >= 1 /\ Cardinality(S) >= n
  <2>1. Cardinality(S) \in Nat
    BY <1>1, FS_CardinalityType
  <2>2. QED
    BY <2>1
<1>5. T \in SUBSET Nat /\ m \in T
  BY <1>3, <1>4
<1>6. PICK k \in T : \A j \in T : k <= j
  <2> HIDE DEF T
  <2>1. QED
    BY <1>5, LeastNat
<1>7. Cardinality(Upto(0)) = 0
  BY <1>3, FS_EmptySet
<1>8. k \in 0 .. m /\ Cardinality(Upto(k)) >= n
  BY <1>6
<1>9. k # 0
  BY <1>4, <1>7, <1>8
<1>10. k \in 1 .. m /\ k - 1 \in 0 .. m /\ k \in Int
  <2>1. k \in 0 .. m
    BY <1>8
  <2> HIDE DEF T
  <2>2. QED
    BY <1>9, <2>1
<1>11. k - 1 \notin T
  <2> HIDE DEF T
  <2>1. k - 1 \in T => k <= k - 1
    BY <1>6
  <2>2. ~(k <= k - 1)
    BY <1>10
  <2>3. QED
    BY <2>1, <2>2
<1>12. ~(Cardinality(Upto(k - 1)) >= n)
  BY <1>10, <1>11
<1>13. \A j \in S : j <= k <=> j <= k - 1 \/ j = k
  BY <1>1, <1>10
<1>14. k \in S
  <2>1. k \notin S => Upto(k) = Upto(k - 1)
    BY <1>13
  <2>2. QED
    BY <1>8, <1>12, <2>1
<1>15. Upto(k) = Upto(k - 1) \cup {k} /\ k \notin Upto(k - 1)
  <2>1. ~(k <= k - 1) /\ k <= k
    BY <1>10
  <2>2. QED
    BY <1>13, <1>14, <2>1
<1>16. Cardinality(Upto(k)) = Cardinality(Upto(k - 1)) + 1
  <2>1. IsFiniteSet(Upto(k - 1))
    BY <1>2
  <2> HIDE DEF Upto
  <2>2. QED
    BY <1>15, <2>1, FS_AddElement
<1>17. Cardinality(Upto(k)) = n
  <2> DEFINE a == Cardinality(Upto(k))
             b == Cardinality(Upto(k - 1))
  <2>1. a \in Nat /\ b \in Nat
    BY <1>2
  <2> HIDE DEF a, b
  <2>2. a >= n /\ ~(b >= n) /\ a = b + 1
    BY <1>8, <1>12, <1>16 DEF a, b
  <2>3. a = n
    BY <1>4, <2>1, <2>2
  <2>4. QED
    BY <2>3 DEF a
<1>18. QED
  BY <1>14, <1>17
------------------------------------------------------------------------------
(* Lemmas about the messages of both ends. *)

\* The answer of a server: two records, its cookies and the end, which comes
\* once.
LEMMA AnswerShape ==
  ASSUME NEW alg, NEW c, NEW a, a = Answer(alg, [k \in 1 .. JarSize |-> c])
  PROVE  /\ Len(a) = JarSize + 3 /\ Len(a) \in Nat
         /\ a[JarSize + 3].type = "eom"
         /\ \A i \in 1 .. (JarSize + 3) : a[i].type = "cookie" => a[i].body = <<c>>
<1> DEFINE p == <<Record("protocol", TRUE, <<NTPv4>>), Record("aead", FALSE, <<alg>>)>>
           cookie == Record("cookie", FALSE, <<c>>)
           e == Record("eom", TRUE, <<>>)
           S == {p[1], p[2], cookie, e}
           at(i) == cookie
           cs == [i \in 1 .. JarSize |-> at(i)]
           t == <<e>>
<1>1. JarSize \in Nat
  BY CookieAssumption
<1>2. a = p \o cs \o t
  <2> DEFINE cookies == [k \in 1 .. JarSize |-> c]
  <2>1. DOMAIN cookies = 1 .. JarSize /\ \A k \in 1 .. JarSize : cookies[k] = c
    OBVIOUS
  <2>2. [k \in DOMAIN cookies |-> Record("cookie", FALSE, <<cookies[k]>>)] = cs
    BY <2>1
  <2>3. QED
    BY <2>2 DEF Answer
<1>3. p \in Seq(S) /\ Len(p) = 2 /\ t \in Seq(S) /\ Len(t) = 1 /\ t[1] = e
  OBVIOUS
<1>4. p[1].type = "protocol" /\ p[2].type = "aead" /\ e.type = "eom"
      /\ cookie.type = "cookie" /\ cookie.body = <<c>>
  BY DEF Record
<1> HIDE DEF p, cookie, e, t
<1>5. \A i \in 1 .. JarSize : at(i) \in S
  OBVIOUS
<1>6. cs \in Seq(S)
  <2> HIDE DEF S, at
  <2>1. QED
    BY <1>1, <1>5, IsASeq
<1>7. Len(cs) = JarSize /\ \A i \in 1 .. JarSize : cs[i] = cookie
  BY <1>1, <1>6, LenProperties
<1> HIDE DEF cs, S
<1>8. /\ p \o cs \in Seq(S) /\ Len(p \o cs) = 2 + JarSize
      /\ \A i \in 1 .. (2 + JarSize) : (p \o cs)[i] = IF i <= 2 THEN p[i] ELSE cs[i - 2]
  <2> DEFINE l == Len(p)
             n == Len(cs)
  <2>1. /\ p \o cs \in Seq(S) /\ Len(p \o cs) = l + n
        /\ \A i \in 1 .. (l + n) : (p \o cs)[i] = IF i <= l THEN p[i] ELSE cs[i - l]
    BY <1>3, <1>6, ConcatProperties
  <2>2. l = 2 /\ n = JarSize
    BY <1>3, <1>7
  <2> HIDE DEF l, n
  <2>3. QED
    BY <2>1, <2>2
<1>9. /\ Len(a) = JarSize + 3
      /\ \A i \in 1 .. (JarSize + 3) :
           a[i] = IF i <= JarSize + 2 THEN (p \o cs)[i] ELSE t[i - (JarSize + 2)]
  <2> DEFINE u == p \o cs
             l == Len(u)
             n == Len(t)
  <2>1. u \in Seq(S)
    BY <1>8
  <2>2. l = 2 + JarSize /\ n = 1
    BY <1>3, <1>8
  <2> HIDE DEF u
  <2>3. /\ Len(u \o t) = l + n
        /\ \A i \in 1 .. (l + n) : (u \o t)[i] = IF i <= l THEN u[i] ELSE t[i - l]
    BY <1>3, <2>1, ConcatProperties
  <2> HIDE DEF l, n
  <2>4. l + n = JarSize + 3 /\ l = JarSize + 2
    BY <1>1, <2>2
  <2>5. a = u \o t
    BY <1>2 DEF u
  <2>6. QED
    BY <2>3, <2>4, <2>5 DEF u
<1>10. \A i \in 1 .. (JarSize + 3) :
          a[i] = IF i = 1 THEN p[1] ELSE IF i = 2 THEN p[2]
                 ELSE IF i = JarSize + 3 THEN e ELSE cookie
  <2> SUFFICES ASSUME NEW i \in 1 .. (JarSize + 3)
               PROVE  a[i] = IF i = 1 THEN p[1] ELSE IF i = 2 THEN p[2]
                             ELSE IF i = JarSize + 3 THEN e ELSE cookie
    OBVIOUS
  <2>1. CASE i <= 2
    <3>1. i \in 1 .. (2 + JarSize) /\ i <= JarSize + 2 /\ i # JarSize + 3 /\ (i = 1 \/ i = 2)
      BY <1>1, <2>1
    <3>2. a[i] = p[i]
      BY <1>8, <1>9, <2>1, <3>1
    <3>3. QED
      BY <3>1, <3>2
  <2>2. CASE i > 2 /\ i <= JarSize + 2
    <3>1. i - 2 \in 1 .. JarSize /\ i \in 1 .. (2 + JarSize) /\ ~(i <= 2) /\ i # JarSize + 3
      BY <1>1, <2>2
    <3>2. a[i] = cs[i - 2]
      BY <1>8, <1>9, <2>2, <3>1
    <3>3. QED
      BY <1>7, <2>2, <3>1, <3>2
  <2>3. CASE i = JarSize + 3
    <3>1. i - (JarSize + 2) = 1 /\ ~(i <= JarSize + 2) /\ i # 1 /\ i # 2
      BY <1>1, <2>3
    <3>2. QED
      BY <1>3, <1>9, <2>3, <3>1
  <2>4. QED
    BY <1>1, <2>1, <2>2, <2>3
<1>11. JarSize + 3 \in 1 .. (JarSize + 3) /\ JarSize + 3 # 1 /\ JarSize + 3 # 2
       /\ JarSize + 3 \in Nat
  BY <1>1
<1>12. QED
  BY <1>4, <1>9, <1>10, <1>11

\* What our client puts in its jar are the cookies of the answer.
LEMMA JarOfAnswer ==
  ASSUME NEW c, NEW n \in Nat, NEW warnings, NEW recs,
         recs = WholeRecords(OwnAnswer(c), n), ClientAccepts(recs, n, warnings)
  PROVE  JarOf(CookiesIn(recs)) \in Seq({c})
<1> DEFINE a == OwnAnswer(c)
           m == n \div 2
           at == OfType(recs, "cookie")
           last == JarSize + 3
<1>1. /\ last \in Nat /\ Len(a) = last /\ a[last].type = "eom"
      /\ \A i \in 1 .. last : a[i].type = "cookie" => a[i].body = <<c>>
  BY AnswerShape DEF OwnAnswer
<1>2. m \in Nat /\ DOMAIN recs = 1 .. m /\ Len(recs) = m /\ \A i \in 1 .. m : recs[i] = a[i]
  BY WholeRecordsAre
<1> HIDE DEF a, m, last
<1>3. OfType(recs, "eom") = {m}
  BY <1>2 DEF ClientAccepts, EndsOnce
<1>4. m <= last
  <2>1. m > last => last \in 1 .. m
    BY <1>1, <1>2, CookieAssumption DEF last
  <2>2. last \in 1 .. m => last \in OfType(recs, "eom")
    BY <1>1, <1>2 DEF OfType
  <2>3. QED
    BY <1>1, <1>2, <1>3, <2>1, <2>2
<1>5. at \in SUBSET (1 .. m) /\ \A k \in at : recs[k].body = <<c>>
  <2>1. \A k \in 1 .. m : k \in 1 .. last
    BY <1>1, <1>2, <1>4
  <2>2. QED
    BY <1>1, <1>2, <2>1 DEF OfType
<1>6. Cardinality(at) \in Nat
  <2>1. IsFiniteSet(1 .. m)
    BY <1>2, FS_Interval
  <2>2. QED
    BY <1>5, <2>1, FS_Subset, FS_CardinalityType
<1> DEFINE cs == CookiesIn(recs)
           nth(i) == recs[CHOOSE k \in at : Cardinality({j \in at : j <= k}) = i].body[1]
<1>7. cs = [i \in 1 .. Cardinality(at) |-> nth(i)]
  BY DEF CookiesIn
<1>8. ASSUME NEW i \in 1 .. Cardinality(at) PROVE nth(i) = c
  <2>1. \E k \in at : Cardinality({j \in at : j <= k}) = i
    <3> HIDE DEF at
    <3>1. QED
      BY <1>2, <1>5, NthPlace
  <2>2. (CHOOSE k \in at : Cardinality({j \in at : j <= k}) = i) \in at
    BY <2>1
  <2>3. <<c>>[1] = c
    OBVIOUS
  <2>4. QED
    BY <1>5, <2>2, <2>3
<1> DEFINE q == Cardinality(at)
<1>9. q \in Nat /\ cs = [i \in 1 .. q |-> nth(i)] /\ \A i \in 1 .. q : nth(i) \in {c}
  BY <1>6, <1>7, <1>8
<1> HIDE DEF q, nth, at, cs
<1>10. cs \in Seq({c})
  BY <1>9, IsASeq
<1>11. Len(cs) = q /\ \A i \in 1 .. q : cs[i] = c
  BY <1>9, <1>10, LenProperties
<1> DEFINE l == IF q < JarSize THEN q ELSE JarSize
           kept(i) == cs[i]
<1>12. l \in Nat /\ l <= q
  BY <1>9, CookieAssumption
<1>13. \A i \in 1 .. l : kept(i) \in {c}
  BY <1>9, <1>11, <1>12
<1>14. JarOf(cs) = [i \in 1 .. l |-> kept(i)]
  BY <1>11 DEF JarOf
<1> HIDE DEF l, kept
<1>15. JarOf(cs) \in Seq({c})
  BY <1>12, <1>13, <1>14, IsASeq
<1>16. QED
  BY <1>15 DEF cs

\* Our client offers one algorithm; the server that accepts it has it, and
\* chooses it.
LEMMA OurAlgorithm ==
  ASSUME NEW n \in Nat, NEW recs, recs = WholeRecords(OurRequest, n),
         ServerAccepts(recs, n, Algorithms)
  PROVE  Chosen(recs, Algorithms) = AesSiv256
<1> DEFINE m == n \div 2
           S == Supports(recs, Algorithms)
<1>1. m \in Nat /\ DOMAIN recs = 1 .. m /\ Len(recs) = m /\ \A i \in 1 .. m : recs[i] = OurRequest[i]
  BY WholeRecordsAre
<1> HIDE DEF m
<1>2. /\ OurRequest[1].type = "protocol" /\ OurRequest[2].type = "aead"
      /\ OurRequest[2].body = <<AesSiv256>> /\ OurRequest[3].type = "eom"
  BY DEF OurRequest, Record
<1>3. OfType(recs, "eom") = {m}
  BY <1>1 DEF ServerAccepts, EndsOnce
<1>4. m <= 3
  <2>1. m > 3 => 3 \in 1 .. m /\ 3 # m
    BY <1>1
  <2>2. 3 \in 1 .. m => 3 \in OfType(recs, "eom")
    BY <1>1, <1>2 DEF OfType
  <2>3. QED
    BY <1>1, <1>3, <2>1, <2>2
<1>5. \A k \in S : k = 2
  <2> SUFFICES ASSUME NEW k \in S PROVE k = 2
    OBVIOUS
  <2>1. k \in 1 .. m /\ OurRequest[k].type = "aead"
    BY <1>1 DEF Supports, OfType
  <2>2. k = 1 \/ k = 2 \/ k = 3
    BY <1>1, <1>4, <2>1
  <2>3. QED
    BY <1>2, <2>1, <2>2
<1>6. S # {} /\ S \in SUBSET (1 .. m)
  BY <1>1 DEF ServerAccepts, Supports, OfType
<1>7. (CHOOSE k \in S : \A j \in S : k <= j) = 2
  <2>1. S = {2}
    BY <1>5, <1>6
  <2>2. QED
    BY <2>1
<1>8. recs[2].body = <<AesSiv256>> /\ AesSiv256 \in Algorithms
  <2>1. 2 \in S
    BY <1>5, <1>6
  <2>2. 2 \in 1 .. m /\ ToSet(recs[2].body) \cap Algorithms # {}
    BY <1>1, <2>1 DEF Supports, OfType
  <2>3. recs[2].body = <<AesSiv256>>
    BY <1>1, <1>2, <2>2
  <2>4. ToSet(<<AesSiv256>>) = {AesSiv256}
    BY DEF ToSet
  <2>5. QED
    BY <2>2, <2>3, <2>4
<1> DEFINE body == <<AesSiv256>>
           first == CHOOSE i \in DOMAIN body : /\ body[i] \in Algorithms
                                               /\ \A j \in 1 .. (i - 1) : body[j] \notin Algorithms
<1>9. DOMAIN body = {1} /\ body[1] = AesSiv256
  OBVIOUS
<1>10. first = 1
  <2>1. \A j \in 1 .. (1 - 1) : body[j] \notin Algorithms
    OBVIOUS
  <2> HIDE DEF body
  <2>2. QED
    BY <1>8, <1>9, <2>1
<1>11. Chosen(recs, Algorithms) = body[first]
  BY <1>7, <1>8 DEF Chosen
<1>12. QED
  BY <1>9, <1>10, <1>11
------------------------------------------------------------------------------
(* The ring. *)

Ring == [keys : Seq(Key), identity : {0, 1}]

\* Keys numbered in the order they were added keep their numbers when the
\* oldest are dropped.
LEMMA LastKeysAre ==
  ASSUME NEW r \in Ring, NEW n \in Nat, NEW ids, Len(ids) \in Nat,
         Len(r.keys) <= Len(ids), AreLatest(r.keys, ids), NEW q, q = LastKeys(r, n)
  PROVE  /\ q \in Ring /\ Len(q.keys) = IF Len(r.keys) > n THEN n ELSE Len(r.keys)
         /\ AreLatest(q.keys, ids)
<1> DEFINE s == r.keys
           l == Len(s)
           total == Len(ids)
<1>1. /\ s \in Seq(Key) /\ l \in Nat /\ r = [keys |-> s, identity |-> r.identity]
      /\ r.identity \in {0, 1} /\ total \in Nat
  BY LenProperties DEF Ring
<1>2. \A i \in 1 .. l : s[i] \in Key
  BY <1>1, ElementOfSeq
<1>3. CASE ~(l > n)
  <2>1. q = r
    BY <1>1, <1>3 DEF LastKeys
  <2>2. QED
    BY <1>3, <2>1
<1>4. CASE l > n
  <2> DEFINE k == SubSeq(s, l - n + 1, l)
  <2>1. q = [keys |-> k, identity |-> r.identity]
    BY <1>1, <1>4 DEF LastKeys
  <2>2. \A i \in 1 .. l : s[i] = [id |-> ids[total - l + i], key |-> total - l + i]
    BY DEF AreLatest
  <2> HIDE DEF s, l, total
  <2>3. l - n + 1 \in Int /\ l \in Int /\ \A i \in (l - n + 1) .. l : i \in 1 .. l
    BY <1>1, <1>4
  <2>4. \A i \in (l - n + 1) .. l : s[i] \in Key
    BY <1>2, <2>3
  <2>5. /\ k \in Seq(Key)
        /\ Len(k) = IF l - n + 1 <= l THEN l - (l - n + 1) + 1 ELSE 0
        /\ \A i \in 1 .. (l - (l - n + 1) + 1) : k[i] = s[l - n + 1 + i - 1]
    BY <2>3, <2>4, SubSeqProperties
  <2>6. /\ l - (l - n + 1) + 1 = n /\ (~(l - n + 1 <= l) => n = 0)
        /\ \A i \in 1 .. n : l - n + 1 + i - 1 = l - n + i /\ l - n + i \in 1 .. l
    BY <1>1, <1>4
  <2>7. Len(k) = n /\ \A i \in 1 .. n : k[i] = s[l - n + i]
    BY <2>5, <2>6
  <2>8. \A i \in 1 .. n : total - l + (l - n + i) = total - n + i
    BY <1>1
  <2>9. \A i \in 1 .. n : k[i] = [id |-> ids[total - n + i], key |-> total - n + i]
    BY <2>2, <2>6, <2>7, <2>8
  <2>10. AreLatest(k, ids)
    BY <2>7, <2>9 DEF AreLatest, total
  <2> HIDE DEF k
  <2>11. q.keys = k /\ q \in Ring
    BY <1>1, <2>1, <2>5 DEF Ring
  <2>12. QED
    BY <1>4, <2>7, <2>10, <2>11 DEF l, s
<1>5. QED
  BY <1>3, <1>4

\* Numbers given stay given.
LEMMA AddedGrows ==
  ASSUME added \in Seq(KeyIds), NEW id \in KeyIds, added' = Append(added, id)
  PROVE  /\ added' \in Seq(KeyIds) /\ Len(added') = Len(added) + 1 /\ Len(added) \in Nat
         /\ \A i \in 1 .. Len(added) : added'[i] = added[i]
         /\ added'[Len(added) + 1] = id
         /\ \A c : Numbered(c) => Numbered(c)'
<1>1. /\ added' \in Seq(KeyIds) /\ Len(added') = Len(added) + 1 /\ Len(added) \in Nat
      /\ \A i \in 1 .. Len(added) : added'[i] = added[i]
      /\ added'[Len(added) + 1] = id
  BY AppendProperties, LenProperties
<1>2. \A i \in 1 .. Len(added) : i \in 1 .. Len(added')
  BY <1>1
<1>3. \A c : Numbered(c) => Numbered(c)'
  BY <1>1, <1>2 DEF Numbered
<1>4. QED
  BY <1>1, <1>3

LEMMA RotateStep == IInv /\ Rotate => IInv'
<1> SUFFICES ASSUME IInv, Rotate PROVE IInv'
  OBVIOUS
<1>1. PICK id \in KeyIds : /\ ring' = AddKey(ring, id, Len(added) + 1)
                           /\ added' = Append(added, id)
  BY DEF Rotate
<1>2. UNCHANGED <<floor, now, started, who, request, up, down, server, client, jar, asked>>
  BY DEF Rotate
<1>3. /\ added' \in Seq(KeyIds) /\ Len(added') = Len(added) + 1 /\ Len(added) \in Nat
      /\ \A i \in 1 .. Len(added) : added'[i] = added[i]
      /\ added'[Len(added) + 1] = id
      /\ \A c : Numbered(c) => Numbered(c)'
  BY <1>1, AddedGrows DEF IInv, RingInv
<1> DEFINE s == ring.keys
           l == Len(s)
           total == Len(added)
           e == [id |-> id, key |-> total + 1]
           t == Append(s, e)
           r == [keys |-> t, identity |-> ring.identity]
<1>4. /\ s \in Seq(Key) /\ l \in Nat /\ ring.identity \in {0, 1} /\ l <= MaxKeys /\ l <= total
      /\ ring = [keys |-> s, identity |-> ring.identity]
      /\ l = MaxKeys \/ total - l <= floor
      /\ floor \in Nat /\ MaxKeys \in Nat /\ total \in Nat
      /\ \A j \in 1 .. l : s[j] = [id |-> added[total - l + j], key |-> total - l + j]
  BY CookieAssumption, LenProperties DEF IInv, RingInv, AreLatest
<1>5. e \in Key
  BY <1>4 DEF Key
<1>6. /\ t \in Seq(Key) /\ Len(t) = l + 1 /\ t[l + 1] = e
      /\ \A j \in 1 .. l : t[j] = s[j]
  BY <1>4, <1>5, AppendProperties
<1>7. ring' = LastKeys(r, MaxKeys)
  <2>1. DOMAIN ring = {"keys", "identity"}
    BY <1>4
  <2>2. \A x : [ring EXCEPT !.keys = x] = [keys |-> x, identity |-> ring.identity]
    BY <1>4, <2>1
  <2>3. [ring EXCEPT !.keys = Append(@, [id |-> id, key |-> Len(added) + 1])] = r
    BY <2>2
  <2>4. QED
    BY <1>1, <2>3 DEF AddKey
<1>8. e.id = id /\ e.key = total + 1 /\ e = [id |-> id, key |-> total + 1]
  OBVIOUS
<1>9. r \in Ring /\ r.keys = t
  BY <1>4, <1>6 DEF Ring
<1> HIDE DEF s, l, e, t, r, total
<1>10. AreLatest(t, added')
  <2>1. Len(added') - Len(t) = total - l
    BY <1>3, <1>4, <1>6 DEF total
  <2> SUFFICES ASSUME NEW j \in 1 .. (l + 1)
               PROVE  t[j] = [id |-> added'[total - l + j], key |-> total - l + j]
    BY <1>6, <2>1 DEF AreLatest
  <2>2. CASE j = l + 1
    <3>1. total - l + j = total + 1
      BY <1>4, <2>2
    <3>2. QED
      BY <1>3, <1>6, <1>8, <2>2, <3>1 DEF total
  <2>3. CASE j # l + 1
    <3>1. j \in 1 .. l /\ total - l + j \in 1 .. total
      BY <1>4, <2>3
    <3>2. t[j] = [id |-> added[total - l + j], key |-> total - l + j]
      BY <1>4, <1>6, <3>1
    <3>3. added'[total - l + j] = added[total - l + j]
      BY <1>3, <3>1 DEF total
    <3>4. QED
      BY <3>2, <3>3
  <2>4. QED
    BY <2>2, <2>3
<1>11. /\ ring' \in Ring /\ AreLatest(ring'.keys, added')
       /\ Len(ring'.keys) = IF l + 1 > MaxKeys THEN MaxKeys ELSE l + 1
  <2> DEFINE ids == added'
             q == ring'
  <2>1. Len(ids) \in Nat /\ Len(r.keys) = l + 1 /\ l + 1 <= Len(ids)
    BY <1>3, <1>4, <1>6, <1>9 DEF total
  <2>2. q = LastKeys(r, MaxKeys) /\ AreLatest(r.keys, ids)
    BY <1>7, <1>9, <1>10
  <2> HIDE DEF ids, q
  <2>3. /\ q \in Ring /\ AreLatest(q.keys, ids)
        /\ Len(q.keys) = IF Len(r.keys) > MaxKeys THEN MaxKeys ELSE Len(r.keys)
    BY <1>4, <1>9, <2>1, <2>2, LastKeysAre
  <2>4. QED
    BY <2>1, <2>3 DEF ids, q
<1>12. RingInv'
  <2> DEFINE k == Len(ring'.keys)
  <2>1. k <= MaxKeys /\ k <= total + 1 /\ (k = MaxKeys \/ total + 1 - k <= floor)
    BY <1>4, <1>11
  <2>2. Len(added') = total + 1 /\ floor' = floor
    BY <1>2, <1>3 DEF total
  <2>3. ring' \in [keys : Seq(Key), identity : {0, 1}]
    BY <1>11 DEF Ring
  <2> HIDE DEF k
  <2>4. k <= Len(added') /\ (k # MaxKeys => Len(added') - k <= floor')
    <3>1. k # MaxKeys => total + 1 - k <= floor
      BY <2>1
    <3>2. floor \in Int /\ total \in Int /\ k \in Int
      BY <1>4, <1>11 DEF k
    <3>3. QED
      BY <2>1, <2>2, <3>1, <3>2
  <2>5. QED
    BY <1>3, <1>4, <1>11, <2>1, <2>2, <2>3, <2>4 DEF RingInv, k
<1>13. TypeInv' /\ MessageInv'
  BY <1>2, <1>3 DEF IInv, TypeInv, MessageInv, WholeMessages
<1>14. StartedInv' /\ CookieInv'
  BY <1>2, <1>3 DEF IInv, StartedInv, CookieInv, WellCookied
<1>15. QED
  BY <1>12, <1>13, <1>14 DEF IInv

LEMMA PruneStep == IInv /\ Prune => IInv'
<1> SUFFICES ASSUME IInv, Prune PROVE IInv'
  OBVIOUS
<1>1. PICK keep \in 0 .. MaxKeys : /\ keep < Len(ring.keys)
                                   /\ ring' = PruneKeys(ring, keep)
                                   /\ floor' = Len(added) - keep
  BY DEF Prune
<1>2. UNCHANGED <<added, now, started, who, request, up, down, server, client, jar, asked>>
  BY DEF Prune
<1>3. /\ ring \in Ring /\ Len(ring.keys) <= MaxKeys /\ Len(ring.keys) <= Len(added)
      /\ Len(ring.keys) \in Nat /\ Len(added) \in Nat /\ MaxKeys \in Nat
      /\ AreLatest(ring.keys, added)
  BY CookieAssumption, LenProperties DEF IInv, RingInv, Ring
<1>4. keep \in Nat /\ keep < MaxKeys
  BY <1>1, <1>3
<1>5. ring' = LastKeys(ring, keep)
  BY <1>1, <1>4 DEF PruneKeys
<1>6. ring' \in Ring /\ Len(ring'.keys) = keep /\ AreLatest(ring'.keys, added)
  <2> DEFINE q == ring'
  <2>1. q = LastKeys(ring, keep)
    BY <1>5
  <2> HIDE DEF q
  <2>2. /\ q \in Ring /\ AreLatest(q.keys, added)
        /\ Len(q.keys) = IF Len(ring.keys) > keep THEN keep ELSE Len(ring.keys)
    BY <1>3, <1>4, <2>1, LastKeysAre
  <2>3. QED
    BY <1>1, <2>2 DEF q
<1>7. keep <= Len(added) /\ floor' \in Nat /\ Len(added) - keep <= floor'
  BY <1>1, <1>3, <1>4
<1>8. RingInv'
  <2>1. Len(ring'.keys) <= MaxKeys /\ Len(ring'.keys) <= Len(added')
        /\ Len(added') - Len(ring'.keys) <= floor'
    BY <1>2, <1>4, <1>6, <1>7
  <2>2. AreLatest(ring'.keys, added') /\ added' \in Seq(KeyIds) /\ floor' \in Nat
        /\ ring' \in [keys : Seq(Key), identity : {0, 1}]
    BY <1>2, <1>6, <1>7 DEF IInv, RingInv, Ring
  <2>3. QED
    BY <2>1, <2>2 DEF RingInv
<1>9. TypeInv' /\ MessageInv'
  BY <1>2 DEF IInv, TypeInv, MessageInv, WholeMessages, Numbered
<1>10. StartedInv' /\ CookieInv'
  BY <1>2 DEF IInv, StartedInv, CookieInv, WellCookied, Numbered
<1>11. QED
  BY <1>8, <1>9, <1>10 DEF IInv
LEMMA BindStep == IInv /\ BindIdentity => IInv'
<1> SUFFICES ASSUME IInv, BindIdentity PROVE IInv'
  OBVIOUS
<1>1. UNCHANGED <<added, floor, now, started, who, request, up, down, server, client, jar, asked>>
  BY DEF BindIdentity
<1>2. /\ ring'.keys = ring.keys
      /\ ring' \in [keys : Seq(Key), identity : {0, 1}]
  BY DEF BindIdentity, IInv, RingInv
<1>3. RingInv'
  BY <1>1, <1>2 DEF IInv, RingInv
<1>4. TypeInv' /\ MessageInv'
  BY <1>1 DEF IInv, TypeInv, MessageInv, WholeMessages, Numbered
<1>5. StartedInv' /\ CookieInv'
  BY <1>1 DEF IInv, StartedInv, CookieInv, WellCookied, Numbered
<1>6. QED
  BY <1>3, <1>4, <1>5 DEF IInv

\* Every key of the ring has the number it was added under.
LEMMA RingIsNumbered ==
  ASSUME RingInv PROVE \A j \in DOMAIN ring.keys : Numbered(ring.keys[j])
<1> DEFINE l == Len(ring.keys)
           gone == Len(added) - l
<1>1. l \in Nat /\ DOMAIN ring.keys = 1 .. l /\ Len(added) \in Nat /\ l <= Len(added)
  BY LenProperties DEF RingInv
<1>2. \A j \in 1 .. l : ring.keys[j] = [id |-> added[gone + j], key |-> gone + j]
  BY DEF RingInv, AreLatest
<1> HIDE DEF l
<1>3. \A j \in 1 .. l : gone + j \in 1 .. Len(added)
  BY <1>1
<1>4. ASSUME NEW j \in 1 .. l PROVE Numbered(ring.keys[j])
  <2> DEFINE e == ring.keys[j]
             n == gone + j
  <2>1. e = [id |-> added[n], key |-> n] /\ n \in 1 .. Len(added)
    BY <1>2, <1>3
  <2> HIDE DEF e, n
  <2>2. e.id = added[n] /\ e.key = n
    BY <2>1
  <2>3. Numbered(e)
    BY <2>1, <2>2 DEF Numbered
  <2>4. QED
    BY <2>3 DEF e
<1>5. QED
  BY <1>1, <1>4

LEMMA StartStep == IInv /\ Start => IInv'
<1> SUFFICES ASSUME IInv, Start PROVE IInv'
  OBVIOUS
<1>1. /\ UNCHANGED <<ring, added, floor, now, who, request, up, down, client, jar, asked>>
      /\ who # "client" /\ started' = ring /\ started = Broken
      /\ server' = [server EXCEPT !.st = "handshake"]
  BY DEF Start, keyVars
<1>2. /\ server' = [st |-> "handshake", plain |-> server.plain, got |-> server.got,
                    ended |-> server.ended, answer |-> server.answer]
      /\ server.plain \in Nat /\ server.got \in Nat /\ server.st = "idle"
  BY <1>1 DEF IInv, TypeInv, StartedInv
<1>3. ring # Broken
  <2>1. ring = [keys |-> ring.keys, identity |-> ring.identity]
    BY DEF IInv, RingInv
  <2>2. QED
    BY <2>1 DEF Broken
<1>4. \A j \in DOMAIN ring.keys : Numbered(ring.keys[j])
  BY RingIsNumbered DEF IInv
<1>5. StartedInv'
  <2>1. started' \in [keys : Seq(Key), identity : {0, 1}]
    BY <1>1 DEF IInv, RingInv
  <2>2. (\A j \in DOMAIN started.keys : Numbered(started.keys[j]))'
    BY <1>1, <1>4 DEF Numbered
  <2>3. started' # Broken /\ who' # "client"
    BY <1>1, <1>3
  <2>4. QED
    BY <2>1, <2>2, <2>3 DEF StartedInv
<1>6. RingInv' /\ TypeInv'
  BY <1>1, <1>2 DEF IInv, RingInv, TypeInv
<1>7. MessageInv' /\ CookieInv'
  BY <1>1, <1>2 DEF IInv, MessageInv, WholeMessages, CookieInv, WellCookied, Numbered
<1>8. QED
  BY <1>5, <1>6, <1>7 DEF IInv

------------------------------------------------------------------------------
(* The thread of a connection. *)

\* A step of the thread or of a client that leaves ring and cookies alone, and
\* neither answers nor comes to be established.
LEMMA StreamStep ==
  ASSUME IInv, TypeInv', UNCHANGED <<ring, added, floor, now, started, who, request, jar, asked>>,
         server.st # "idle" \/ server'.st = "idle",
         server'.st = "answered" => server' = server,
         server'.st # "answered" => server.st # "answered",
         client'.st = "established" => client' = client /\ server'.answer = server.answer,
         who \in {"server", "plain"} => client'.st \in {"start", "hello", "sending", "said", "gone"},
         who = "both" /\ server'.st # "answered" =>
            down'.q \in Seq(Items \ {"half"}) /\ client'.got = 0
  PROVE  IInv'
<1>1. RingInv' /\ StartedInv' /\ CookieInv'
  BY DEF IInv, RingInv, StartedInv, CookieInv, WellCookied, Numbered
<1>2. WholeMessages'
  BY DEF IInv, MessageInv, WholeMessages
<1>3. MessageInv'
  <2>1. CASE who # "both"
    BY <1>2, <2>1 DEF IInv, MessageInv
  <2>2. CASE who = "both"
    <3>1. request' = OurRequest /\ (client'.st = "established" => server'.st = "answered")
      BY <2>2 DEF IInv, MessageInv
    <3>2. server'.st = "answered" =>
            \E c \in SealedCookie : Numbered(c)' /\ server'.answer = OwnAnswer(c)
      BY <2>2 DEF IInv, MessageInv, Numbered
    <3>3. QED
      BY <1>2, <2>2, <3>1, <3>2 DEF MessageInv
  <2>3. QED
    BY <2>1, <2>2
<1>4. QED
  BY <1>1, <1>3 DEF IInv

LEMMA ShakesStep == IInv /\ ServerShakes => IInv'
<1> SUFFICES ASSUME IInv, ServerShakes PROVE IInv'
  OBVIOUS
<1>1. /\ server.st = "handshake"
      /\ UNCHANGED <<ring, added, floor, now, started, who, request, client, jar, asked>>
  BY DEF ServerShakes, keyVars
<1>2. /\ up \in [q : Seq(Items), closed : BOOLEAN]
      /\ down \in [q : Seq(Items), closed : BOOLEAN]
      /\ server = [st |-> server.st, plain |-> server.plain, got |-> server.got,
                   ended |-> server.ended, answer |-> server.answer]
      /\ server.plain \in Nat /\ server.got \in Nat
  BY DEF IInv, TypeInv
<1>3. CASE UNCHANGED <<up, down, server>>
  <2>1. TypeInv'
    BY <1>1, <1>3 DEF IInv, TypeInv
  <2>2. QED
    BY <1>1, <1>3, <2>1, StreamStep DEF IInv, MessageInv
<1>4. ASSUME NEW k \in DOMAIN up.q, up' = Rest(up, k),
             NEW got, got = SubSeq(up.q, 1, k),
             down' = Send(down, (IF Count(got, "hello") > 0 THEN <<"flight">> ELSE <<>>)
                                \o (IF Count(got, "finished") > 0 THEN <<"ticket">> ELSE <<>>)),
             server' = [server EXCEPT !.plain = Count(got, "half"), !.ended = Count(got, "notify") > 0,
                                      !.st = IF Count(got, "finished") > 0 THEN "read" ELSE @]
      PROVE  IInv'
  <2> DEFINE a == IF Count(got, "hello") > 0 THEN <<"flight">> ELSE <<>>
             b == IF Count(got, "finished") > 0 THEN <<"ticket">> ELSE <<>>
             H == Items \ {"half"}
  <2>1. a \in Seq(H) /\ b \in Seq(H)
    <3>1. "flight" \in H /\ "ticket" \in H
      BY DEF Items
    <3> HIDE DEF H
    <3>2. <<"flight">> \in Seq(H) /\ <<"ticket">> \in Seq(H) /\ <<>> \in Seq(H)
      BY <3>1
    <3>3. QED
      BY <3>2
  <2> HIDE DEF a, b
  <2>2. a \o b \in Seq(H)
    BY <2>1, ConcatProperties
  <2>3. H \subseteq Items
    OBVIOUS
  <2> HIDE DEF H
  <2>4. a \o b \in Seq(Items)
    BY <2>2, <2>3, MoreItems
  <2>5. down' = [q |-> down.q \o (a \o b), closed |-> down.closed]
    BY <1>2, <1>4 DEF Send, a, b
  <2>6. down'.q \in Seq(Items) /\ (down.q \in Seq(H) => down'.q \in Seq(H))
    BY <1>2, <2>2, <2>4, <2>5, ConcatProperties
  <2>7. up' \in [q : Seq(Items), closed : BOOLEAN] /\ got \in Seq(Items)
    <3>1. up' = [q |-> SubSeq(up.q, k + 1, Len(up.q)), closed |-> up.closed]
      BY <1>2, <1>4 DEF Rest
    <3>2. SubSeq(up.q, k + 1, Len(up.q)) \in Seq(Items) /\ got \in Seq(Items)
      BY <1>2, <1>4, FirstPart
    <3>3. QED
      BY <1>2, <3>1, <3>2
  <2>8. /\ server' = [st |-> server'.st, plain |-> Count(got, "half"), got |-> server.got,
                      ended |-> server'.ended, answer |-> server.answer]
        /\ server'.st \in {"handshake", "read"}
    BY <1>1, <1>2, <1>4
  <2>9. Count(got, "half") \in Nat
    BY <2>7, CountIsNat
  <2>10. TypeInv'
    <3>1. down' \in [q : Seq(Items), closed : BOOLEAN]
      BY <1>2, <2>5, <2>6
    <3>2. QED
      BY <1>1, <1>2, <2>7, <2>8, <2>9, <3>1 DEF IInv, TypeInv
  <2>11. who = "both" => down.q \in Seq(H) /\ client.got = 0
    BY <1>1 DEF IInv, MessageInv, H
  <2>12. QED
    BY <1>1, <2>6, <2>8, <2>10, <2>11, StreamStep DEF IInv, MessageInv, H
<1>5. QED
  BY <1>3, <1>4 DEF ServerShakes

LEMMA RefusesStep == IInv /\ ServerRefuses => IInv'
<1> SUFFICES ASSUME IInv, ServerRefuses PROVE IInv'
  OBVIOUS
<1>1. /\ server.st = "read" /\ who = "plain"
      /\ server' = [server EXCEPT !.st = "failed"] /\ down' = [down EXCEPT !.closed = TRUE]
      /\ UNCHANGED <<ring, added, floor, now, started, who, request, up, client, jar, asked>>
  BY DEF ServerRefuses, ServerEnds, keyVars
<1>2. /\ server' = [st |-> "failed", plain |-> server.plain, got |-> server.got,
                    ended |-> server.ended, answer |-> server.answer]
      /\ down' \in [q : Seq(Items), closed : BOOLEAN]
  BY <1>1 DEF IInv, TypeInv
<1>3. TypeInv'
  BY <1>1, <1>2 DEF IInv, TypeInv
<1>4. QED
  BY <1>1, <1>2, <1>3, StreamStep DEF IInv, MessageInv

\* The reader only counts, and ends in a state that is no answer.
LEMMA ReaderStep ==
  ASSUME IInv, server.st = "read",
         UNCHANGED <<ring, added, floor, now, started, who, request, down, client, jar, asked>>,
         up' \in [q : Seq(Items), closed : BOOLEAN],
         server' = [st |-> server'.st, plain |-> server'.plain, got |-> server'.got,
                    ended |-> server'.ended, answer |-> server.answer],
         server'.st \in {"read", "request", "failed"},
         server'.plain \in Nat, server'.got \in Nat
  PROVE  IInv'
<1>1. TypeInv'
  <2>1. server'.answer = server.answer
    OBVIOUS
  <2>2. QED
    BY <2>1 DEF IInv, TypeInv
<1>2. server'.answer = server.answer /\ server'.st # "answered" /\ server.st # "answered"
  OBVIOUS
<1>3. who = "both" => down'.q \in Seq(Items \ {"half"}) /\ client'.got = 0
  BY DEF IInv, MessageInv
<1>4. who \in {"server", "plain"} => client'.st \in {"start", "hello", "sending", "said", "gone"}
  BY DEF IInv, MessageInv
<1>5. QED
  BY <1>1, <1>2, <1>3, <1>4, StreamStep

LEMMA DrainsStep == IInv /\ ServerDrains => IInv'
<1> SUFFICES ASSUME IInv, ServerDrains PROVE IInv'
  OBVIOUS
<1>1. /\ server.st = "read" /\ up' = up
      /\ UNCHANGED <<ring, added, floor, now, started, who, request, down, client, jar, asked>>
  BY DEF ServerDrains, keyVars
<1>2. /\ server = [st |-> server.st, plain |-> server.plain, got |-> server.got,
                   ended |-> server.ended, answer |-> server.answer]
      /\ server.plain \in Nat /\ server.got \in Nat
      /\ up \in [q : Seq(Items), closed : BOOLEAN]
  BY DEF IInv, TypeInv
<1> DEFINE s == [server EXCEPT !.got = @ + server.plain, !.plain = 0]
<1>3. s = [st |-> server.st, plain |-> 0, got |-> server.got + server.plain,
           ended |-> server.ended, answer |-> server.answer]
  <2> DEFINE x == server.got + server.plain
  <2>1. s = [server EXCEPT !.got = x, !.plain = 0]
    OBVIOUS
  <2> HIDE DEF x, s
  <2>2. s = [st |-> server.st, plain |-> 0, got |-> x,
             ended |-> server.ended, answer |-> server.answer]
    BY <1>2, <2>1
  <2>3. QED
    BY <2>2 DEF x
<1>4. server' = s \/ server' = ReadOver(s)
  BY DEF ServerDrains
<1> HIDE DEF s
<1>5. /\ server' = [st |-> server'.st, plain |-> 0, got |-> server.got + server.plain,
                    ended |-> server.ended, answer |-> server.answer]
      /\ server'.st \in {"read", "request", "failed"}
  BY <1>1, <1>3, <1>4 DEF ReadOver
<1>6. /\ server'.plain = 0 /\ server'.got = server.got + server.plain
      /\ server'.ended = server.ended
  BY <1>5
<1>7. QED
  BY <1>1, <1>2, <1>5, <1>6, ReaderStep

LEMMA ReadsStep == IInv /\ ServerReads => IInv'
<1> SUFFICES ASSUME IInv, ServerReads PROVE IInv'
  OBVIOUS
<1>1. /\ server.st = "read"
      /\ UNCHANGED <<ring, added, floor, now, started, who, request, down, client, jar, asked>>
  BY DEF ServerReads, keyVars
<1>2. /\ server = [st |-> server.st, plain |-> server.plain, got |-> server.got,
                   ended |-> server.ended, answer |-> server.answer]
      /\ server.plain \in Nat /\ server.got \in Nat
      /\ up \in [q : Seq(Items), closed : BOOLEAN]
  BY DEF IInv, TypeInv
<1>3. CASE up' = up /\ (server' = server \/ server' = ReadOver(server))
  <2>1. /\ server' = [st |-> server'.st, plain |-> server.plain, got |-> server.got,
                      ended |-> server.ended, answer |-> server.answer]
        /\ server'.st \in {"read", "request", "failed"}
    BY <1>1, <1>2, <1>3 DEF ReadOver
  <2>2. server'.plain = server.plain /\ server'.got = server.got /\ server'.ended = server.ended
    BY <2>1
  <2>3. QED
    BY <1>1, <1>2, <1>3, <2>1, <2>2, ReaderStep
<1>4. ASSUME NEW k \in DOMAIN up.q, NEW got, got = SubSeq(up.q, 1, k), up' = Rest(up, k),
             server' = [server EXCEPT !.plain = Count(got, "half"),
                                      !.ended = @ \/ Count(got, "notify") > 0]
      PROVE  IInv'
  <2>1. up' = [q |-> SubSeq(up.q, k + 1, Len(up.q)), closed |-> up.closed]
    BY <1>2, <1>4 DEF Rest
  <2>2. SubSeq(up.q, k + 1, Len(up.q)) \in Seq(Items) /\ got \in Seq(Items)
    BY <1>2, <1>4, FirstPart
  <2>3. up' \in [q : Seq(Items), closed : BOOLEAN] /\ Count(got, "half") \in Nat
    BY <1>2, <2>1, <2>2, CountIsNat
  <2>4. /\ server' = [st |-> server'.st, plain |-> server'.plain, got |-> server'.got,
                      ended |-> server'.ended, answer |-> server.answer]
        /\ server'.st = "read" /\ server'.plain = Count(got, "half") /\ server'.got = server.got
    BY <1>1, <1>2, <1>4
  <2>5. QED
    BY <1>1, <1>2, <2>3, <2>4, ReaderStep
<1>5. QED
  BY <1>3, <1>4 DEF ServerReads, AtEnd

\* What a ring seals can be sealed by no other and is numbered as its last key.
LEMMA SealedByLast ==
  ASSUME NEW r, r \in [keys : Seq(Key), identity : {0, 1}], CanSeal(r),
         \A j \in DOMAIN r.keys : Numbered(r.keys[j]), NEW at \in Nat
  PROVE  Seal(r, ClientKeys, at) \in SealedCookie /\ Numbered(Seal(r, ClientKeys, at))
<1> DEFINE l == Len(r.keys)
           e == r.keys[l]
           c == Seal(r, ClientKeys, at)
<1>1. r.keys \in Seq(Key) /\ l \in Nat /\ DOMAIN r.keys = 1 .. l /\ l # 0
      /\ r.identity \in {0, 1}
  BY LenProperties, EmptySeq DEF CanSeal
<1>2. l \in DOMAIN r.keys
  BY <1>1
<1>3. e \in Key /\ Numbered(e)
  BY <1>1, <1>2, ElementOfSeq
<1>4. c = [id |-> e.id, key |-> e.key, identity |-> r.identity, plain |-> ClientKeys, at |-> at]
  BY DEF Seal, Last
<1> HIDE DEF e, c
<1>5. c.id = e.id /\ c.key = e.key
  BY <1>4
<1>6. c \in SealedCookie
  BY <1>1, <1>3, <1>4 DEF SealedCookie, Key
<1>7. QED
  BY <1>3, <1>5, <1>6 DEF Numbered, c

LEMMA AnswersStep == IInv /\ ServerAnswers => IInv'
<1> SUFFICES ASSUME IInv, ServerAnswers PROVE IInv'
  OBVIOUS
<1> DEFINE recs == WholeRecords(request, server.got)
           alg == Chosen(recs, Algorithms)
           c == Seal(started, CookieKeys(alg), now)
           answer == Answer(alg, [k \in 1 .. JarSize |-> c])
<1>1. /\ server.st = "request"
      /\ UNCHANGED <<ring, added, floor, now, started, who, request, up, client, jar, asked>>
  BY DEF ServerAnswers, keyVars
<1>2. /\ down \in [q : Seq(Items), closed : BOOLEAN]
      /\ server = [st |-> server.st, plain |-> server.plain, got |-> server.got,
                   ended |-> server.ended, answer |-> server.answer]
      /\ server.plain \in Nat /\ server.got \in Nat
  BY DEF IInv, TypeInv
<1>3. \/ /\ ServerAccepts(recs, server.got, Algorithms) /\ CanSeal(started)
         /\ server' = [server EXCEPT !.st = "answered", !.answer = answer]
         /\ down' = [Send(down, Halves(answer) \o <<"notify">>) EXCEPT !.closed = TRUE]
      \/ server' = [server EXCEPT !.st = "failed"] /\ down' = [down EXCEPT !.closed = TRUE]
  BY DEF ServerAnswers, ServerEnds
<1> HIDE DEF recs, alg, c, answer
<1>4. CASE server' = [server EXCEPT !.st = "failed"] /\ down' = [down EXCEPT !.closed = TRUE]
  <2>1. /\ server' = [st |-> "failed", plain |-> server.plain, got |-> server.got,
                      ended |-> server.ended, answer |-> server.answer]
        /\ down' = [q |-> down.q, closed |-> TRUE]
        /\ down' \in [q : Seq(Items), closed : BOOLEAN]
    BY <1>2, <1>4
  <2>2. TypeInv'
    BY <1>1, <1>2, <2>1 DEF IInv, TypeInv
  <2>3. down'.q = down.q /\ server'.st = "failed" /\ server'.answer = server.answer
    BY <2>1
  <2>4. QED
    BY <1>1, <2>2, <2>3, StreamStep DEF IInv, MessageInv
<1>5. ASSUME ServerAccepts(recs, server.got, Algorithms), CanSeal(started),
             server' = [server EXCEPT !.st = "answered", !.answer = answer],
             down' = [Send(down, Halves(answer) \o <<"notify">>) EXCEPT !.closed = TRUE]
      PROVE  IInv'
  <2>1. /\ server' = [st |-> "answered", plain |-> server.plain, got |-> server.got,
                      ended |-> server.ended, answer |-> answer]
        /\ server'.st = "answered" /\ server'.got = server.got /\ server'.answer = answer
    BY <1>2, <1>5
  <2>2. Len(answer) \in Nat
    BY AnswerShape DEF answer
  <2>3. down' \in [q : Seq(Items), closed : BOOLEAN]
    <3> DEFINE items == Halves(answer) \o <<"notify">>
    <3>1. {"half"} \subseteq Items /\ <<"notify">> \in Seq(Items)
      BY DEF Items
    <3>2. Halves(answer) \in Seq({"half"})
      BY <2>2, HalvesAreHalf
    <3>3. Halves(answer) \in Seq(Items)
      BY <3>1, <3>2, MoreItems
    <3>4. items \in Seq(Items)
      BY <3>1, <3>3, ConcatProperties
    <3> HIDE DEF items
    <3>5. down.q \o items \in Seq(Items)
      BY <1>2, <3>4, ConcatProperties
    <3>6. down' = [q |-> down.q \o items, closed |-> TRUE]
      BY <1>2, <1>5 DEF Send, items
    <3>7. QED
      BY <3>5, <3>6
  <2>4. TypeInv'
    BY <1>1, <1>2, <2>1, <2>3 DEF IInv, TypeInv
  <2>5. RingInv' /\ CookieInv'
    BY <1>1 DEF IInv, RingInv, CookieInv, WellCookied, Numbered
  <2>6. started # Broken /\ who # "client" /\ StartedInv'
    BY <1>1 DEF IInv, StartedInv, Numbered
  <2>7. client.st # "established"
    BY <1>1, <2>6 DEF IInv, TypeInv, MessageInv
  <2>8. EndRead(request, server.got)
    BY <1>2, <1>5, EndIsRead DEF recs, ServerAccepts
  <2>9. WholeMessages'
    BY <1>1, <2>1, <2>7, <2>8 DEF WholeMessages
  <2>10. ASSUME who = "both"
         PROVE  \E d \in SealedCookie : Numbered(d)' /\ server'.answer = OwnAnswer(d)
    <3>1. alg = AesSiv256
      <4>1. request = OurRequest
        BY <2>10 DEF IInv, MessageInv
      <4>2. QED
        BY <1>2, <1>5, <4>1, OurAlgorithm DEF recs, alg
    <3>2. CookieKeys(alg) = ClientKeys
      <4>1. KeyCut(AesSiv256) = FALSE
        BY DEF KeyCut, AesSiv256, AesSiv512
      <4>2. QED
        BY <3>1, <4>1 DEF CookieKeys, ClientKeys
    <3>3. c \in SealedCookie /\ Numbered(c)
      <4>1. /\ started \in [keys : Seq(Key), identity : {0, 1}]
            /\ \A j \in DOMAIN started.keys : Numbered(started.keys[j])
        BY <2>6 DEF IInv, StartedInv
      <4>2. now \in Nat
        BY DEF IInv, TypeInv
      <4>3. QED
        BY <1>5, <3>2, <4>1, <4>2, SealedByLast DEF c
    <3>4. answer = OwnAnswer(c)
      BY <3>1 DEF answer, OwnAnswer
    <3>5. Numbered(c) => Numbered(c)'
      <4>1. c' = c
        BY <1>1, <2>1 DEF c, alg, recs
      <4>2. QED
        BY <1>1, <4>1 DEF Numbered
    <3> HIDE DEF c
    <3>6. \A d : Numbered(d) => Numbered(d)'
      BY <1>1 DEF Numbered
    <3>7. QED
      BY <2>1, <3>3, <3>4, <3>6
  <2>11. MessageInv'
    <3>1. request' = request /\ client' = client /\ who' = who
      BY <1>1
    <3>2. who = "both" => request = OurRequest
      BY DEF IInv, MessageInv
    <3>3. who \in {"server", "plain"} => client'.st \in {"start", "hello", "sending", "said", "gone"}
      BY <3>1 DEF IInv, MessageInv
    <3>4. QED
      BY <2>1, <2>9, <2>10, <3>1, <3>2, <3>3 DEF MessageInv
  <2>12. QED
    BY <2>4, <2>5, <2>6, <2>11 DEF IInv
<1>6. QED
  BY <1>3, <1>4, <1>5
------------------------------------------------------------------------------
(* The client. *)

\* A step of a client that leaves the thread alone and is not established.
LEMMA ClientStep ==
  ASSUME IInv,
         UNCHANGED <<ring, added, floor, now, started, who, request, server, jar, asked>>,
         up' \in [q : Seq(Items), closed : BOOLEAN],
         down' \in [q : Seq(Items), closed : BOOLEAN],
         client' = [st |-> client'.st, got |-> client'.got, reply |-> client'.reply],
         client'.got \in Nat, client'.st # "established",
         who \in {"server", "plain"} => client'.st \in {"start", "hello", "sending", "said", "gone"},
         who = "both" /\ server.st # "answered" =>
            down'.q \in Seq(Items \ {"half"}) /\ client'.got = 0
  PROVE  IInv'
<1>1. TypeInv'
  BY DEF IInv, TypeInv
<1>2. QED
  BY <1>1, StreamStep

\* What is sent is put behind what was sent before.
LEMMA SentIsTyped ==
  ASSUME NEW s \in [q : Seq(Items), closed : BOOLEAN], NEW items \in Seq(Items)
  PROVE  Send(s, items) \in [q : Seq(Items), closed : BOOLEAN]
<1>1. s = [q |-> s.q, closed |-> s.closed] /\ s.q \in Seq(Items) /\ s.closed \in BOOLEAN
  OBVIOUS
<1> DEFINE all == s.q \o items
<1>2. all \in Seq(Items)
  BY <1>1, ConcatProperties
<1>3. Send(s, items) = [s EXCEPT !.q = all]
  BY DEF Send
<1> HIDE DEF all
<1>4. Send(s, items) = [q |-> all, closed |-> s.closed]
  BY <1>1, <1>3
<1>5. QED
  BY <1>1, <1>2, <1>4

LEMMA HelloStep == IInv /\ ClientHello => IInv'
<1> SUFFICES ASSUME IInv, ClientHello PROVE IInv'
  OBVIOUS
<1>1. /\ UNCHANGED <<ring, added, floor, now, started, who, request, down, server, jar, asked>>
      /\ client' = [client EXCEPT !.st = "hello"]
      /\ up' = up \/ up' = Send(up, <<"hello">>)
  BY DEF ClientHello, Says, keyVars
<1>2. /\ up \in [q : Seq(Items), closed : BOOLEAN]
      /\ down' \in [q : Seq(Items), closed : BOOLEAN]
      /\ client = [st |-> client.st, got |-> client.got, reply |-> client.reply]
      /\ client.got \in Nat
  BY <1>1 DEF IInv, TypeInv
<1>3. up' \in [q : Seq(Items), closed : BOOLEAN]
  <2>1. <<"hello">> \in Seq(Items)
    BY DEF Items
  <2>2. Send(up, <<"hello">>) \in [q : Seq(Items), closed : BOOLEAN]
    BY <1>2, <2>1, SentIsTyped
  <2>3. QED
    BY <1>1, <1>2, <2>2
<1>4. client' = [st |-> "hello", got |-> client.got, reply |-> client.reply]
  BY <1>1, <1>2
<1>5. client'.st = "hello" /\ client'.got = client.got /\ client'.reply = client.reply
  BY <1>4
<1>6. who = "both" /\ server.st # "answered" =>
        down'.q \in Seq(Items \ {"half"}) /\ client'.got = 0
  BY <1>1, <1>5 DEF IInv, MessageInv
<1>7. QED
  BY <1>1, <1>2, <1>3, <1>4, <1>5, <1>6, ClientStep

LEMMA AsksStep == IInv /\ ClientAsks => IInv'
<1> SUFFICES ASSUME IInv, ClientAsks PROVE IInv'
  OBVIOUS
<1>1. /\ UNCHANGED <<ring, added, floor, now, started, who, request, server, jar, asked>>
      /\ who \in {"both", "client"} /\ client' = [client EXCEPT !.st = "reading"]
      /\ \/ up' = up /\ down' = down
         \/ /\ down.q # <<>> /\ down' = Rest(down, 1)
            /\ up' = Send(up, <<"finished">> \o Halves(request))
  BY DEF ClientAsks, Says, keyVars
<1>2. /\ up \in [q : Seq(Items), closed : BOOLEAN]
      /\ down \in [q : Seq(Items), closed : BOOLEAN]
      /\ client = [st |-> client.st, got |-> client.got, reply |-> client.reply]
      /\ client.got \in Nat /\ Len(request) \in Nat
  BY DEF IInv, TypeInv
<1>3. up' \in [q : Seq(Items), closed : BOOLEAN]
  <2>1. {"half"} \subseteq Items /\ <<"finished">> \in Seq(Items)
    BY DEF Items
  <2>2. Halves(request) \in Seq(Items)
    BY <1>2, <2>1, HalvesAreHalf, MoreItems
  <2>3. <<"finished">> \o Halves(request) \in Seq(Items)
    BY <2>1, <2>2, ConcatProperties
  <2>4. Send(up, <<"finished">> \o Halves(request)) \in [q : Seq(Items), closed : BOOLEAN]
    BY <1>2, <2>3, SentIsTyped
  <2>5. QED
    BY <1>1, <1>2, <2>4
<1>4. /\ down' \in [q : Seq(Items), closed : BOOLEAN]
      /\ down.q \in Seq(Items \ {"half"}) => down'.q \in Seq(Items \ {"half"})
  <2>1. CASE down' = down
    BY <1>2, <2>1
  <2>2. CASE down.q # <<>> /\ down' = Rest(down, 1)
    <3> DEFINE later == SubSeq(down.q, 1 + 1, Len(down.q))
    <3>1. 1 \in DOMAIN down.q
      BY <1>2, <2>2, EmptySeq, LenProperties
    <3>2. down' = [q |-> later, closed |-> down.closed]
      BY <1>2, <2>2 DEF Rest
    <3>3. later \in Seq(Items)
      BY <1>2, <3>1, FirstPart
    <3>4. down.q \in Seq(Items \ {"half"}) => later \in Seq(Items \ {"half"})
      BY <3>1, FirstPart
    <3> HIDE DEF later
    <3>5. QED
      BY <1>2, <3>2, <3>3, <3>4
  <2>3. QED
    BY <1>1, <2>1, <2>2
<1>5. client' = [st |-> "reading", got |-> client.got, reply |-> client.reply]
  BY <1>1, <1>2
<1>6. client'.st = "reading" /\ client'.got = client.got /\ client'.reply = client.reply
  BY <1>5
<1>7. who = "both" /\ server.st # "answered" =>
        down'.q \in Seq(Items \ {"half"}) /\ client'.got = 0
  BY <1>4, <1>6 DEF IInv, MessageInv
<1>8. QED
  BY <1>1, <1>2, <1>3, <1>4, <1>5, <1>6, <1>7, ClientStep

LEMMA StrangerStep == IInv /\ (StrangerSends \/ StrangerLeaves) => IInv'
<1> SUFFICES ASSUME IInv, StrangerSends \/ StrangerLeaves PROVE IInv'
  OBVIOUS
<1>1. /\ UNCHANGED <<ring, added, floor, now, started, who, request, down, server, jar, asked>>
      /\ who \in {"server", "plain"}
  BY DEF StrangerSends, StrangerLeaves, keyVars
<1>2. /\ up \in [q : Seq(Items), closed : BOOLEAN]
      /\ down' \in [q : Seq(Items), closed : BOOLEAN]
      /\ client = [st |-> client.st, got |-> client.got, reply |-> client.reply]
      /\ client.got \in Nat
  BY <1>1 DEF IInv, TypeInv
<1>3. \/ up' = [up EXCEPT !.closed = TRUE]
      \/ \E item \in Items : up' = Send(up, <<item>>)
  BY DEF StrangerSends, StrangerLeaves, Says, Items
<1>4. up' \in [q : Seq(Items), closed : BOOLEAN]
  <2>1. \A item \in Items : <<item>> \in Seq(Items)
    OBVIOUS
  <2>2. \A item \in Items : Send(up, <<item>>) \in [q : Seq(Items), closed : BOOLEAN]
    BY <1>2, <2>1, SentIsTyped
  <2>3. QED
    BY <1>2, <1>3, <2>2
<1>5. \/ client' = [client EXCEPT !.st = "sending"]
      \/ client.st = "sending" /\ client' = [client EXCEPT !.got = @ + 1]
      \/ client' = [client EXCEPT !.st = "said"]
      \/ client' = [client EXCEPT !.st = "gone"]
  BY DEF StrangerSends, StrangerLeaves
<1>6. /\ client' = [st |-> client'.st, got |-> client'.got, reply |-> client'.reply]
      /\ client'.got \in Nat /\ client'.st \in {"sending", "said", "gone"}
  <2>1. CASE client' = [client EXCEPT !.st = "sending"]
    BY <1>2, <2>1
  <2>2. CASE client.st = "sending" /\ client' = [client EXCEPT !.got = @ + 1]
    <3> DEFINE n == client.got + 1
    <3>1. n \in Nat /\ client' = [client EXCEPT !.got = n]
      BY <1>2, <2>2
    <3> HIDE DEF n
    <3>2. client' = [st |-> "sending", got |-> n, reply |-> client.reply]
      BY <1>2, <2>2, <3>1
    <3>3. client'.st = "sending" /\ client'.got = n /\ client'.reply = client.reply
      BY <3>2
    <3>4. QED
      BY <3>1, <3>2, <3>3
  <2>3. CASE client' = [client EXCEPT !.st = "said"]
    BY <1>2, <2>3
  <2>4. CASE client' = [client EXCEPT !.st = "gone"]
    BY <1>2, <2>4
  <2>5. QED
    BY <1>5, <2>1, <2>2, <2>3, <2>4
<1>7. QED
  BY <1>1, <1>2, <1>4, <1>6, ClientStep

LEMMA StrangerAnswersStep == IInv /\ StrangerAnswers => IInv'
<1> SUFFICES ASSUME IInv, StrangerAnswers PROVE IInv'
  OBVIOUS
<1>1. /\ UNCHANGED <<ring, added, floor, now, started, who, request, up, client, jar, asked>>
      /\ who = "client" /\ client.st = "reading"
  BY DEF StrangerAnswers, keyVars
<1>2. PICK a \in Answers, n \in Nat, e \in {<<>>, <<"notify">>} :
         /\ server' = [server EXCEPT !.answer = a]
         /\ down' = [q |-> [k \in 1 .. n |-> "half"] \o e, closed |-> TRUE]
  <2>1. PICK a \in Answers :
          /\ server' = [server EXCEPT !.answer = a]
          /\ \E n \in 0 .. 2 * Len(a) : \E e \in {<<>>, <<"notify">>} :
               down' = [q |-> [k \in 1 .. n |-> "half"] \o e, closed |-> TRUE]
    BY DEF StrangerAnswers
  <2>2. PICK n \in 0 .. 2 * Len(a), e \in {<<>>, <<"notify">>} :
          down' = [q |-> [k \in 1 .. n |-> "half"] \o e, closed |-> TRUE]
    BY <2>1
  <2>3. n \in Nat
    BY <2>2
  <2>4. QED
    BY <2>1, <2>2, <2>3
<1>3. server.st = "idle" /\ server' = [st |-> "idle", plain |-> server.plain, got |-> server.got,
                                       ended |-> server.ended, answer |-> a]
  BY <1>1, <1>2 DEF IInv, TypeInv, StartedInv
<1>4. down' \in [q : Seq(Items), closed : BOOLEAN]
  <2> DEFINE h(k) == "half"
             halves == [k \in 1 .. n |-> h(k)]
  <2>1. \A k \in 1 .. n : h(k) \in Items
    BY DEF Items
  <2>2. e \in Seq(Items)
    <3>1. <<>> \in Seq(Items) /\ <<"notify">> \in Seq(Items)
      BY DEF Items
    <3>2. QED
      BY <1>2, <3>1
  <2>3. halves \in Seq(Items)
    <3> HIDE DEF h
    <3>1. QED
      BY <2>1, IsASeq
  <2>4. down' = [q |-> halves \o e, closed |-> TRUE]
    BY <1>2
  <2> HIDE DEF halves
  <2>5. halves \o e \in Seq(Items)
    BY <2>2, <2>3, ConcatProperties
  <2>6. QED
    BY <2>4, <2>5
<1>5. server'.st = "idle" /\ server'.plain = server.plain /\ server'.got = server.got
      /\ server'.ended = server.ended /\ server'.answer = a
  BY <1>3
<1>6. TypeInv'
  BY <1>1, <1>3, <1>4, <1>5 DEF IInv, TypeInv
<1>7. QED
  BY <1>1, <1>3, <1>5, <1>6, StreamStep

LEMMA ClientReadsStep == IInv /\ ClientReads => IInv'
<1> SUFFICES ASSUME IInv, ClientReads PROVE IInv'
  OBVIOUS
<1>1. /\ UNCHANGED <<ring, added, floor, now, started, who, request, up, server, jar, asked>>
      /\ client.st = "reading"
  BY DEF ClientReads, keyVars
<1>2. /\ up' \in [q : Seq(Items), closed : BOOLEAN]
      /\ down \in [q : Seq(Items), closed : BOOLEAN]
      /\ client = [st |-> client.st, got |-> client.got, reply |-> client.reply]
      /\ client.got \in Nat
  BY <1>1 DEF IInv, TypeInv
<1>3. who \notin {"server", "plain"}
  BY <1>1 DEF IInv, MessageInv
<1>4. who = "both" /\ server.st # "answered" =>
        down.q \in Seq(Items \ {"half"}) /\ client.got = 0
  BY DEF IInv, MessageInv
<1>5. CASE down' = down /\ (client' = [client EXCEPT !.st = "answer"]
                            \/ client' = [client EXCEPT !.st = "failed"])
  <2>1. /\ client' = [st |-> client'.st, got |-> client'.got, reply |-> client'.reply]
        /\ client'.got = client.got /\ client'.st \in {"answer", "failed"}
    BY <1>2, <1>5
  <2>2. QED
    BY <1>1, <1>2, <1>3, <1>4, <1>5, <2>1, ClientStep
<1>6. ASSUME NEW k \in DOMAIN down.q, NEW got, got = SubSeq(down.q, 1, k), down' = Rest(down, k),
             \/ client' = [client EXCEPT !.st = "failed"]
             \/ client' = [client EXCEPT !.got = Count(got, "half"), !.st = "answer"]
      PROVE  IInv'
  <2> DEFINE n == Count(got, "half")
             later == SubSeq(down.q, k + 1, Len(down.q))
  <2>1. down' = [q |-> later, closed |-> down.closed]
    BY <1>2, <1>6 DEF Rest
  <2>2. later \in Seq(Items) /\ got \in Seq(Items)
    BY <1>2, <1>6, FirstPart
  <2>3. n \in Nat
    BY <2>2, CountIsNat
  <2>4. down.q \in Seq(Items \ {"half"}) => later \in Seq(Items \ {"half"}) /\ n = 0
    <3>1. down.q \in Seq(Items \ {"half"}) =>
            later \in Seq(Items \ {"half"}) /\ got \in Seq(Items \ {"half"})
      BY <1>6, FirstPart
    <3>2. QED
      BY <2>2, <3>1, CountIsNat
  <2> HIDE DEF n, later
  <2>5. /\ client' = [st |-> client'.st, got |-> client'.got, reply |-> client'.reply]
        /\ client'.got \in {client.got, n} /\ client'.st \in {"answer", "failed"}
    BY <1>2, <1>6 DEF n
  <2>6. down' \in [q : Seq(Items), closed : BOOLEAN] /\ down'.q = later
    BY <1>2, <2>1, <2>2
  <2>7. who = "both" /\ server.st # "answered" =>
          down'.q \in Seq(Items \ {"half"}) /\ client'.got = 0
    BY <1>4, <2>4, <2>5, <2>6
  <2>8. client'.got \in Nat
    BY <1>2, <2>3, <2>5
  <2>9. QED
    BY <1>1, <1>2, <1>3, <2>5, <2>6, <2>7, <2>8, ClientStep
<1>7. QED
  BY <1>5, <1>6 DEF ClientReads

LEMMA ClientChecksStep == IInv /\ ClientChecks => IInv'
<1> SUFFICES ASSUME IInv, ClientChecks PROVE IInv'
  OBVIOUS
<1> DEFINE recs == WholeRecords(server.answer, client.got)
<1>1. /\ UNCHANGED <<ring, added, floor, now, started, who, request, up, down, server, asked>>
      /\ client.st = "answer"
  BY DEF ClientChecks, keyVars
<1>2. /\ up' \in [q : Seq(Items), closed : BOOLEAN]
      /\ down' \in [q : Seq(Items), closed : BOOLEAN]
      /\ client = [st |-> client.st, got |-> client.got, reply |-> client.reply]
      /\ client.got \in Nat
  BY <1>1 DEF IInv, TypeInv
<1>3. who \notin {"server", "plain"}
  BY <1>1 DEF IInv, MessageInv
<1>4. who = "both" /\ server.st # "answered" =>
        down.q \in Seq(Items \ {"half"}) /\ client.got = 0
  BY DEF IInv, MessageInv
<1>5. PICK warnings \in BOOLEAN :
         \/ /\ ClientAccepts(recs, client.got, warnings)
            /\ client' = [client EXCEPT !.st = "established"] /\ jar' = JarOf(CookiesIn(recs))
         \/ client' = [client EXCEPT !.st = "failed"] /\ jar' = jar
  BY DEF ClientChecks
<1> HIDE DEF recs
<1>6. CASE client' = [client EXCEPT !.st = "failed"] /\ jar' = jar
  <2>1. client' = [st |-> "failed", got |-> client.got, reply |-> client.reply]
    BY <1>2, <1>6
  <2>2. client'.st = "failed" /\ client'.got = client.got /\ client'.reply = client.reply
    BY <2>1
  <2>3. QED
    BY <1>1, <1>2, <1>3, <1>4, <1>6, <2>1, <2>2, ClientStep
<1>7. ASSUME ClientAccepts(recs, client.got, warnings),
             client' = [client EXCEPT !.st = "established"], jar' = JarOf(CookiesIn(recs))
      PROVE  IInv'
  <2>1. client' = [st |-> "established", got |-> client.got, reply |-> client.reply]
    BY <1>2, <1>7
  <2>2. client'.st = "established" /\ client'.got = client.got /\ client'.reply = client.reply
    BY <2>1
  <2>3. EndRead(server.answer, client.got) /\ client.got # 0
    BY <1>2, <1>7, EndIsRead DEF recs, ClientAccepts
  <2>4. who = "both" => server.st = "answered"
    BY <1>4, <2>3
  <2>5. TypeInv' /\ RingInv' /\ StartedInv'
    BY <1>1, <1>2, <2>1, <2>2 DEF IInv, TypeInv, RingInv, StartedInv, Numbered
  <2>6. WholeMessages'
    BY <1>1, <2>2, <2>3 DEF IInv, MessageInv, WholeMessages
  <2>7. MessageInv'
    BY <1>1, <1>3, <2>2, <2>4, <2>6 DEF IInv, MessageInv, Numbered
  <2>8. ASSUME who = "both" PROVE jar' \in Seq(SealedCookie) /\ \A i \in DOMAIN jar' : Numbered(jar'[i])
    <3>1. PICK c \in SealedCookie : Numbered(c) /\ server.answer = OwnAnswer(c)
      BY <2>4, <2>8 DEF IInv, MessageInv
    <3>2. recs = WholeRecords(OwnAnswer(c), client.got)
      BY <3>1 DEF recs
    <3>3. JarOf(CookiesIn(recs)) \in Seq({c})
      BY <1>2, <1>7, <3>2, JarOfAnswer
    <3>4. jar' \in Seq({c})
      BY <1>7, <3>3
    <3>5. {c} \subseteq SealedCookie
      BY <3>1
    <3>6. jar' \in Seq(SealedCookie)
      BY <3>4, <3>5, MoreItems
    <3>7. \A i \in DOMAIN jar' : jar'[i] = c
      BY <3>4, LenProperties, ElementOfSeq
    <3>8. QED
      BY <3>1, <3>6, <3>7
  <2>9. CookieInv'
    BY <1>1, <2>8 DEF IInv, CookieInv, WellCookied, Numbered
  <2>10. QED
    BY <2>5, <2>7, <2>9 DEF IInv
<1>8. QED
  BY <1>5, <1>6, <1>7

------------------------------------------------------------------------------
(* The requests with cookies. *)

LEMMA NtpStep ==
  ASSUME IInv, CookieInv',
         UNCHANGED <<ring, added, floor, now, started, who, request, up, down, server, client>>
  PROVE  IInv'
<1>1. TypeInv' /\ RingInv' /\ StartedInv'
  BY DEF IInv, TypeInv, RingInv, StartedInv, Numbered
<1>2. MessageInv'
  BY DEF IInv, MessageInv, WholeMessages, Numbered
<1>3. QED
  BY <1>1, <1>2 DEF IInv

LEMMA AskStep == IInv /\ Ask => IInv'
<1> SUFFICES ASSUME IInv, Ask PROVE IInv'
  OBVIOUS
<1> DEFINE c == Head(jar)
           r == [cookie |-> c, fresh |-> Broken, st |-> "sent"]
<1>1. /\ UNCHANGED <<ring, added, floor, now, started, who, request, up, down, server, client>>
      /\ who = "both" /\ jar # <<>> /\ jar' = Tail(jar) /\ asked' = Append(asked, r)
  BY DEF Ask, keyVars
<1>2. /\ jar \in Seq(SealedCookie) /\ asked \in Seq(AskedRequest)
      /\ \A i \in DOMAIN jar : Numbered(jar[i])
      /\ \A k \in DOMAIN asked : WellCookied(asked[k])
  BY <1>1 DEF IInv, CookieInv
<1>3. /\ c \in SealedCookie /\ Numbered(c)
      /\ jar' \in Seq(SealedCookie) /\ \A i \in DOMAIN jar' : Numbered(jar'[i])
  <2> DEFINE t == Tail(jar)
  <2>1. /\ c \in SealedCookie /\ t \in Seq(SealedCookie) /\ Len(t) = Len(jar) - 1
        /\ \A i \in 1 .. Len(t) : t[i] = jar[i + 1]
    BY <1>1, <1>2, HeadTailProperties
  <2>2. Len(jar) \in Nat /\ DOMAIN jar = 1 .. Len(jar) /\ DOMAIN t = 1 .. Len(t) /\ Len(jar) # 0
    BY <1>1, <1>2, <2>1, LenProperties, EmptySeq
  <2>3. c = jar[1] /\ 1 \in DOMAIN jar
    BY <1>2, <2>2
  <2>4. \A i \in DOMAIN t : i + 1 \in DOMAIN jar /\ t[i] = jar[i + 1]
    BY <2>1, <2>2
  <2> HIDE DEF c, t
  <2>5. Numbered(c) /\ \A i \in DOMAIN t : Numbered(t[i])
    BY <1>2, <2>3, <2>4
  <2>6. QED
    BY <1>1, <2>1, <2>5 DEF t
<1> HIDE DEF c
<1>4. r \in AskedRequest /\ r.cookie = c /\ r.fresh = Broken /\ r.st = "sent"
  BY <1>3 DEF AskedRequest
<1> HIDE DEF r
<1>5. /\ asked' \in Seq(AskedRequest) /\ Len(asked') = Len(asked) + 1
      /\ \A k \in 1 .. Len(asked) : asked'[k] = asked[k]
      /\ asked'[Len(asked) + 1] = r
  BY <1>1, <1>2, <1>4, AppendProperties
<1>6. \A k \in DOMAIN asked' : (k \in DOMAIN asked /\ asked'[k] = asked[k]) \/ asked'[k] = r
  <2>1. DOMAIN asked' = 1 .. Len(asked') /\ DOMAIN asked = 1 .. Len(asked) /\ Len(asked) \in Nat
    BY <1>2, <1>5, LenProperties
  <2>2. QED
    BY <1>5, <2>1
<1>7. \A k \in DOMAIN asked' : WellCookied(asked'[k])
  <2>1. WellCookied(r)
    BY <1>3, <1>4 DEF WellCookied
  <2>2. QED
    BY <1>2, <1>6, <2>1
<1>8. CookieInv'
  BY <1>1, <1>3, <1>5, <1>7 DEF CookieInv, WellCookied, Numbered
<1>9. QED
  BY <1>1, <1>8, NtpStep

\* One request changes.
LEMMA RequestStep ==
  ASSUME IInv, NEW k \in DOMAIN asked, NEW r \in AskedRequest,
         r.cookie = asked[k].cookie, r.fresh # Broken => Numbered(r.fresh),
         r.st = "served" => r.fresh # Broken,
         asked' = [asked EXCEPT ![k] = r],
         jar' = jar \/ (jar' = AddCookie(jar, asked[k].fresh) /\ asked[k].fresh # Broken),
         UNCHANGED <<ring, added, floor, now, started, who, request, up, down, server, client>>
  PROVE  IInv'
<1>1. /\ asked \in Seq(AskedRequest) /\ (who = "both" \/ asked = <<>>)
      /\ \A j \in DOMAIN asked : WellCookied(asked[j])
  BY DEF IInv, CookieInv
<1>2. who = "both"
  BY <1>1, EmptySeq
<1>3. jar \in Seq(SealedCookie) /\ \A i \in DOMAIN jar : Numbered(jar[i])
  BY <1>2 DEF IInv, CookieInv
<1>4. /\ DOMAIN asked = 1 .. Len(asked) /\ DOMAIN asked' = DOMAIN asked
      /\ asked' \in Seq(AskedRequest)
      /\ \A j \in DOMAIN asked : asked'[j] = IF j = k THEN r ELSE asked[j]
  BY <1>1, LenProperties, ExceptSeq
<1>5. \A j \in DOMAIN asked' : WellCookied(asked'[j])
  <2>1. WellCookied(r)
    BY <1>1 DEF WellCookied
  <2>2. QED
    BY <1>1, <1>4, <2>1
<1>6. jar' \in Seq(SealedCookie) /\ \A i \in DOMAIN jar' : Numbered(jar'[i])
  <2>1. CASE jar' = jar
    BY <1>3, <2>1
  <2>2. CASE asked[k].fresh # Broken /\ jar' = Append(jar, asked[k].fresh)
    <3> DEFINE c == asked[k].fresh
               t == Append(jar, c)
    <3>1. c \in SealedCookie /\ Numbered(c)
      <4>1. asked[k] \in AskedRequest
        BY <1>1, <1>4, ElementOfSeq
      <4>2. QED
        BY <1>1, <2>2, <4>1 DEF AskedRequest, WellCookied
    <3> HIDE DEF c
    <3>2. /\ t \in Seq(SealedCookie) /\ Len(t) = Len(jar) + 1
          /\ \A i \in 1 .. Len(jar) : t[i] = jar[i]
          /\ t[Len(jar) + 1] = c
      BY <1>3, <3>1, AppendProperties
    <3>3. /\ DOMAIN t = 1 .. Len(t) /\ DOMAIN jar = 1 .. Len(jar) /\ Len(jar) \in Nat
      BY <1>3, <3>2, LenProperties
    <3> HIDE DEF t
    <3>4. \A i \in DOMAIN t : (i \in DOMAIN jar /\ t[i] = jar[i]) \/ t[i] = c
      BY <3>2, <3>3
    <3>5. \A i \in DOMAIN t : Numbered(t[i])
      BY <1>3, <3>1, <3>4
    <3>6. jar' = t
      BY <2>2 DEF t, c
    <3>7. QED
      BY <3>2, <3>5, <3>6
  <2>3. QED
    BY <2>1, <2>2 DEF AddCookie
<1>7. CookieInv'
  BY <1>2, <1>4, <1>5, <1>6 DEF CookieInv, WellCookied, Numbered
<1>8. QED
  BY <1>7, NtpStep

LEMMA ServeStep == ASSUME NEW k \in DOMAIN asked PROVE IInv /\ Serve(k) => IInv'
<1> SUFFICES ASSUME IInv, Serve(k) PROVE IInv'
  OBVIOUS
<1> DEFINE a == asked[k]
           keys == Open(ring, a.cookie)
           fresh == Seal(ring, keys, now)
<1>1. /\ UNCHANGED <<ring, added, floor, now, started, who, request, up, down, server, client, jar>>
      /\ \/ /\ keys # Broken /\ CanSeal(ring)
            /\ asked' = [asked EXCEPT ![k].st = "served", ![k].fresh = fresh]
         \/ asked' = [asked EXCEPT ![k].st = "refused"]
  BY DEF Serve, keyVars
<1>2. a \in AskedRequest /\ (a.fresh # Broken => Numbered(a.fresh))
  <2>1. asked \in Seq(AskedRequest) /\ WellCookied(a)
    BY DEF IInv, CookieInv
  <2>2. a \in AskedRequest
    BY <2>1, LenProperties, ElementOfSeq
  <2>3. QED
    BY <2>1, <2>2 DEF WellCookied
<1>3. a = [cookie |-> a.cookie, fresh |-> a.fresh, st |-> a.st]
      /\ a.cookie \in SealedCookie /\ a.fresh \in SealedCookie \cup {Broken}
  BY <1>2 DEF AskedRequest
<1>4. CASE asked' = [asked EXCEPT ![k].st = "refused"]
  <2> DEFINE r == [a EXCEPT !.st = "refused"]
  <2>1. asked' = [asked EXCEPT ![k] = r]
    BY <1>4
  <2> HIDE DEF a
  <2>2. r = [cookie |-> a.cookie, fresh |-> a.fresh, st |-> "refused"]
    BY <1>3
  <2> HIDE DEF r
  <2>3. r \in AskedRequest /\ r.cookie = a.cookie /\ r.fresh = a.fresh /\ r.st = "refused"
    BY <1>3, <2>2 DEF AskedRequest
  <2>4. QED
    BY <1>1, <1>2, <2>1, <2>3, RequestStep DEF a
<1>5. CASE /\ keys # Broken /\ CanSeal(ring)
           /\ asked' = [asked EXCEPT ![k].st = "served", ![k].fresh = fresh]
  <2> DEFINE r == [a EXCEPT !.st = "served", !.fresh = fresh]
  <2>1. keys = ClientKeys
    BY <1>3, <1>5 DEF Open, SealedCookie
  <2>2. fresh \in SealedCookie /\ Numbered(fresh)
    <3>1. /\ ring \in [keys : Seq(Key), identity : {0, 1}]
          /\ \A j \in DOMAIN ring.keys : Numbered(ring.keys[j])
          /\ now \in Nat
      BY RingIsNumbered DEF IInv, RingInv, TypeInv
    <3>2. Seal(ring, ClientKeys, now) \in SealedCookie /\ Numbered(Seal(ring, ClientKeys, now))
      BY <1>5, <3>1, SealedByLast
    <3>3. fresh = Seal(ring, ClientKeys, now)
      BY <2>1
    <3>4. QED
      BY <3>2, <3>3
  <2>3. fresh # Broken
    BY <2>2 DEF SealedCookie, Broken
  <2> HIDE DEF keys
  <2>4. asked' = [asked EXCEPT ![k] = r]
    BY <1>5
  <2> HIDE DEF a, fresh
  <2>5. r = [cookie |-> a.cookie, fresh |-> fresh, st |-> "served"]
    <3>1. a = [cookie |-> a.cookie, fresh |-> a.fresh, st |-> a.st]
      BY <1>3
    <3> DEFINE b == [a EXCEPT !.st = "served"]
    <3>2. r = [b EXCEPT !.fresh = fresh]
      OBVIOUS
    <3> HIDE DEF r, b
    <3>3. b = [cookie |-> a.cookie, fresh |-> a.fresh, st |-> "served"]
      BY <3>1 DEF b
    <3>4. QED
      BY <3>2, <3>3
  <2> HIDE DEF r
  <2>6. r \in AskedRequest /\ r.cookie = a.cookie /\ r.fresh = fresh /\ r.st = "served"
    BY <1>3, <2>2, <2>5 DEF AskedRequest
  <2>7. QED
    BY <1>1, <2>2, <2>3, <2>4, <2>6, RequestStep DEF a
<1>6. QED
  BY <1>1, <1>4, <1>5

LEMMA ReceiveStep == ASSUME NEW k \in DOMAIN asked PROVE IInv /\ Receive(k) => IInv'
<1> SUFFICES ASSUME IInv, Receive(k) PROVE IInv'
  OBVIOUS
<1> DEFINE a == asked[k]
           r == [a EXCEPT !.st = "done"]
<1>1. /\ UNCHANGED <<ring, added, floor, now, started, who, request, up, down, server, client>>
      /\ a.st = "served" /\ jar' = AddCookie(jar, a.fresh)
      /\ asked' = [asked EXCEPT ![k] = r]
  BY DEF Receive, keyVars
<1>2. /\ a \in AskedRequest /\ (a.fresh # Broken => Numbered(a.fresh))
      /\ a.fresh # Broken
  <2>1. asked \in Seq(AskedRequest) /\ WellCookied(a)
    BY DEF IInv, CookieInv
  <2>2. a \in AskedRequest
    BY <2>1, LenProperties, ElementOfSeq
  <2>3. QED
    BY <1>1, <2>1, <2>2 DEF WellCookied
<1>3. a = [cookie |-> a.cookie, fresh |-> a.fresh, st |-> a.st]
      /\ a.cookie \in SealedCookie /\ a.fresh \in SealedCookie \cup {Broken}
  BY <1>2 DEF AskedRequest
<1> HIDE DEF a
<1>4. r = [cookie |-> a.cookie, fresh |-> a.fresh, st |-> "done"]
  BY <1>3
<1> HIDE DEF r
<1>5. r \in AskedRequest /\ r.cookie = a.cookie /\ r.fresh = a.fresh /\ r.st = "done"
  BY <1>3, <1>4 DEF AskedRequest
<1>6. QED
  BY <1>1, <1>2, <1>5, RequestStep DEF a

------------------------------------------------------------------------------
(* The invariant holds. *)

LEMMA InitInv == Init => IInv
<1> SUFFICES ASSUME Init PROVE IInv
  OBVIOUS
<1>1. /\ up = [q |-> <<>>, closed |-> FALSE] /\ down = [q |-> <<>>, closed |-> FALSE]
      /\ server = [st |-> "idle", plain |-> 0, got |-> 0, ended |-> FALSE, answer |-> <<>>]
      /\ client = [st |-> "start", got |-> 0, reply |-> <<>>]
      /\ who \in {"both", "server", "client", "plain"}
      /\ (request = OurRequest \/ (who = "server" /\ request \in Requests))
  BY DEF Init, Stream
<1>2. Len(request) \in Nat
  <2>1. Len(OurRequest) \in Nat
    BY DEF OurRequest
  <2>2. \A recs \in Requests : Len(recs) \in Nat
    BY KeAssumption, LenProperties
  <2>3. QED
    BY <1>1, <2>1, <2>2
<1>3. <<>> \in Seq(Items) /\ <<>> \in Seq(Items \ {"half"})
  BY EmptySeq
<1>4. TypeInv
  <2>1. /\ server.st = "idle" /\ server.plain = 0 /\ server.got = 0
        /\ server.ended = FALSE /\ server.answer = <<>>
        /\ client.st = "start" /\ client.got = 0 /\ client.reply = <<>>
    BY <1>1
  <2>2. up \in [q : Seq(Items), closed : BOOLEAN] /\ down \in [q : Seq(Items), closed : BOOLEAN]
    BY <1>1, <1>3
  <2>3. QED
    BY <1>1, <1>2, <2>1, <2>2 DEF Init, TypeInv
<1>5. RingInv
  <2>1. ring = [keys |-> <<>>, identity |-> 0] /\ added = <<>> /\ floor = 0
    BY DEF Init, NewRing
  <2>2. <<>> \in Seq(Key) /\ <<>> \in Seq(KeyIds) /\ Len(<<>>) = 0
    BY EmptySeq
  <2>3. ring.keys = <<>> /\ ring \in [keys : Seq(Key), identity : {0, 1}]
    BY <2>1, <2>2
  <2>4. AreLatest(<<>>, <<>>)
    BY <2>2 DEF AreLatest
  <2>5. QED
    BY <2>1, <2>2, <2>3, <2>4, CookieAssumption DEF RingInv
<1>6. StartedInv
  BY <1>1 DEF Init, StartedInv
<1>7. MessageInv
  <2>1. server.st = "idle" /\ client.st = "start" /\ client.got = 0 /\ down.q = <<>>
    BY <1>1
  <2>2. WholeMessages
    BY <2>1 DEF WholeMessages
  <2>3. QED
    BY <1>1, <1>3, <2>1, <2>2 DEF MessageInv
<1>8. CookieInv
  <2>1. asked = <<>> /\ jar = <<>>
    BY DEF Init
  <2>2. DOMAIN asked = {} /\ DOMAIN jar = {}
    BY <2>1
  <2>3. asked \in Seq(AskedRequest) /\ jar \in Seq(SealedCookie)
    BY <2>1, EmptySeq
  <2>4. QED
    BY <2>1, <2>2, <2>3 DEF CookieInv
<1>9. QED
  BY <1>4, <1>5, <1>6, <1>7, <1>8 DEF IInv

LEMMA DayStep == IInv /\ Day => IInv'
<1> SUFFICES ASSUME IInv, Day PROVE IInv'
  OBVIOUS
<1>1. /\ UNCHANGED <<ring, added, floor, started, who, request, up, down, server, client, jar, asked>>
      /\ now' = now + 1
  BY DEF Day
<1>2. now' \in Nat
  BY <1>1 DEF IInv, TypeInv
<1>3. TypeInv' /\ MessageInv'
  BY <1>1, <1>2 DEF IInv, TypeInv, MessageInv, WholeMessages, Numbered
<1>4. RingInv' /\ StartedInv' /\ CookieInv'
  BY <1>1 DEF IInv, RingInv, StartedInv, CookieInv, WellCookied, Numbered
<1>5. QED
  BY <1>3, <1>4 DEF IInv

LEMMA StepInv == IInv /\ [Next]_vars => IInv'
<1> SUFFICES ASSUME IInv, [Next]_vars PROVE IInv'
  OBVIOUS
<1>1. CASE ServerShakes
  BY <1>1, ShakesStep
<1>2. CASE ServerRefuses
  BY <1>2, RefusesStep
<1>3. CASE ServerDrains
  BY <1>3, DrainsStep
<1>4. CASE ServerReads
  BY <1>4, ReadsStep
<1>5. CASE ServerAnswers
  BY <1>5, AnswersStep
<1>6. CASE ClientHello
  BY <1>6, HelloStep
<1>7. CASE ClientAsks
  BY <1>7, AsksStep
<1>8. CASE ClientReads
  BY <1>8, ClientReadsStep
<1>9. CASE ClientChecks
  BY <1>9, ClientChecksStep
<1>10. CASE StrangerSends \/ StrangerLeaves
  BY <1>10, StrangerStep
<1>11. CASE StrangerAnswers
  BY <1>11, StrangerAnswersStep
<1>12. CASE Rotate
  BY <1>12, RotateStep
<1>13. CASE Prune
  BY <1>13, PruneStep
<1>14. CASE BindIdentity
  BY <1>14, BindStep
<1>15. CASE Start
  BY <1>15, StartStep
<1>16. CASE Ask
  BY <1>16, AskStep
<1>17. ASSUME NEW k \in DOMAIN asked, Serve(k) PROVE IInv'
  BY <1>17, ServeStep
<1>18. ASSUME NEW k \in DOMAIN asked, Receive(k) PROVE IInv'
  BY <1>18, ReceiveStep
<1>19. CASE UNCHANGED vars
  <2>1. UNCHANGED <<ring, added, floor, now, started, who, request, up, down, server, client, jar, asked>>
    BY <1>19 DEF vars
  <2>2. CookieInv'
    BY <2>1 DEF IInv, CookieInv, WellCookied, Numbered
  <2>3. QED
    BY <2>1, <2>2, NtpStep
<1>20. CASE Day
  BY <1>20, DayStep
<1>21. QED
  BY <1>1, <1>2, <1>3, <1>4, <1>5, <1>6, <1>7, <1>8, <1>9, <1>10, <1>11, <1>12, <1>13, <1>14,
     <1>15, <1>16, <1>17, <1>18, <1>19, <1>20 DEF Next, Thread, Client, Stranger, Owner

LEMMA Invariance == Spec => []IInv
BY InitInv, StepInv, PTL DEF Spec

------------------------------------------------------------------------------
(* The properties. *)

(* Neither end acts on a part of a message: however the streams are cut,   *)
(* for every request of a stranger and every answer, the server answers    *)
(* and the client is established only after an End of Message              *)
(* (tls_read_all, process_nts_ke_request, handshake).                      *)
THEOREM ActOnWholeMessages == Spec => []WholeMessages
<1>1. IInv => WholeMessages
  BY DEF IInv, MessageInv
<1>2. QED
  BY <1>1, Invariance, PTL

(* Every cookie a client of ours holds, sends or is given holds the keys   *)
(* that the client exported itself, each for its direction, whatever keys  *)
(* the ring has had and however often it was changed                       *)
(* (handle_nts_ke_connection, NtsKeClient::handshake, protect_response).   *)
THEOREM CookiesHoldOurKeys == Spec => []KeysAgree
<1>1. ASSUME IInv, who = "both", NEW c \in HeldCookies PROVE c.plain = ClientKeys
  <2>1. jar \in Seq(SealedCookie) /\ asked \in Seq(AskedRequest)
    BY <1>1 DEF IInv, CookieInv
  <2>2. DOMAIN jar = 1 .. Len(jar) /\ DOMAIN asked = 1 .. Len(asked)
    BY <2>1, LenProperties
  <2>3. \A k \in DOMAIN asked : asked[k] \in AskedRequest
    BY <2>1, <2>2, ElementOfSeq
  <2>4. \A k \in DOMAIN asked : /\ asked[k].cookie \in SealedCookie
                                /\ asked[k].fresh # Broken => asked[k].fresh \in SealedCookie
    BY <2>3 DEF AskedRequest
  <2>5. \A i \in DOMAIN jar : jar[i] \in SealedCookie
    BY <2>1, <2>2, ElementOfSeq
  <2>6. c \in SealedCookie
    BY <1>1, <2>4, <2>5 DEF HeldCookies, ToSet
  <2>7. QED
    BY <2>6 DEF SealedCookie
<1>2. IInv => KeysAgree
  BY <1>1 DEF KeysAgree
<1>3. QED
  BY <1>2, Invariance, PTL

\* A cookie whose key is still in the ring under the latest use of its number,
\* for the same identity, is opened.
LEMMA OpenedUnlessOutlived ==
  ASSUME RingInv, NEW c \in SealedCookie, Numbered(c), ~Outlived(c)
  PROVE  CanSeal(ring) /\ Open(ring, c) = ClientKeys
<1> DEFINE m == c.key
           total == Len(added)
           kept == Len(ring.keys)
           gone == total - kept
           at == Entries(ring, c.id)
           k == CHOOSE k \in at : \A j \in at : j <= k
<1>1. /\ ring.keys \in Seq(Key) /\ added \in Seq(KeyIds) /\ floor \in Nat /\ MaxKeys \in Nat
      /\ kept <= MaxKeys /\ kept <= total /\ (kept = MaxKeys \/ total - kept <= floor)
      /\ AreLatest(ring.keys, added)
  BY CookieAssumption DEF RingInv
<1>2. kept \in Nat /\ total \in Nat /\ DOMAIN ring.keys = 1 .. kept
  BY <1>1, LenProperties
<1>3. m \in Nat /\ m \in 1 .. total /\ c.id = added[m] /\ c.plain = ClientKeys
  BY DEF Numbered, SealedCookie
<1>4. /\ ~(m <= floor) /\ ~(total - m >= MaxKeys) /\ c.identity = ring.identity
      /\ \A j \in (m + 1) .. total : added[j] # added[m]
  BY DEF Outlived
<1>5. \A j \in 1 .. kept : ring.keys[j] = [id |-> added[gone + j], key |-> gone + j]
  BY <1>1 DEF AreLatest
<1>6. ASSUME NEW j \in 1 .. kept
      PROVE  ring.keys[j].id = added[gone + j] /\ ring.keys[j].key = gone + j
  <2> DEFINE n == gone + j
             e == ring.keys[j]
  <2>1. e = [id |-> added[n], key |-> n]
    BY <1>5
  <2> HIDE DEF e, n
  <2>2. e.id = added[n] /\ e.key = n
    BY <2>1
  <2>3. QED
    BY <2>2 DEF e, n
<1> HIDE DEF m, total, kept
<1>7. m > gone /\ m - gone \in 1 .. kept /\ gone + (m - gone) = m
  BY <1>1, <1>2, <1>3, <1>4
<1>8. at = {j \in 1 .. kept : added[gone + j] = c.id}
  BY <1>2, <1>6 DEF Entries
<1>9. m - gone \in at
  BY <1>3, <1>7, <1>8
<1> HIDE DEF gone
<1>10. k \in at /\ \A j \in at : j <= k
  <2>1. at \in SUBSET (1 .. kept) /\ at # {}
    BY <1>8, <1>9
  <2> HIDE DEF at
  <2>2. \E i \in at : \A j \in at : j <= i
    BY <1>2, <2>1, FirstPlace
  <2>3. QED
    BY <2>2
<1> HIDE DEF k
<1>11. k = m - gone
  <2>1. k \in 1 .. kept /\ added[gone + k] = c.id /\ m - gone <= k
    BY <1>8, <1>9, <1>10
  <2>2. gone \in Int /\ gone + kept = total
    BY <1>2 DEF gone
  <2>3. k # m - gone => gone + k \in (m + 1) .. total
    BY <1>2, <1>3, <1>7, <2>1, <2>2
  <2>4. QED
    BY <1>3, <1>4, <2>1, <2>3
<1>12. GetKey(ring, c.id) = c.key /\ HasKey(ring, c.id)
  <2>1. ring.keys[k].key = m
    BY <1>6, <1>7, <1>11
  <2>2. QED
    BY <1>9, <2>1 DEF GetKey, HasKey, k, m
<1>13. CanSeal(ring)
  <2>1. kept # 0
    BY <1>2, <1>7
  <2>2. QED
    BY <2>1, EmptySeq DEF CanSeal, kept
<1>14. QED
  BY <1>3, <1>4, <1>12, <1>13 DEF Open

(* A cookie is refused only when the key it was sealed with was pruned or  *)
(* pushed out by MaxKeys later ones, its number was given again or the     *)
(* identity changed, whatever the cookie's age: the keys of the ring grow  *)
(* old in the order they were added (add_key, prune_keys, get_key,         *)
(* CookieCipher::decrypt).                                                 *)
THEOREM CookiesLive == Spec => CookieLife
<1> DEFINE Refused(k) == asked'[k].st = "refused" /\ asked[k].st = "sent"
<1>1. ASSUME IInv, [Next]_vars, NEW k \in DOMAIN asked, Refused(k) PROVE Outlived(asked[k].cookie)
  <2>1. asked \in Seq(AskedRequest) /\ DOMAIN asked = 1 .. Len(asked) /\ WellCookied(asked[k])
    BY <1>1, LenProperties DEF IInv, CookieInv
  <2>2. asked'[k] # asked[k]
    BY <1>1
  <2>3. asked' # asked
    BY <2>2
  <2>4. CASE Ask
    <3> DEFINE r == [cookie |-> Head(jar), fresh |-> Broken, st |-> "sent"]
    <3>1. asked' = Append(asked, r)
      BY <2>4 DEF Ask
    <3>2. \A j \in 1 .. Len(asked) : Append(asked, r)[j] = asked[j]
      BY <2>1
    <3>3. QED
      BY <2>1, <2>2, <3>1, <3>2
  <2>5. ASSUME NEW j \in DOMAIN asked, Receive(j) PROVE FALSE
    <3>1. asked' = [asked EXCEPT ![j].st = "done"] /\ asked[j].st = "served"
      BY <2>5 DEF Receive
    <3>2. j # k
      BY <1>1, <3>1
    <3>3. QED
      BY <2>2, <3>1, <3>2
  <2>6. ASSUME NEW j \in DOMAIN asked, Serve(j) PROVE Outlived(asked[k].cookie)
    <3> DEFINE c == asked[j].cookie
               keys == Open(ring, c)
    <3>1. \/ /\ keys # Broken /\ keys.c2s = ClientKeys.c2s /\ CanSeal(ring)
             /\ asked' = [asked EXCEPT ![j].st = "served", ![j].fresh = Seal(ring, keys, now)]
          \/ /\ ~(keys # Broken /\ keys.c2s = ClientKeys.c2s /\ CanSeal(ring))
             /\ asked' = [asked EXCEPT ![j].st = "refused"]
      BY <2>6 DEF Serve
    <3>2. asked[j] \in AskedRequest /\ WellCookied(asked[j])
      <4>1. \A i \in DOMAIN asked : WellCookied(asked[i])
        BY <1>1 DEF IInv, CookieInv
      <4>2. QED
        BY <2>1, <4>1, ElementOfSeq
    <3>3. c \in SealedCookie /\ Numbered(c)
      BY <3>2 DEF AskedRequest, WellCookied
    <3> HIDE DEF c
    <3>4. j = k
      BY <2>2, <3>1
    <3>5. ~(keys # Broken /\ keys.c2s = ClientKeys.c2s /\ CanSeal(ring))
      <4>1. CASE asked' = [asked EXCEPT ![j].st = "served", ![j].fresh = Seal(ring, keys, now)]
        <5>1. asked'[j].st = "served"
          <6> DEFINE a == asked[j]
                     f == Seal(ring, keys, now)
                     r == [a EXCEPT !.st = "served", !.fresh = f]
          <6>1. asked' = [asked EXCEPT ![j] = r]
            BY <4>1
          <6>2. a = [cookie |-> a.cookie, fresh |-> a.fresh, st |-> a.st]
            BY <3>2 DEF AskedRequest
          <6> HIDE DEF a, f
          <6>3. r.st = "served"
            BY <6>2
          <6> HIDE DEF r
          <6>4. QED
            BY <6>1, <6>3
        <5>2. QED
          BY <1>1, <3>4, <5>1
      <4>2. QED
        BY <3>1, <4>1
    <3>6. ClientKeys # Broken
      BY DEF ClientKeys, Broken
    <3>7. RingInv
      BY <1>1 DEF IInv
    <3>8. Outlived(c)
      BY <3>3, <3>5, <3>6, <3>7, OpenedUnlessOutlived
    <3>9. QED
      BY <3>4, <3>8 DEF c
  <2>7. CASE asked' = asked
    BY <2>3, <2>7
  <2>8. \/ asked' = asked \/ Ask \/ \E j \in DOMAIN asked : Serve(j) \/ Receive(j)
    BY <1>1 DEF Next, vars, Thread, Client, Stranger, Owner, ServerShakes, ServerRefuses,
       ServerDrains, ServerReads, ServerAnswers, ClientHello, ClientAsks, ClientReads,
       ClientChecks, StrangerSends, StrangerLeaves, StrangerAnswers, Rotate, Prune,
       BindIdentity, Start, Day
  <2>9. QED
    BY <2>4, <2>5, <2>6, <2>7, <2>8
<1>2. IInv /\ [Next]_vars =>
        [\A k \in DOMAIN asked : asked'[k].st = "refused" /\ asked[k].st = "sent"
                                 => Outlived(asked[k].cookie)]_vars
  BY <1>1
<1>3. QED
  BY <1>2, Invariance, PTL DEF Spec, CookieLife
===============================================================================

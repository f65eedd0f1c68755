--------------------------- MODULE QueryTools_proofs ---------------------------
(***************************************************************************)
(* Proofs about the tools that ask a daemon, for every number of retries,  *)
(* every text and every cut of it: what ControlQuery puts together is an   *)
(* answer to the question asked, and of the samples of NtpDig the one that *)
(* promises least is taken and keeps its promise.                          *)
(***************************************************************************)
EXTENDS ControlQuery, NtpDig, TLAPS, SequenceTheorems, WellFoundedInduction

------------------------------------------------------------------------------
(* Control queries: the inductive invariant. *)

\* What the daemons say is text, or nothing.
TextsAreSequences == \A op, id, v : \/ Text(op, id, v) = NoText
                                    \/ \E Unit : Text(op, id, v) \in Seq(Unit)

Answered(q, v) == Text(q.op, q.id, v)
Given(status) == {v \in answered : StatusOf(v) = status}

\* The units are those of the text from the offset on.
CutFrom(text, offset, units) ==
  /\ Len(text) \in Nat /\ DOMAIN text = 1 .. Len(text)
  /\ offset \in Nat /\ Len(units) \in Nat /\ offset + Len(units) <= Len(text)
  /\ \A i \in 1 .. Len(units) : units[i] = text[offset + i]

\* A datagram brings a piece of an answer to the question asked now; only the
\* last piece says that there is no more.
PieceOfAnswer(d) ==
  \E v \in Given(d.status) :
     /\ CutFrom(Answered(query.q, v), d.offset, d.units)
     /\ ~d.more => d.offset + Len(d.units) = Len(Answered(query.q, v))

QueryInv ==
  /\ version \in Versions /\ answered \subseteq Versions /\ nextSeq \in 1 .. MaxSeq
  /\ query # Idle =>
       /\ query = [st |-> query.st, q |-> query.q, seq |-> query.seq,
                   attempt |-> query.attempt, got |-> query.got]
       /\ query.seq \in 1 .. MaxSeq /\ Following(query.seq) = nextSeq

\* Late datagrams have another number than the question, the others answer it.
NetInv ==
  \A d \in net :
    /\ d = [late |-> d.late, twice |-> d.twice, seq |-> d.seq, op |-> d.op,
            associd |-> d.associd, error |-> d.error, offset |-> d.offset,
            units |-> d.units, more |-> d.more, status |-> d.status]
    /\ d.late \in BOOLEAN /\ d.seq \in 1 .. MaxSeq
    /\ ~d.late => Following(d.seq) = nextSeq
    /\ query # Idle => IF d.late THEN d.seq # query.seq
                       ELSE d.error \/ PieceOfAnswer(d)

\* What was put together so far: pieces of answers with one status word.
GotInv ==
  query # Idle =>
    LET c == query.got IN
    /\ \A o \in DOMAIN c.at : \E v \in Given(c.status) :
         CutFrom(Answered(query.q, v), o, c.at[o])
    /\ c.end # Unknown => \E v \in Given(c.status) :
         /\ Len(Answered(query.q, v)) \in Nat
         /\ c.end = Len(Answered(query.q, v))

AnswerInv == QueryInv /\ NetInv /\ GotInv /\ AnswerWhole
------------------------------------------------------------------------------
(* Lemmas about pieces. *)

\* A quotient is small enough to be multiplied back.
LEMMA MultipliedBack ==
  ASSUME NEW x \in Nat, NEW c \in Nat \ {0}, NEW k \in 0 .. (x \div c)
  PROVE  c * k \in Nat /\ c * k <= x
<1>1. x \div c \in Nat /\ c * (x \div c) <= x
  OBVIOUS
<1>2. k \in Nat /\ k <= x \div c
  BY <1>1
<1> DEFINE y == x \div c
<1>3. y \in Nat /\ k <= y /\ c * y <= x
  BY <1>1, <1>2
<1> HIDE DEF y
<1>4. c * k <= c * y /\ c * k \in Nat /\ c * y \in Nat
  BY <1>2, <1>3
<1>5. QED
  BY <1>3, <1>4

\* A text is cut into pieces; the one with nothing after it reaches the end.
LEMMA PieceIsCut ==
  ASSUME NEW Unit, NEW text \in Seq(Unit), NEW cut \in Nat \ {0},
         NEW k \in 0 .. (IF text = <<>> THEN 0 ELSE (Len(text) - 1) \div cut),
         NEW units,
         units = SubSeq(text, cut * k + 1,
                        IF cut * (k + 1) < Len(text) THEN cut * (k + 1) ELSE Len(text))
  PROVE  /\ CutFrom(text, cut * k, units)
         /\ ~(cut * (k + 1) < Len(text)) => cut * k + Len(units) = Len(text)
<1> DEFINE o == cut * k
           last == IF cut * (k + 1) < Len(text) THEN cut * (k + 1) ELSE Len(text)
<1>1. Len(text) \in Nat /\ DOMAIN text = 1 .. Len(text)
  BY LenProperties
<1>2. k \in Nat /\ o \in Nat /\ o <= Len(text)
  <2>1. CASE text = <<>>
    <3>1. k = 0 /\ cut * 0 = 0
      BY <2>1
    <3>2. QED
      BY <1>1, <3>1
  <2>2. CASE text # <<>>
    <3>1. Len(text) - 1 \in Nat
      BY <1>1, <2>2, EmptySeq
    <3>2. k \in 0 .. ((Len(text) - 1) \div cut)
      BY <2>2
    <3>3. o \in Nat /\ o <= Len(text) - 1
      BY <3>1, <3>2, MultipliedBack
    <3>4. (Len(text) - 1) \div cut \in Nat
      BY <3>1
    <3>5. QED
      BY <1>1, <3>2, <3>3, <3>4
  <2>3. QED
    BY <2>1, <2>2
<1>3. cut * (k + 1) = o + cut /\ cut * (k + 1) \in Nat
  BY <1>2
<1>4. last \in Nat /\ o <= last /\ last <= Len(text)
  BY <1>1, <1>2, <1>3
<1>5. units = SubSeq(text, o + 1, last)
  OBVIOUS
<1>6. ~(cut * (k + 1) < Len(text)) => last = Len(text)
  OBVIOUS
<1> HIDE DEF o, last
<1>7. \A i \in (o + 1) .. last : text[i] \in Unit
  <2>1. \A i \in 1 .. Len(text) : text[i] \in Unit
    BY ElementOfSeq
  <2>2. QED
    BY <1>1, <1>2, <1>4, <2>1
<1> DEFINE n == last - o
<1>8. /\ n \in Nat /\ o + n = last
      /\ Len(units) = n /\ \A i \in 1 .. n : units[i] = text[o + i]
  <2>1. o + 1 \in Int /\ last \in Int /\ o + 1 <= last + 1 /\ n \in Nat /\ o + n = last
    BY <1>2, <1>4
  <2>2. /\ Len(SubSeq(text, o + 1, last)) = IF o + 1 <= last THEN last - (o + 1) + 1 ELSE 0
        /\ \A i \in 1 .. (last - (o + 1) + 1) : SubSeq(text, o + 1, last)[i] = text[o + 1 + i - 1]
    BY <1>2, <1>4, <1>7, SubSeqProperties
  <2>3. last - (o + 1) + 1 = n /\ (~(o + 1 <= last) => n = 0)
    BY <1>2, <1>4
  <2>4. \A i \in 1 .. n : o + 1 + i - 1 = o + i
    BY <1>2
  <2>5. QED
    BY <1>5, <2>1, <2>2, <2>3, <2>4
<1> HIDE DEF n
<1>9. CutFrom(text, o, units)
  BY <1>1, <1>2, <1>4, <1>8 DEF CutFrom
<1>10. QED
  BY <1>2, <1>4, <1>6, <1>8, <1>9 DEF o

\* Numbers follow one another without standing still.
LEMMA NextNumber ==
  ASSUME NEW n \in 1 .. MaxSeq
  PROVE  Following(n) \in 1 .. MaxSeq /\ Following(n) # n
BY QueryAssumption DEF Following

LEMMA StatusKnown ==
  ASSUME QueryInv, NEW s, NEW v \in Given(s)
  PROVE  s # Unknown
<1>1. StatusOf(v) \in Nat /\ s = StatusOf(v)
  BY QueryAssumption DEF QueryInv, Given
<1>2. QED
  BY <1>1 DEF Unknown

\* Every nonempty set of naturals below a bound has a greatest element.
LEMMA GreatestBelow ==
  ASSUME NEW n \in Nat, NEW S \in SUBSET Nat, S # {}, \A k \in S : k < n
  PROVE  \E o \in S : \A p \in S : p <= o
<1> DEFINE T == {n - k : k \in S}
<1>1. \A k \in S : k \in Nat /\ n - k \in Nat
  OBVIOUS
<1>2. T \in SUBSET Nat /\ T # {}
  BY <1>1
<1>3. PICK m \in T : \A j \in T : <<j, m>> \notin OpToRel(<, Nat)
  <2> HIDE DEF T
  <2>1. QED
    BY <1>2, NatLessThanWellFounded, WFMin
<1>4. ASSUME NEW j \in T PROVE ~(j < m)
  <2>1. m \in Nat /\ j \in Nat
    BY <1>2, <1>3
  <2>2. j < m => <<j, m>> \in OpToRel(<, Nat)
    BY <2>1 DEF OpToRel
  <2>3. QED
    BY <1>3, <2>2
<1>5. PICK o \in S : m = n - o
  OBVIOUS
<1>6. ASSUME NEW p \in S PROVE p <= o
  <2>1. n - p \in T
    OBVIOUS
  <2>2. ~(n - p < n - o)
    BY <1>4, <1>5, <2>1
  <2>3. p \in Nat /\ o \in Nat
    OBVIOUS
  <2> HIDE DEF T
  <2>4. QED
    BY <2>2, <2>3, Z3
<1>7. QED
  BY <1>6
------------------------------------------------------------------------------
(* Control queries: one lemma for each action. *)

LEMMA AskStep == AnswerInv /\ Ask => AnswerInv'
<1> SUFFICES ASSUME AnswerInv, Ask PROVE AnswerInv'
  OBVIOUS
<1> DEFINE q == Head(todo)
<1>1. /\ query' = [st |-> "send", q |-> q, seq |-> nextSeq, attempt |-> 0, got |-> NoPieces]
      /\ nextSeq' = Following(nextSeq) /\ answered' = {} /\ row' = Idle
      /\ net' = {[d EXCEPT !.late = TRUE] : d \in {x \in net : ~x.late}}
      /\ version' = version
  BY DEF Ask
<1> HIDE DEF q
<1>2. nextSeq \in 1 .. MaxSeq /\ nextSeq' \in 1 .. MaxSeq /\ nextSeq' # nextSeq
  BY <1>1, NextNumber DEF AnswerInv, QueryInv
<1>3. QueryInv'
  BY <1>1, <1>2 DEF AnswerInv, QueryInv
<1>4. NetInv'
  <2> SUFFICES ASSUME NEW e \in net'
               PROVE  /\ e = [late |-> e.late, twice |-> e.twice, seq |-> e.seq, op |-> e.op,
                              associd |-> e.associd, error |-> e.error, offset |-> e.offset,
                              units |-> e.units, more |-> e.more, status |-> e.status]
                      /\ e.late = TRUE /\ e.seq \in 1 .. MaxSeq /\ e.seq # query'.seq
    BY DEF NetInv
  <2>1. PICK d \in net : ~d.late /\ e = [d EXCEPT !.late = TRUE]
    BY <1>1
  <2>2. /\ d = [late |-> d.late, twice |-> d.twice, seq |-> d.seq, op |-> d.op,
                associd |-> d.associd, error |-> d.error, offset |-> d.offset,
                units |-> d.units, more |-> d.more, status |-> d.status]
        /\ d.seq \in 1 .. MaxSeq /\ Following(d.seq) = nextSeq
    BY <2>1 DEF AnswerInv, NetInv
  <2>3. d.seq # nextSeq
    BY <2>2, NextNumber
  <2>4. QED
    BY <1>1, <2>1, <2>2, <2>3
<1>5. GotInv'
  <2>1. query'.got.at = <<>> /\ query'.got.end = Unknown
    BY <1>1 DEF NoPieces
  <2>2. DOMAIN query'.got.at = {}
    BY <2>1
  <2>3. QED
    BY <2>1, <2>2 DEF GotInv
<1>6. AnswerWhole'
  BY <1>1 DEF AnswerWhole
<1>7. QED
  BY <1>3, <1>4, <1>5, <1>6 DEF AnswerInv

\* What is known stays known when the daemon answers again.
LEMMA GivenGrows ==
  ASSUME answered \subseteq answered', query # Idle, query' # Idle, query'.q = query.q,
         NEW d, PieceOfAnswer(d)
  PROVE  PieceOfAnswer(d)'
BY DEF PieceOfAnswer, Given, Answered

LEMMA SendStep ==
  ASSUME TextsAreSequences, AnswerInv, SendQuery
  PROVE  AnswerInv'
<1> DEFINE text == Text(query.q.op, query.q.id, version)
<1>1. /\ query # Idle
      /\ query = [st |-> query.st, q |-> query.q, seq |-> query.seq,
                  attempt |-> query.attempt, got |-> query.got]
      /\ query.seq \in 1 .. MaxSeq /\ Following(query.seq) = nextSeq
  BY DEF SendQuery, AnswerInv, QueryInv
<1>2. /\ query' = [query EXCEPT !.st = "wait", !.got = NoPieces]
      /\ UNCHANGED <<version, nextSeq, row>>
  BY DEF SendQuery
<1>3. /\ query' = [st |-> "wait", q |-> query.q, seq |-> query.seq,
                   attempt |-> query.attempt, got |-> NoPieces]
      /\ query' # Idle
  <2>1. query' = [st |-> "wait", q |-> query.q, seq |-> query.seq,
                   attempt |-> query.attempt, got |-> NoPieces]
    BY <1>1, <1>2
  <2>2. query'.st # Idle.st
    BY <2>1 DEF Idle
  <2>3. QED
    BY <2>1, <2>2
<1>4. \/ answered' = answered /\ net' = net
      \/ /\ text # NoText /\ answered' = answered \cup {version}
         /\ net' = net \cup Pieces(text, CutOf(version), query.seq, query.q)
      \/ /\ text = NoText /\ answered' = answered
         /\ net' = net \cup {Refusal(query.seq, query.q)}
  BY DEF SendQuery
<1>5. QueryInv'
  BY <1>1, <1>2, <1>3, <1>4 DEF AnswerInv, QueryInv
<1>6. \A d \in net' : d \notin net =>
        \/ /\ text # NoText /\ version \in answered'
           /\ d \in Pieces(text, CutOf(version), query.seq, query.q)
        \/ d = Refusal(query.seq, query.q)
  BY <1>4
<1>7. answered \subseteq answered'
  BY <1>4
<1> HIDE DEF text
<1>8. NetInv'
  <2> SUFFICES ASSUME NEW d \in net'
               PROVE  /\ d = [late |-> d.late, twice |-> d.twice, seq |-> d.seq, op |-> d.op,
                              associd |-> d.associd, error |-> d.error, offset |-> d.offset,
                              units |-> d.units, more |-> d.more, status |-> d.status]
                      /\ d.late \in BOOLEAN /\ d.seq \in 1 .. MaxSeq
                      /\ ~d.late => Following(d.seq) = nextSeq'
                      /\ IF d.late THEN d.seq # query'.seq ELSE d.error \/ PieceOfAnswer(d)'
    BY <1>3 DEF NetInv
  <2>1. CASE d \in net
    <3>1. PieceOfAnswer(d) => PieceOfAnswer(d)'
      BY <1>1, <1>3, <1>7, GivenGrows
    <3>2. QED
      BY <1>1, <1>2, <1>3, <2>1, <3>1 DEF AnswerInv, NetInv
  <2>2. CASE d = Refusal(query.seq, query.q)
    BY <1>1, <1>2, <2>2 DEF Refusal
  <2>3. CASE /\ text # NoText /\ version \in answered'
             /\ d \in Pieces(text, CutOf(version), query.seq, query.q)
    <3> DEFINE cut == CutOf(version)
    <3>1. PICK k \in 0 .. (IF text = <<>> THEN 0 ELSE (Len(text) - 1) \div cut) :
            d = [late |-> FALSE, twice |-> FALSE, seq |-> query.seq, op |-> query.q.op,
                 associd |-> query.q.id, error |-> FALSE, offset |-> cut * k,
                 units |-> SubSeq(text, cut * k + 1,
                                  IF cut * (k + 1) < Len(text) THEN cut * (k + 1) ELSE Len(text)),
                 more |-> cut * (k + 1) < Len(text), status |-> StatusOf(version)]
      BY <2>3 DEF Pieces
    <3>2. PICK Unit : text \in Seq(Unit)
      BY <2>3 DEF TextsAreSequences, text
    <3>3. cut \in Nat \ {0}
      BY QueryAssumption DEF AnswerInv, QueryInv
    <3> HIDE DEF cut
    <3>4. /\ d.offset = cut * k /\ d.more = (cut * (k + 1) < Len(text))
          /\ d.status = StatusOf(version) /\ d.late = FALSE /\ d.seq = query.seq
          /\ d.units = SubSeq(text, cut * k + 1,
                              IF cut * (k + 1) < Len(text) THEN cut * (k + 1) ELSE Len(text))
      BY <3>1
    <3>5. /\ CutFrom(text, cut * k, d.units)
          /\ ~(cut * (k + 1) < Len(text)) => cut * k + Len(d.units) = Len(text)
      BY <3>2, <3>3, <3>4, PieceIsCut
    <3>6. version \in Given(d.status)' /\ text = Answered(query.q, version)
      BY <1>2, <2>3, <3>4 DEF Given, Answered, text
    <3>7. PieceOfAnswer(d)'
      BY <1>3, <3>4, <3>5, <3>6 DEF PieceOfAnswer, Answered
    <3>8. QED
      BY <1>1, <1>2, <3>1, <3>4, <3>7
  <2>4. QED
    BY <1>6, <2>1, <2>2, <2>3
<1>9. GotInv'
  <2>1. query'.got.at = <<>> /\ query'.got.end = Unknown
    BY <1>3 DEF NoPieces
  <2>2. DOMAIN query'.got.at = {}
    BY <2>1
  <2>3. QED
    BY <2>1, <2>2 DEF GotInv
<1>10. AnswerWhole'
  BY <1>2 DEF AnswerInv, AnswerWhole
<1>11. QED
  BY <1>5, <1>8, <1>9, <1>10 DEF AnswerInv
\* A datagram that fits leaves pieces of one answer or of several that have
\* the same status word.
LEMMA ReceiveStep ==
  ASSUME AnswerInv, NEW e \in net, Receive(e)
  PROVE  AnswerInv'
<1> DEFINE q == query.q
           c == Added(query.got, e)
<1>1. /\ query # Idle
      /\ query = [st |-> query.st, q |-> query.q, seq |-> query.seq,
                  attempt |-> query.attempt, got |-> query.got]
      /\ query.seq \in 1 .. MaxSeq /\ Following(query.seq) = nextSeq
      /\ query.st = "wait" /\ Idle.st = "idle"
      /\ UNCHANGED <<version, nextSeq, answered>>
  BY DEF Receive, AnswerInv, QueryInv, Idle
<1>2. \/ UNCHANGED <<query, row>>
      \/ Failed
      \/ /\ IsAnswer(e) /\ ~e.error /\ Fits(query.got, e)
         /\ \/ Complete(c) /\ Finished(TRUE, Assembled(c), e.status)
            \/ query' = [query EXCEPT !.got = c] /\ UNCHANGED row
  BY DEF Receive
<1>3. \A d \in net' : d \in net \/ (~e.late /\ d = [e EXCEPT !.twice = TRUE])
  BY DEF Receive, Taken
<1> HIDE DEF c
\* The question stays the same, and is not over before it is asked.
<1>4. /\ query' = [st |-> query'.st, q |-> query'.q, seq |-> query'.seq,
                   attempt |-> query'.attempt, got |-> query'.got]
      /\ query'.q = query.q /\ query'.seq = query.seq /\ query' # Idle
      /\ query'.got = query.got \/ query'.got = c
  <2>1. CASE UNCHANGED query
    BY <1>1, <2>1
  <2>2. CASE query' = [query EXCEPT !.st = "over"]
    <3>1. query'.st = "over" /\ query'.st # Idle.st
      BY <1>1, <2>2
    <3>2. QED
      BY <1>1, <2>2, <3>1
  <2>3. CASE query' = [query EXCEPT !.got = c]
    <3>1. query'.st = "wait" /\ query'.st # Idle.st
      BY <1>1, <2>3
    <3>2. QED
      BY <1>1, <2>3, <3>1
  <2>4. QED
    BY <1>2, <2>1, <2>2, <2>3 DEF Failed, Finished
<1>5. QueryInv'
  BY <1>1, <1>4 DEF AnswerInv, QueryInv
<1>6. NetInv'
  <2> SUFFICES ASSUME NEW d \in net'
               PROVE  /\ d = [late |-> d.late, twice |-> d.twice, seq |-> d.seq, op |-> d.op,
                              associd |-> d.associd, error |-> d.error, offset |-> d.offset,
                              units |-> d.units, more |-> d.more, status |-> d.status]
                      /\ d.late \in BOOLEAN /\ d.seq \in 1 .. MaxSeq
                      /\ ~d.late => Following(d.seq) = nextSeq'
                      /\ IF d.late THEN d.seq # query'.seq ELSE d.error \/ PieceOfAnswer(d)'
    BY <1>4 DEF NetInv
  <2>1. CASE d \in net
    <3>1. PieceOfAnswer(d) => PieceOfAnswer(d)'
      BY <1>1, <1>4, GivenGrows
    <3>2. QED
      BY <1>1, <1>4, <2>1, <3>1 DEF AnswerInv, NetInv
  <2>2. CASE ~e.late /\ d = [e EXCEPT !.twice = TRUE]
    <3>1. /\ e = [late |-> e.late, twice |-> e.twice, seq |-> e.seq, op |-> e.op,
                  associd |-> e.associd, error |-> e.error, offset |-> e.offset,
                  units |-> e.units, more |-> e.more, status |-> e.status]
          /\ e.late \in BOOLEAN /\ e.seq \in 1 .. MaxSeq
          /\ Following(e.seq) = nextSeq /\ (e.error \/ PieceOfAnswer(e))
      BY <1>1, <2>2 DEF AnswerInv, NetInv
    <3>2. d = [late |-> e.late, twice |-> TRUE, seq |-> e.seq, op |-> e.op,
               associd |-> e.associd, error |-> e.error, offset |-> e.offset,
               units |-> e.units, more |-> e.more, status |-> e.status]
      BY <2>2, <3>1
    <3>3. /\ d.late = e.late /\ d.seq = e.seq /\ d.error = e.error /\ d.offset = e.offset
          /\ d.units = e.units /\ d.more = e.more /\ d.status = e.status
      BY <3>2
    <3>4. PieceOfAnswer(e) => PieceOfAnswer(d)'
      BY <1>1, <1>4, <3>3 DEF PieceOfAnswer, Given, Answered
    <3>5. QED
      BY <1>1, <2>2, <3>1, <3>2, <3>3, <3>4
  <2>3. QED
    BY <1>3, <2>1, <2>2
\* What is put together after this datagram.
<1>7. ASSUME IsAnswer(e), ~e.error, Fits(query.got, e)
      PROVE  /\ c.status = e.status /\ DOMAIN c.at \subseteq Nat
             /\ \A o \in DOMAIN c.at : \E v \in Given(e.status) :
                  CutFrom(Answered(q, v), o, c.at[o])
             /\ c.end # Unknown => \E v \in Given(e.status) :
                  Len(Answered(q, v)) \in Nat /\ c.end = Len(Answered(q, v))
  <2>1. PieceOfAnswer(e)
    BY <1>1, <1>7 DEF AnswerInv, NetInv, IsAnswer
  <2>2. PICK w \in Given(e.status) :
          /\ CutFrom(Answered(q, w), e.offset, e.units)
          /\ ~e.more => e.offset + Len(e.units) = Len(Answered(q, w))
    BY <2>1 DEF PieceOfAnswer
  <2>3. /\ DOMAIN c.at = {e.offset} \cup DOMAIN query.got.at
        /\ \A o \in DOMAIN c.at : c.at[o] = IF o = e.offset THEN e.units ELSE query.got.at[o]
        /\ c.end = IF e.more THEN query.got.end ELSE e.offset + Len(e.units)
        /\ c.status = e.status
    BY DEF c, Added, EndOf
  <2>4. query.got.status = e.status \/ query.got.status = Unknown
    BY <1>7 DEF Fits, Consistent
  <2>5. query.got.status = Unknown => DOMAIN query.got.at = {} /\ query.got.end = Unknown
    BY <1>1, StatusKnown DEF AnswerInv, GotInv
  <2>6. /\ \A o \in DOMAIN query.got.at : \E v \in Given(e.status) :
             CutFrom(Answered(q, v), o, query.got.at[o])
        /\ query.got.end # Unknown => \E v \in Given(e.status) :
             Len(Answered(q, v)) \in Nat /\ query.got.end = Len(Answered(q, v))
    BY <1>1, <2>4, <2>5 DEF AnswerInv, GotInv
  <2>7. \A o \in DOMAIN c.at : \E v \in Given(e.status) : CutFrom(Answered(q, v), o, c.at[o])
    BY <2>2, <2>3, <2>6
  <2>8. DOMAIN c.at \subseteq Nat
    BY <2>7 DEF CutFrom
  <2>9. c.end # Unknown => \E v \in Given(e.status) :
          Len(Answered(q, v)) \in Nat /\ c.end = Len(Answered(q, v))
    BY <2>2, <2>3, <2>6 DEF CutFrom
  <2>10. QED
    BY <2>3, <2>7, <2>8, <2>9
<1>8. GotInv'
  <2>1. CASE query'.got = query.got
    BY <1>1, <1>4, <2>1 DEF AnswerInv, GotInv, Given, Answered
  <2>2. CASE IsAnswer(e) /\ ~e.error /\ Fits(query.got, e) /\ query'.got = c
    BY <1>1, <1>4, <1>7, <2>2 DEF GotInv, Given, Answered
  <2>3. QED
    <3>1. UNCHANGED query \/ query' = [query EXCEPT !.st = "over"] => query'.got = query.got
      BY <1>1
    <3>2. QED
      BY <1>1, <1>2, <1>4, <2>1, <2>2, <3>1 DEF Failed, Finished
<1>9. AnswerWhole'
  <2>1. CASE UNCHANGED row
    BY <2>1 DEF AnswerInv, AnswerWhole
  <2>2. CASE Failed
    BY <2>2 DEF Failed, Finished, AnswerWhole
  <2>3. CASE /\ IsAnswer(e) /\ ~e.error /\ Fits(query.got, e)
             /\ Complete(c) /\ Finished(TRUE, Assembled(c), e.status)
    <3> DEFINE given == {Answered(q, v) : v \in Given(e.status)}
    <3>1. /\ row'.q = q /\ row'.units = Assembled(c) /\ row'.status = e.status
          /\ row'.from = answered
      BY <2>3 DEF Finished
    <3>2. PICK t \in given : Len(t) \in Nat /\ c.end = Len(t)
      BY <1>7, <2>3 DEF Complete
    <3>3. DOMAIN Assembled(c) = 1 .. c.end /\ Len(Assembled(c)) = c.end
      <4>1. Assembled(c) = [i \in 1 .. c.end |-> Assembled(c)[i]]
        BY DEF Assembled
      <4>2. Assembled(c) \in Seq({Assembled(c)[i] : i \in 1 .. c.end})
        BY <3>2, <4>1, IsASeq
      <4>3. Len(Assembled(c)) \in Nat /\ DOMAIN Assembled(c) = 1 .. Len(Assembled(c))
        BY <4>2, LenProperties
      <4>4. DOMAIN Assembled(c) = 1 .. c.end
        BY <4>1
      <4>5. QED
        BY <3>2, <4>2, <4>3, <4>4, LenProperties
    <3>4. ASSUME NEW i \in 1 .. c.end
          PROVE  \E text \in given : i \in DOMAIN text /\ text[i] = Assembled(c)[i]
      <4>1. CoveredAt(c, i) # {}
        BY <2>3 DEF Complete
      <4>2. \E o \in CoveredAt(c, i) : \A p \in CoveredAt(c, i) : p <= o
        <5>1. i \in Nat /\ CoveredAt(c, i) \in SUBSET Nat /\ \A o \in CoveredAt(c, i) : o < i
          BY <1>7, <2>3, <3>2 DEF CoveredAt
        <5>2. QED
          BY <4>1, <5>1, GreatestBelow
      <4>3. PICK o \in CoveredAt(c, i) : Assembled(c)[i] = c.at[o][i - o]
        BY <4>1, <4>2 DEF Assembled
      <4>4. o \in DOMAIN c.at /\ o < i /\ i <= o + Len(c.at[o])
        BY <4>3 DEF CoveredAt, EndOf
      <4>5. PICK v \in Given(e.status) : CutFrom(Answered(q, v), o, c.at[o])
        BY <1>7, <2>3, <4>4
      <4>6. i \in 1 .. Len(Answered(q, v)) /\ i - o \in 1 .. Len(c.at[o]) /\ o + (i - o) = i
        BY <3>2, <4>4, <4>5 DEF CutFrom
      <4>7. QED
        BY <4>3, <4>5, <4>6 DEF CutFrom
    <3>5. given = {Text(row'.q.op, row'.q.id, v) : v \in {x \in row'.from : StatusOf(x) = row'.status}}
      BY <3>1 DEF Given, Answered
    <3>6. QED
      BY <3>1, <3>2, <3>3, <3>4, <3>5 DEF AnswerWhole
  <2>4. QED
    BY <1>2, <2>1, <2>2, <2>3
<1>10. QED
  BY <1>5, <1>6, <1>8, <1>9 DEF AnswerInv

\* A question ends or begins again: nothing is added to what is known of it.
LEMMA SameQuestion ==
  ASSUME AnswerInv, query # Idle, query' # Idle,
         query' = [query EXCEPT !.st = query'.st, !.attempt = query'.attempt],
         UNCHANGED <<version, nextSeq, answered, net>>,
         row' = row \/ row'.ok = FALSE
  PROVE  AnswerInv'
<1>1. query = [st |-> query.st, q |-> query.q, seq |-> query.seq,
               attempt |-> query.attempt, got |-> query.got]
  BY DEF AnswerInv, QueryInv
<1>2. /\ query' = [st |-> query'.st, q |-> query'.q, seq |-> query'.seq,
                   attempt |-> query'.attempt, got |-> query'.got]
      /\ query'.q = query.q /\ query'.seq = query.seq /\ query'.got = query.got
  BY <1>1
<1>3. QueryInv'
  BY <1>2 DEF AnswerInv, QueryInv
<1>4. NetInv'
  <2>1. \A d : PieceOfAnswer(d) => PieceOfAnswer(d)'
    BY <1>2 DEF PieceOfAnswer, Given, Answered
  <2>2. QED
    BY <1>2, <2>1 DEF AnswerInv, NetInv
<1>5. GotInv'
  BY <1>2 DEF AnswerInv, GotInv, Given, Answered
<1>6. AnswerWhole'
  BY DEF AnswerInv, AnswerWhole
<1>7. QED
  BY <1>3, <1>4, <1>5, <1>6 DEF AnswerInv

LEMMA FailedStep ==
  ASSUME AnswerInv, query # Idle, Failed, UNCHANGED <<version, nextSeq, answered, net>>
  PROVE  AnswerInv'
<1>1. query = [st |-> query.st, q |-> query.q, seq |-> query.seq,
               attempt |-> query.attempt, got |-> query.got]
  BY DEF AnswerInv, QueryInv
<1>2. query' = [query EXCEPT !.st = "over"] /\ row'.ok = FALSE
  BY DEF Failed, Finished
<1>3. /\ query'.st = "over" /\ Idle.st = "idle" /\ query' # Idle
      /\ query' = [query EXCEPT !.st = query'.st, !.attempt = query'.attempt]
  BY <1>1, <1>2 DEF Idle
<1>4. QED
  BY <1>2, <1>3, SameQuestion

LEMMA TimeoutStep == AnswerInv /\ Timeout => AnswerInv'
<1> SUFFICES ASSUME AnswerInv, Timeout PROVE AnswerInv'
  OBVIOUS
<1>1. query = [st |-> query.st, q |-> query.q, seq |-> query.seq,
               attempt |-> query.attempt, got |-> query.got]
  BY DEF AnswerInv, QueryInv, Timeout
<1>2. CASE Failed
  BY <1>2, FailedStep DEF Timeout
<1>3. CASE /\ query' = [query EXCEPT !.st = "send", !.attempt = NextAttempt(@)]
           /\ UNCHANGED row
  <2>1. /\ query'.st = "send" /\ Idle.st = "idle" /\ query' # Idle
        /\ query' = [query EXCEPT !.st = query'.st, !.attempt = query'.attempt]
    BY <1>1, <1>3 DEF Idle
  <2>2. QED
    BY <1>3, <2>1, SameQuestion DEF Timeout
<1>4. QED
  BY <1>2, <1>3 DEF Timeout

LEMMA NoNetworkStep == AnswerInv /\ NoNetwork => AnswerInv'
BY FailedStep DEF NoNetwork

\* Between two questions the numbers go on, or begin again with no datagram
\* left that has one (trace_host).
LEMMA ConcludeStep == AnswerInv /\ Conclude => AnswerInv'
<1> SUFFICES ASSUME AnswerInv, Conclude PROVE AnswerInv'
  OBVIOUS
<1>1. query' = Idle /\ UNCHANGED <<version, answered, row>>
  BY DEF Conclude
<1>2. UNCHANGED <<nextSeq, net>> \/ (nextSeq' = 1 /\ net' = {})
  BY DEF Conclude, Stops, GoesOn
<1>3. 1 \in 1 .. MaxSeq
  BY QueryAssumption
<1>4. QueryInv' /\ NetInv' /\ GotInv'
  BY <1>1, <1>2, <1>3 DEF AnswerInv, QueryInv, NetInv, GotInv
<1>5. QED
  BY <1>1, <1>4 DEF AnswerInv, AnswerWhole

LEMMA ChangeStep == AnswerInv /\ (Change \/ UNCHANGED vars) => AnswerInv'
<1> SUFFICES ASSUME AnswerInv, Change \/ UNCHANGED vars PROVE AnswerInv'
  OBVIOUS
<1>1. version' \in Versions /\ UNCHANGED <<nextSeq, query, answered, net, row>>
  BY DEF Change, vars, AnswerInv, QueryInv
<1>2. QueryInv' /\ GotInv'
  BY <1>1 DEF AnswerInv, QueryInv, GotInv, Given, Answered
<1>3. NetInv'
  <2>1. \A d : PieceOfAnswer(d) => PieceOfAnswer(d)'
    BY <1>1 DEF PieceOfAnswer, Given, Answered
  <2>2. QED
    BY <1>1, <2>1 DEF AnswerInv, NetInv
<1>4. QED
  BY <1>1, <1>2, <1>3 DEF AnswerInv, AnswerWhole

LEMMA QueryInvariance == TextsAreSequences => (Spec => []AnswerInv)
<1> SUFFICES ASSUME TextsAreSequences PROVE Spec => []AnswerInv
  OBVIOUS
<1>1. Init => AnswerInv
  BY QueryAssumption DEF Init, AnswerInv, QueryInv, NetInv, GotInv, AnswerWhole
<1>2. AnswerInv /\ [Next]_vars => AnswerInv'
  <2> SUFFICES ASSUME AnswerInv, [Next]_vars PROVE AnswerInv'
    OBVIOUS
  <2>1. ASSUME NEW d \in net, Receive(d) PROVE AnswerInv'
    BY <2>1, ReceiveStep
  <2>2. QED
    BY <2>1, AskStep, SendStep, TimeoutStep, NoNetworkStep, ConcludeStep, ChangeStep
       DEF Next, Client
<1>3. QED
  BY <1>1, <1>2, PTL DEF Spec

\* An answer a tool gets is one the daemon gave to this very question, or put
\* together of such answers with one status word, however the datagrams were
\* lost, doubled, overtaken or late (query, query_with_body, add_fragment).
THEOREM AnswersWhole == TextsAreSequences => (Spec => []AnswerWhole)
<1> SUFFICES ASSUME TextsAreSequences PROVE Spec => []AnswerWhole
  OBVIOUS
<1>1. AnswerInv => AnswerWhole
  BY DEF AnswerInv
<1>2. QED
  BY <1>1, QueryInvariance, PTL

------------------------------------------------------------------------------
(* ntpdig. *)

Exchange == [twice : Int, delay : Nat]

\* Its error is within half of its delay, whatever the way there and back took.
Honest(m) == Away(m.twice + 2 * Error) <= m.delay

DigInv ==
  /\ digTime \in Nat
  /\ dig \in [st : {"start", "error", "done"}, best : Exchange \cup {None}, taken : Seq(Exchange)]
  /\ \A k \in DOMAIN dig.taken : Honest(dig.taken[k])
  /\ dig.best = None => dig.taken = <<>>
  /\ dig.best # None => /\ Honest(dig.best)
                        /\ \A k \in DOMAIN dig.taken : dig.best.delay <= dig.taken[k].delay
  /\ dig.st = "done" => dig.taken # <<>>

\* A sample is off by no more than half of its delay (query_once).
LEMMA SampleHonest ==
  ASSUME digTime \in Nat, NEW up \in Latencies, NEW held \in {0, 1}, NEW down \in Latencies,
         NEW m, m = Measured(Local(digTime), digTime + up, digTime + up + held,
                             Local(digTime + up + held + down))
  PROVE  m \in Exchange /\ Honest(m) /\ m # None /\ digTime + up + held + down \in Nat
<1>1. up \in Nat /\ held \in Nat /\ down \in Nat /\ Error \in Int /\ digTime \in Nat
  BY DigAssumption
<1>2. m = [twice |-> up - down - 2 * Error, delay |-> up + down]
  BY <1>1 DEF Measured, Local
<1>3. m.twice = up - down - 2 * Error /\ m.delay = up + down
  BY <1>2
<1>4. m # None
  BY <1>2 DEF None
<1>5. QED
  BY <1>1, <1>2, <1>3, <1>4 DEF Exchange, Honest, Away

LEMMA SampleStep == DigInv /\ DigSample => DigInv'
<1> SUFFICES ASSUME DigInv, DigSample PROVE DigInv'
  OBVIOUS
<1>1. PICK up \in Latencies, held \in {0, 1}, down \in Latencies :
        LET m == Measured(Local(digTime), digTime + up, digTime + up + held,
                          Local(digTime + up + held + down))
        IN  /\ digTime' = digTime + up + held + down
            /\ dig' = [dig EXCEPT !.taken = Append(@, m), !.best = Better(@, m)]
  BY DEF DigSample
<1> DEFINE m == Measured(Local(digTime), digTime + up, digTime + up + held,
                         Local(digTime + up + held + down))
<1>2. m \in Exchange /\ Honest(m) /\ m # None /\ digTime' \in Nat
  BY <1>1, SampleHonest DEF DigInv
<1> HIDE DEF m
<1>3. /\ dig'.taken = Append(dig.taken, m) /\ dig'.best = Better(dig.best, m)
      /\ dig'.st = "start"
      /\ dig' = [st |-> dig'.st, best |-> dig'.best, taken |-> dig'.taken]
  BY <1>1 DEF DigInv, DigSample, m
<1>4. /\ dig'.taken \in Seq(Exchange)
      /\ \A k \in DOMAIN dig'.taken : \/ dig'.taken[k] = m
                                      \/ k \in DOMAIN dig.taken /\ dig'.taken[k] = dig.taken[k]
  BY <1>2, <1>3, AppendProperties DEF DigInv
<1>5. /\ \A k \in DOMAIN dig.taken : dig.taken[k].delay \in Nat
      /\ m.delay \in Nat /\ (dig.best # None => dig.best.delay \in Nat)
  <2>1. \A k \in DOMAIN dig.taken : dig.taken[k] \in Exchange
    BY ElementOfSeq DEF DigInv
  <2>2. dig.best # None => dig.best \in Exchange
    BY DEF DigInv
  <2>3. QED
    BY <1>2, <2>1, <2>2 DEF Exchange
<1>6. CASE dig'.best = m /\ (dig.best = None \/ m.delay < dig.best.delay)
  <2>1. \A k \in DOMAIN dig.taken : m.delay <= dig.taken[k].delay
    <3>1. CASE dig.best = None
      <4>1. DOMAIN dig.taken = {}
        BY <3>1 DEF DigInv
      <4>2. QED
        BY <4>1
    <3>2. CASE dig.best # None
      <4>1. \A k \in DOMAIN dig.taken : dig.best.delay <= dig.taken[k].delay
        BY <3>2 DEF DigInv
      <4>2. m.delay < dig.best.delay
        BY <1>6, <3>2
      <4>3. QED
        BY <1>5, <3>2, <4>1, <4>2
    <3>3. QED
      BY <3>1, <3>2
  <2>2. \A k \in DOMAIN dig'.taken : m.delay <= dig'.taken[k].delay
    BY <1>4, <1>5, <2>1
  <2>3. QED
    BY <2>2, <1>2, <1>3, <1>4, <1>6 DEF DigInv
<1>7. CASE dig'.best = dig.best /\ dig.best # None /\ ~(m.delay < dig.best.delay)
  <2>1. \A k \in DOMAIN dig.taken : dig.best.delay <= dig.taken[k].delay
    BY <1>7 DEF DigInv
  <2>2. \A k \in DOMAIN dig'.taken : dig'.best.delay <= dig'.taken[k].delay
    BY <1>4, <1>5, <1>7, <2>1
  <2>3. QED
    BY <2>2, <1>2, <1>3, <1>4, <1>7 DEF DigInv
<1>8. QED
  BY <1>3, <1>6, <1>7 DEF Better

LEMMA DigInvariance == DigSpec => []DigInv
<1>1. DigInit => DigInv
  BY DEF DigInit, DigInv
<1>2. DigInv /\ [DigNext]_digVars => DigInv'
  <2> SUFFICES ASSUME DigInv, [DigNext]_digVars PROVE DigInv'
    OBVIOUS
  <2>1. CASE DigSample
    BY <2>1, SampleStep
  <2>2. CASE DigFails
    BY <2>2 DEF DigFails, DigInv
  <2>3. CASE DigEnds
    <3>1. Len(dig.taken) # 0
      BY <2>3, DigAssumption DEF DigEnds, Rounds
    <3>2. QED
      BY <2>3, <3>1 DEF DigEnds, DigInv
  <2>4. CASE UNCHANGED digVars
    BY <2>4 DEF digVars, DigInv
  <2>5. QED
    BY <2>1, <2>2, <2>3, <2>4 DEF DigNext
<1>3. QED
  BY <1>1, <1>2, PTL DEF DigSpec

\* The offset ntpdig shows is wrong by half the delay it shows at most, and no
\* other sample promised less, for every error of the clock and every way the
\* packets took (query, query_once).
THEOREM BestSampleNearest == DigSpec => []BestIsNearest
<1>1. DigInv => BestIsNearest
  <2> SUFFICES ASSUME DigInv, dig.st = "done" PROVE BestIsNearest
    BY DEF BestIsNearest
  <2>1. dig.best # None
    BY DEF DigInv
  <2>2. QED
    BY <2>1 DEF DigInv, BestIsNearest, Honest
<1>2. QED
  BY <1>1, DigInvariance, PTL
================================================================================

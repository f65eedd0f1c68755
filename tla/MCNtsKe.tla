------------------------------ MODULE MCNtsKe -------------------------------
(* Instances of NtsKe for TLC: requests and answers with one thing wrong.  *)
EXTENDS NtsKe

P == Record("protocol", TRUE, <<NTPv4>>)
A(algs) == Record("aead", TRUE, algs)
E == Record("eom", TRUE, <<>>)
RequestSet == {
  <<P, A(<<AesGcm128, AesSiv512, AesSiv256>>), E>>,      \* what the server has, in the client's order
  <<P, A(<<AesGcm128>>), E>>,                            \* nothing the server has
  <<P, A(<<AesSiv256>>)>>,                               \* no end
  <<P, A(<<AesSiv256>>), E, Record("warning", FALSE, <<>>)>>,
  <<Record("warning", TRUE, <<>>), A(<<AesSiv256>>), P, E>>,
  <<P, P, A(<<AesSiv256>>), E>>,
  <<Record("protocol", TRUE, <<1>>), A(<<AesSiv256>>), E>>,
  <<P, [A(<<AesSiv256>>) EXCEPT !.odd = TRUE], E>>,
  <<P, Record("cookie", TRUE, <<>>), A(<<AesSiv256>>), E>>,
  <<P, Record("port", FALSE, <<>>), A(<<AesSiv256>>), E>>,
  <<P, A(<<AesSiv256>>), Record("eom", FALSE, <<>>)>>,
  <<P, Record("error", TRUE, <<1>>)>>,
  <<>>}

C == Record("cookie", FALSE, <<[id |-> 1, key |-> 0, identity |-> 0, plain |-> Broken, at |-> 0]>>)
AnswerSet == {
  <<P, A(<<AesSiv256>>), C, E>>,
  <<P, A(<<AesSiv256>>), E>>,
  <<P, A(<<AesSiv512>>), C, E>>,
  <<P, A(<<AesSiv256>>), A(<<AesSiv256>>), C, E>>,
  <<P, Record("warning", TRUE, <<>>), A(<<AesSiv256>>), C, E>>,
  <<P, A(<<AesSiv256>>), C, Record("server", FALSE, <<>>), E>>,
  <<P, A(<<AesSiv256>>), C, E, C>>,
  <<Record("error", TRUE, <<1>>), E>>}
=============================================================================

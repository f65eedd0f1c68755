------------------------------ MODULE MCTables ------------------------------
(* Instances of the modules about files and calendars for TLC, the         *)
(* configuration among them: a behaviour is one of them, so that they do   *)
(* not multiply.                                                           *)
EXTENDS MCConfigLoad, KeyStore, LeapTable, StatsFiles, Timecodes

VARIABLE part

allVars == <<vars, keyVars, leapVars, statsVars, timeVars, part>>

\* Keys: two configured files, one given.
KeyLine(id, digest, length, hex, secret, trusted) ==
  [fields |-> IF trusted THEN 4 ELSE 3, id |-> id, digest |-> digest, length |-> length,
   hex |-> hex, secret |-> secret, trusted |-> trusted]
Comment == [KeyLine(0, "", 0, FALSE, <<>>, FALSE) EXCEPT !.fields = 0]
First == KeyLine(1, "md5", 16, FALSE, <<"s">>, TRUE)
Other == KeyLine(1, "sha1", 40, TRUE, <<"t">>, FALSE)
Second == KeyLine(2, "aes", 20, FALSE, <<"u">>, FALSE)
Odd == KeyLine(3, "md5", 21, TRUE, <<"v">>, FALSE)
ContentSet == {<<Comment, First, Second>>, <<Other>>, <<First, Odd, Second>>,
               <<Second, [First EXCEPT !.fields = 2], [First EXCEPT !.id = 0]>>}
ConfiguredSeq == <<"ntp.keys", "more.keys">>
GivenSeq == <<"given.keys">>
GeneratedSet == {[digest |-> "md5", length |-> 16], [digest |-> "sha256", length |-> 32]}

\* Leap seconds: Gap + 2, Gap + 5 and one removed.
LeapLine(t, off, good) == [time |-> t, offset |-> off, good |-> good]
LeapFileSet ==
  {[expires |-> 109, hashed |-> TRUE, lines |-> <<LeapLine(105, 1, TRUE), LeapLine(102, 1, TRUE)>>],
   [expires |-> 107, hashed |-> FALSE, lines |-> <<LeapLine(102, 1, TRUE), LeapLine(104, -1, TRUE)>>],
   [expires |-> NoExpiry, hashed |-> FALSE, lines |-> <<LeapLine(103, 1, TRUE), LeapLine(105, 1, FALSE)>>]}

\* Statistics: the turn of a year and a leap day.
EntrySet == {{}, {[gen |-> "pid", enabled |-> TRUE, same |-> TRUE]}}
  \cup {{[gen |-> "day", enabled |-> e, same |-> m]} : e \in BOOLEAN, m \in BOOLEAN}
  \cup {{[gen |-> g, enabled |-> TRUE, same |-> TRUE]} : g \in {"week", "month", "year"}}
DaySet == {DateDays(2023, 12, 31), DateDays(2024, 1, 1), DateDays(2024, 2, 29)}

\* Calendars: three years from before 1970, and around 2000 and 2100.
StartSet == {[y |-> 1969, m |-> 12, d |-> 1, n |-> -31], [y |-> 1999, m |-> 1, d |-> 1, n |-> 10592],
             [y |-> 2099, m |-> 1, d |-> 1, n |-> 47117]}
ClockSet == {[h |-> 23, mi |-> 59, s |-> 58, digits |-> <<5>>],
             [h |-> 0, mi |-> 0, s |-> 0, digits |-> <<1, 2, 3, 4, 5, 6, 7, 8, 9, 5>>],
             [h |-> 12, mi |-> 60, s |-> 0, digits |-> <<>>]}
ZoneSet == {[h |-> 5, mi |-> 30], [h |-> -3, mi |-> 30]}
FormatSet == {<<<<"y", "M", "D", "h", "m", "s">>>>, <<<<"Y", "M", "D", "h", "m", "s">>>>, <<<<"h", "m", "s">>>>,
              <<<<"y", "M", "D", "h", "m", "s">>, <<"Y", "M", "D", "h", "m", "s">>>>}

MCInit ==
  /\ part \in {"config", "keys", "leap", "stats", "time"}
  /\ Init /\ (part # "config" => file = <<"driftfile", "/p", Newline>>)
  /\ KeyInit /\ (part # "keys" => \A p \in Paths : disk[p] = <<Other>>)
  /\ LeapInit
  /\ part # "leap" => /\ ~published.hashed /\ published.expires # NoExpiry
                      /\ leapDisk.upTo = 0 /\ leapDisk.file = published
  /\ StatsInit /\ (part # "stats" => entry = {} /\ today = DateDays(2024, 1, 1))
  /\ TimeInit /\ (part # "time" => date.y = 1969)

MCNext ==
  /\ UNCHANGED part
  /\ \/ part = "config" /\ Next /\ UNCHANGED <<keyVars, leapVars, statsVars, timeVars>>
     \/ part = "keys" /\ KeyNext /\ UNCHANGED <<vars, leapVars, statsVars, timeVars>>
     \/ part = "leap" /\ LeapNext /\ UNCHANGED <<vars, keyVars, statsVars, timeVars>>
     \/ part = "stats" /\ StatsNext /\ UNCHANGED <<vars, keyVars, leapVars, timeVars>>
     \/ part = "time" /\ TimeNext /\ UNCHANGED <<vars, keyVars, leapVars, statsVars>>

MCSpec == MCInit /\ [][MCNext]_allVars
=============================================================================

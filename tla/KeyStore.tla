------------------------------ MODULE KeyStore ------------------------------
(***************************************************************************)
(* Symmetric keys (ntp_auth.rs): the ntp.keys files, the store they are    *)
(* read into when the daemon starts and when it reloads, and the files     *)
(* changing meanwhile, also under the hands of ntpkeygen, which truncates  *)
(* a file before it writes it.                                             *)
(*                                                                         *)
(* A line of a file is a record: how many fields it has (0 for a comment), *)
(* the id (0 when it is not a number), the name of the digest in lower     *)
(* case, the secret's length and whether it is all hexadecimal, the secret *)
(* as far as the digest uses it and whether `trusted' follows.             *)
(***************************************************************************)
EXTENDS Integers, SequencesExt

CONSTANTS Configured,   \* the paths of the `keys' directives, in order
          Given,        \* the path of -k, if any: a sequence of at most one
          TrustedIds,   \* the ids of -t
          Contents,     \* what an administrator writes into a key file
          Generated     \* the options ntpkeygen is run with: [digest, length]

ASSUME KeyAssumption ==
  /\ Configured \in Seq({Configured[i] : i \in DOMAIN Configured})
  /\ Given \in Seq({Given[i] : i \in DOMAIN Given})
  /\ \A c \in Contents : c \in Seq({c[i] : i \in DOMAIN c})
  /\ Len(Given) <= 1 /\ TrustedIds \subseteq Nat

VARIABLES disk,         \* path -> the lines of the file
          keys,         \* the store in force
          loaded,       \* "no" before the start, then by which way: "start" or "reload"
          read          \* history: the lines of every path as they were read

keyVars == <<disk, keys, loaded, read>>

Paths == ToSet(Configured \o Given)

NoKeys == [keys |-> <<>>, trusted |-> {}]

ShaNames == {"sha", "sha1", "sha-1"}
AesNames == {"aes-128-cmac", "cmac", "aes", "aes128cmac"}
DigestType == [n \in {"md5"} \cup ShaNames \cup AesNames |->
                 CASE n \in ShaNames -> "SHA1" [] n \in AesNames -> "AES" [] OTHER -> "MD5"]
MacLength == [MD5 |-> 16, SHA1 |-> 20, AES |-> 16]

AddKey(s, k) == [s EXCEPT !.keys = Append(@, k)]
Trust(s, id) == [s EXCEPT !.trusted = @ \cup {id}]
HasKey(s, id) == \E i \in DOMAIN s.keys : s.keys[i].id = id
GetKey(s, id) ==
  LET at == {i \in DOMAIN s.keys : s.keys[i].id = id}
  IN s.keys[CHOOSE i \in at : \A j \in at : i <= j]

\* A code no two keys or packets share; a receiver compares length and bytes.
Mac(k, pkt) == [length |-> MacLength[k.digest], of |-> <<k.digest, k.secret, pkt>>]
Verifies(s, id, pkt, mac) == HasKey(s, id) /\ Mac(GetKey(s, id), pkt) = mac

Ignored(l) == l.fields = 0

\* Longer than twenty characters is hexadecimal, by pairs.
Faulty(l) == \/ l.fields < 3
             \/ l.id = 0
             \/ l.digest \notin DOMAIN DigestType
             \/ (l.length > 20 /\ ~(l.hex /\ l.length % 2 = 0))

KeyOf(l) == [id |-> l.id, digest |-> DigestType[l.digest], secret |-> l.secret]

ParseLine(s, l) == IF l.fields > 3 /\ l.trusted THEN Trust(AddKey(s, KeyOf(l)), l.id) ELSE AddKey(s, KeyOf(l))

\* Lines are read until one is refused.
ReadLine(r, l) == IF ~r.ok \/ Ignored(l) THEN r
                  ELSE IF Faulty(l) THEN [r EXCEPT !.ok = FALSE]
                  ELSE [r EXCEPT !.store = ParseLine(@, l)]
Begun(s) == [ok |-> TRUE, store |-> s]

\* parse_keys_file: what stands before a refused line has been added by then.
ParseFile(s, c) ==
  LET after[n \in 0..Len(c)] == IF n = 0 THEN Begun(s) ELSE ReadLine(after[n - 1], c[n])
  IN after[Len(c)]

\* Mutant: a file that fails is passed over.
LoadSkipping(d, s, paths) ==
  LET after[n \in 0..Len(paths)] ==
        IF n = 0 THEN Begun(s) ELSE Begun(ParseFile(after[n - 1].store, d[paths[n]]).store)
  IN after[Len(paths)]
\* load_key_files: the first file that fails ends it.
LoadFiles(d, s, paths) ==
  LET after[n \in 0..Len(paths)] ==
        IF n = 0 THEN Begun(s)
        ELSE IF after[n - 1].ok THEN ParseFile(after[n - 1].store, d[paths[n]]) ELSE after[n - 1]
  IN after[Len(paths)]

\* The options of the command line: a faulty -k file counts as far as it goes.
WithOptions(d, s) ==
  LET k == IF Given = <<>> THEN s ELSE ParseFile(s, d[Given[1]]).store
  IN  [k EXCEPT !.trusted = @ \cup TrustedIds]

KeyInit == /\ disk \in [Paths -> Contents]
           /\ keys = NoKeys /\ loaded = "no" /\ read = [p \in Paths |-> <<>>]

\* A failure is but a warning at the start.
Start == /\ loaded = "no" /\ loaded' = "start"
         /\ keys' = WithOptions(disk, LoadFiles(disk, NoKeys, Configured).store)
         /\ read' = disk /\ UNCHANGED disk

\* On a reload it keeps the store that was in force.
Reload == /\ loaded # "no"
          /\ LET r == LoadFiles(disk, NoKeys, Configured) IN
             IF r.ok THEN keys' = WithOptions(disk, r.store) /\ read' = disk /\ loaded' = "reload"
                     ELSE UNCHANGED <<keys, read, loaded>>
          /\ UNCHANGED disk

\* Two keys of ntpkeygen, which takes any digest and any length.
KeygenLine(o, i) == [fields |-> 3, id |-> i, digest |-> o.digest, length |-> o.length,
                     hex |-> TRUE, secret |-> <<"generated", i>>, trusted |-> FALSE]
KeygenFile(o) == <<KeygenLine(o, 1), KeygenLine(o, 2)>>

Edit(p) == /\ disk' \in {[disk EXCEPT ![p] = c] : c \in Contents}
           /\ UNCHANGED <<keys, loaded, read>>

\* File::create, then write_all.
Keygen(p) == /\ disk' \in {[disk EXCEPT ![p] = c] :
                             c \in IF disk[p] = <<>> THEN {KeygenFile(o) : o \in Generated} ELSE {<<>>}}
             /\ UNCHANGED <<keys, loaded, read>>

KeyNext == Start \/ Reload \/ \E p \in Paths : Edit(p) \/ Keygen(p)

KeySpec == KeyInit /\ [][KeyNext]_keyVars

Packet == "packet"

\* The lines of the f-th configured file that are no comments, in the order
\* of the files.
LineAt(d, f, i) == d[Configured[f]][i]
KeyLines(d, f) == {i \in DOMAIN d[Configured[f]] : ~Ignored(LineAt(d, f, i))}
FirstOfItsId(d, f, i) ==
  \A g \in 1..f : \A j \in KeyLines(d, g) : g < f \/ j < i => LineAt(d, g, j).id # LineAt(d, f, i).id
Gives(l, k) == ~Ignored(l) /\ ~Faulty(l) /\ KeyOf(l) = k

(* After a reload the daemon holds every key of every configured file: who *)
(* has the first key of an id, in the order of the files, has a code that  *)
(* verifies, and a key that verifies stands in a file that was read        *)
(* (main.rs reload, load_key_files).  A file with a faulty line, however   *)
(* it came about, never takes part of the keys away.                       *)
KeysWhole ==
  loaded = "reload" =>
    /\ \A f \in DOMAIN Configured : \A i \in KeyLines(read, f) :
         LET l == LineAt(read, f, i) IN
         /\ FirstOfItsId(read, f, i) => Verifies(keys, l.id, Packet, Mac(KeyOf(l), Packet))
         /\ l.fields > 3 /\ l.trusted => l.id \in keys.trusted
    /\ \A k \in DOMAIN keys.keys :
         \/ \E f \in DOMAIN Configured : \E i \in KeyLines(read, f) : Gives(LineAt(read, f, i), keys.keys[k])
         \/ \E g \in DOMAIN Given : \E i \in DOMAIN read[Given[g]] : Gives(read[Given[g]][i], keys.keys[k])
=============================================================================

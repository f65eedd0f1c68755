----------------------------- MODULE NtsCookies -----------------------------
(***************************************************************************)
(* Cookies: the ring of server keys that seals and opens them              *)
(* (CookieCipher) and the jar of a client (NtsState).  A sealed cookie is  *)
(* kept as what it was sealed with and what is in it: opening it with      *)
(* another key, another identity or after a change of a bit fails, which   *)
(* is all that AES-SIV adds.  The random nonce is left out.                *)
(***************************************************************************)
EXTENDS Integers, Sequences, SequencesExt

CONSTANTS MaxKeys,      \* keys a ring holds (16)
          JarSize       \* cookies a client keeps, and a server gives (8)

ASSUME CookieAssumption == MaxKeys \in Nat \ {0} /\ JarSize \in Nat \ {0}

Broken == [broken |-> TRUE]
NewRing == [keys |-> <<>>, identity |-> 0]      \* identity 0: none is bound

LastKeys(r, n) == [r EXCEPT !.keys = IF Len(@) > n THEN SubSeq(@, Len(@) - n + 1, Len(@)) ELSE @]

AddKey(r, id, key) == LastKeys([r EXCEPT !.keys = Append(@, [id |-> id, key |-> key])], MaxKeys)
PruneKeys(r, keep) == LastKeys(r, IF keep < MaxKeys THEN keep ELSE MaxKeys)

Entries(r, id) == {k \in DOMAIN r.keys : r.keys[k].id = id}
HasKey(r, id) == Entries(r, id) # {}

\* Mutant: the oldest key of that number is taken.
OldestKey(r, id) == r.keys[CHOOSE k \in Entries(r, id) : \A j \in Entries(r, id) : k <= j].key
\* get_key: a number used again means its latest key.
GetKey(r, id) == r.keys[CHOOSE k \in Entries(r, id) : \A j \in Entries(r, id) : j <= k].key

\* encrypt: under the latest key; without one there is no cookie.  Its field
\* at is history, when it was sealed: the envelope does not hold it.
CanSeal(r) == r.keys # <<>>
Seal(r, plain, at) ==
  [id |-> Last(r.keys).id, key |-> Last(r.keys).key, identity |-> r.identity, plain |-> plain, at |-> at]

\* CookieCipher::decrypt; only NtsCookie::decrypt, which nothing but tests
\* calls, looks at an age.
Open(r, c) == IF HasKey(r, c.id) /\ GetKey(r, c.id) = c.key /\ r.identity = c.identity THEN c.plain ELSE Broken

(* NtsState, NtsKeNegotiation: cookies are used in the order they came;    *)
(* a full jar takes no more.                                               *)
AddCookie(jar, c) == IF Len(jar) < JarSize THEN Append(jar, c) ELSE jar
\* The jar after one cookie after another was added to an empty one.
JarOf(cookies) == [k \in 1 .. (IF Len(cookies) < JarSize THEN Len(cookies) ELSE JarSize) |-> cookies[k]]
=============================================================================

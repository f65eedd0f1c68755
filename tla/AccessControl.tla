---------------------------- MODULE AccessControl ----------------------------
(***************************************************************************)
(* The restriction list (ntp_restrict.rs): which flags apply to a source,  *)
(* and what becomes of a packet under them.  An address and its mask are   *)
(* the set of sources they match; of the flags only those that "check"     *)
(* looks at are told apart.                                                *)
(***************************************************************************)
CONSTANTS Sources,   \* addresses packets come from
          Family     \* their address family: "v4" or "v6"

ASSUME AccessAssumption == Family \in [Sources -> {"v4", "v6"}]

RestrictFlags == {"IGNORE", "NOQUERY", "KOD"}

\* A list: its entries and the flags of each family's default.
RestrictList == [entries : SUBSET [match : SUBSET Sources, flags : SUBSET RestrictFlags],
                 default : [{"v4", "v6"} -> SUBSET RestrictFlags]]

Matching(list, src) == {e \in list.entries : src \in e.match}

\* The flags of every matching entry together; the default of the family
\* only if none matches, be its flags empty or not.
Evaluate(list, src) ==
  IF Matching(list, src) = {} THEN list.default[Family[src]]
  ELSE UNION {e.flags : e \in Matching(list, src)}

\* check: NOQUERY concerns queries only (modes 6 and 7).
RestrictAction(list, src, mode) ==
  LET flags == Evaluate(list, src)
      query == mode \in {"Control", "Private"}
  IN IF "IGNORE" \in flags THEN "Ignore"
     ELSE IF query /\ "NOQUERY" \in flags THEN "Discard"
     ELSE IF "KOD" \in flags THEN "SendKod" ELSE "Accept"
==============================================================================

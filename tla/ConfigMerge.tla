----------------------------- MODULE ConfigMerge -----------------------------
(***************************************************************************)
(* How configuration layers combine.  A configuration is the function from *)
(* its leaves to their values; a leaf is the sequence of keys leading to   *)
(* it.  Empty is the value of an empty mapping, which is a leaf until a    *)
(* layer fills it.                                                         *)
(***************************************************************************)
EXTENDS Integers, Sequences, SequencesExt

CONSTANTS
  Empty,    \* an empty mapping
  Null,     \* an absent value
  Atomic    \* ATOMIC_PATHS: mappings replaced as a whole

Paths == Seq(STRING)

NoLeaves == [p \in {} |-> Null]

Below(p, q) == IsStrictPrefix(p, q)
AtOrBelow(p, q) == p = q \/ Below(p, q)

ASSUME AtomicAssumption ==
  Atomic \subseteq Paths \ {<<>>} /\ \A a, b \in Atomic : ~Below(a, b)

IsMapping(cfg, p) == \E q \in DOMAIN cfg : Below(p, q) \/ (q = p /\ cfg[p] = Empty)

\* The atomic mappings an overlay defines where the merge gets to them: each
\* replaces its whole subtree.
Replaced(base, overlay) ==
  {a \in Atomic : IsMapping(overlay, a) /\ (Len(a) = 1 \/ IsMapping(base, Front(a)))}

\* Merging an empty mapping into a mapping changes nothing, but for a mapping
\* that is replaced as a whole.
WrittenLeaves(base, overlay) ==
  {p \in DOMAIN overlay :
     overlay[p] = Empty /\ IsMapping(base, p)
     => \E a \in Replaced(base, overlay) : AtOrBelow(a, p)}

\* The leaves of base that an overlay leaves alone.
Survivors(base, overlay) ==
  {q \in DOMAIN base :
     /\ \A p \in WrittenLeaves(base, overlay) : ~AtOrBelow(p, q) /\ ~Below(q, p)
     /\ \A a \in Replaced(base, overlay) : ~AtOrBelow(a, q)}

\* Mutant of Merged: an atomic mapping is merged key by key like any other.
MergedByKey(base, overlay) ==
  [p \in DOMAIN overlay \cup {q \in DOMAIN base :
             \A p \in DOMAIN overlay : ~AtOrBelow(p, q) /\ ~Below(q, p)} |->
     IF p \in DOMAIN overlay THEN overlay[p] ELSE base[p]]

\* _merge_layer: scalars and lists replace, mappings merge key by key.
Merged(base, overlay) ==
  [p \in WrittenLeaves(base, overlay) \cup Survivors(base, overlay) |->
     IF p \in WrittenLeaves(base, overlay) THEN overlay[p] ELSE base[p]]

\* _merge_layer's record: a written leaf is attributed to the layer and what
\* was recorded below it is dropped; an atomic mapping is one entry.
Recorded(prov, base, overlay, source) ==
  LET at == Replaced(base, overlay) \cup
            {p \in WrittenLeaves(base, overlay) : \A a \in Replaced(base, overlay) : ~AtOrBelow(a, p)}
  IN [p \in at \cup {q \in DOMAIN prov : \A r \in at : ~AtOrBelow(r, q)} |->
        IF p \in at THEN source ELSE prov[p]]

\* _is_allowed: the path exists in the base layer, or leads into a base value
\* that is null or an empty mapping; an empty base layer is open everywhere.
Allowed(structure, p) ==
  \/ structure = NoLeaves
  \/ \E q \in DOMAIN structure : AtOrBelow(p, q)
  \/ \E q \in DOMAIN structure : Below(q, p) /\ structure[q] \in {Null, Empty}

\* The merge gets to the n-th key of a leaf's path: what lies above is a
\* mapping of both sides, and none that is replaced as a whole.
Reaches(base, p, n) ==
  \A m \in 1..(n - 1) : SubSeq(p, 1, m) \notin Atomic /\ IsMapping(base, SubSeq(p, 1, m))

\* _merge_layer checks the keys it gets to, and no key below them.  No key
\* outside an atomic mapping holds a dot.
Accepted(structure, base, overlay) ==
  \A p \in DOMAIN overlay : \A n \in 1..Len(p) :
    Reaches(base, p, n) => Allowed(structure, SubSeq(p, 1, n))

\* No leaf lies below another, as in any mapping.
Nestable(leaves) == \A p, q \in DOMAIN leaves : ~Below(p, q)

\* Overrides are given in an order: each puts its leaves, one or those of a
\* mapping, at its path.  These are left of the i-th once _nested met them all:
\* a later override replaces what lies at its path or below, and fills an empty
\* mapping that it passes through.
Unreplaced(set, i) ==
  {q \in DOMAIN set[i].leaves : \A k \in (i + 1)..Len(set) :
     ~AtOrBelow(set[k].path, q) /\ ~Below(q, set[k].path)}

\* _nested finds a value, no mapping, on the way to a later override's path.
Clashing(set) ==
  \E i, k \in DOMAIN set : \E q \in DOMAIN set[i].leaves :
    /\ i < k /\ Below(q, set[k].path) /\ set[i].leaves[q] # Empty
    /\ \A j \in (i + 1)..(k - 1) : ~AtOrBelow(set[j].path, q)

\* _nested: the overrides as one layer.
Nested(set) ==
  [p \in UNION {Unreplaced(set, i) : i \in DOMAIN set} |->
     set[CHOOSE i \in DOMAIN set : p \in Unreplaced(set, i)].leaves[p]]
=============================================================================

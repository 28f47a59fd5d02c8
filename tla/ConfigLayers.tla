---------------------------- MODULE ConfigLayers ----------------------------
(***************************************************************************)
(* Resolving a profile (config/loader.py): the files it extends are        *)
(* collected depth first, each once, parents before children; their bodies *)
(* are merged in that order, then the overrides; then a selected universe  *)
(* bucket fixes the symbols.  Every leaf is attributed to its source.      *)
(* Any step may find an error, which ends the resolution.                  *)
(***************************************************************************)
EXTENDS ConfigMerge

CONSTANTS
  Files,        \* the layer files that exist
  Profile,      \* the one to resolve
  Projects,     \* what the files may contain: records [extends, body, overrides]
  MaxDepth,     \* MAX_EXTENDS_DEPTH
  Members       \* the symbols of each universe bucket

ASSUME ProfileAssumption == Profile \in Files
ASSUME DepthAssumption == MaxDepth \in Nat \ {0}
\* Names of layers and paths to leaves are strings of the files; no file has
\* the name of another source.
ASSUME ProjectsAssumption ==
  \A p \in Projects :
    /\ \A f \in Files : p.extends[f] \in Seq(STRING) /\ DOMAIN p.body[f] \subseteq Paths
    /\ \A i \in DOMAIN p.overrides : DOMAIN p.overrides[i].leaves \subseteq Paths
ASSUME SourcesAssumption == Files \cap {"--set", "universe"} = {}

VARIABLES
  project,   \* the files' contents and the overrides, fixed at the start
  phase,     \* "collect", "merge", "overrides", "universe", "done", "error"
  stack,     \* the files being visited, each with the entries still to visit
  visited,
  layers,    \* the files in merge order
  count,     \* layers merged
  merged, prov

layerVars == <<project, phase, stack, visited, layers, count, merged, prov>>

Set == "--set"
BucketPath == <<"universe", "bucket">>
SymbolsPath == <<"symbols">>
DerivedPath == <<"universe_metadata">>

\* True of any two sequences of literals; the provers do not type a literal.
ASSUME DerivedAssumption == {SymbolsPath, DerivedPath} \subseteq Paths

StackFrame(f) == [file |-> f, todo |-> project.extends[f]]
OnStack == {stack[i].file : i \in DOMAIN stack}

LayersInit ==
  /\ project \in Projects
  /\ phase = "collect"
  /\ stack = <<StackFrame(Profile)>> /\ visited = {} /\ layers = <<>>
  /\ count = 0 /\ merged = NoLeaves /\ prov = NoLeaves

Fail == phase' = "error" /\ UNCHANGED <<project, stack, visited, layers, count, merged, prov>>

\* _collect_layers: the next parent of the file on top of the stack.
Descend ==
  /\ phase = "collect" /\ Last(stack).todo # <<>>
  /\ LET parent == Head(Last(stack).todo)
         rest == [stack EXCEPT ![Len(stack)].todo = Tail(@)]
     IN IF parent \notin Files \/ parent \in OnStack \/ Len(stack) >= MaxDepth
        THEN Fail
        ELSE /\ stack' = IF parent \in visited THEN rest ELSE Append(rest, StackFrame(parent))
             /\ UNCHANGED <<project, phase, visited, layers, count, merged, prov>>

\* Mutant of Collected: a file is not remembered once it is collected.
CollectedAgain ==
  /\ phase = "collect" /\ Last(stack).todo = <<>>
  /\ layers' = Append(layers, Last(stack).file)
  /\ stack' = Front(stack)
  /\ phase' = IF Len(stack) = 1 THEN "merge" ELSE "collect"
  /\ UNCHANGED <<project, visited, count, merged, prov>>

\* _collect_layers: the file's own body comes after its parents'.
Collected ==
  /\ phase = "collect" /\ Last(stack).todo = <<>>
  /\ visited' = visited \cup {Last(stack).file}
  /\ layers' = Append(layers, Last(stack).file)
  /\ stack' = Front(stack)
  /\ phase' = IF Len(stack) = 1 THEN "merge" ELSE "collect"
  /\ UNCHANGED <<project, count, merged, prov>>

Structure == project.body[layers[1]]

\* resolve_raw: merge the next layer; only the first may introduce keys.
MergeLayer ==
  /\ phase = "merge"
  /\ LET file == layers[count + 1]
         body == project.body[file]
     IN IF count > 0 /\ ~Accepted(Structure, merged, body)
        THEN Fail
        ELSE /\ merged' = Merged(merged, body)
             /\ prov' = Recorded(prov, merged, body, file)
             /\ count' = count + 1
             /\ phase' = IF count + 1 = Len(layers) THEN "overrides" ELSE "merge"
             /\ UNCHANGED <<project, stack, visited, layers>>

Overrides == Nested(project.overrides)

\* resolve_raw: the overrides are nested and are one more layer.
MergeOverrides ==
  /\ phase = "overrides"
  /\ IF \/ \E i \in DOMAIN project.overrides : AtOrBelow(DerivedPath, project.overrides[i].path)
        \/ Clashing(project.overrides)
        \/ ~Accepted(Structure, merged, Overrides)
     THEN Fail
     ELSE /\ merged' = Merged(merged, Overrides)
          /\ prov' = Recorded(prov, merged, Overrides, Set)
          /\ phase' = "universe"
          /\ UNCHANGED <<project, stack, visited, layers, count>>

\* _resolve_universe: a selected bucket decides the symbols.
ResolveUniverse ==
  /\ phase = "universe"
  /\ LET selected == BucketPath \in DOMAIN merged /\ merged[BucketPath] # Null
         bucket == merged[BucketPath]
         derived == IF selected /\ bucket \in DOMAIN Members
                    THEN [p \in {SymbolsPath, DerivedPath} |->
                            IF p = SymbolsPath THEN Members[bucket] ELSE bucket]
                    ELSE NoLeaves
         conflict == \/ \E p \in DOMAIN merged :
                          Below(DerivedPath, p) \/ (p = DerivedPath /\ merged[p] # Null)
                     \/ selected /\ bucket \notin DOMAIN Members
                     \/ selected /\ \E o \in ToSet(project.overrides) :
                          o.path = SymbolsPath /\ o.leaves \notin
                            {SymbolsPath :> Null, SymbolsPath :> Members[bucket]}
     IN IF conflict THEN Fail
        ELSE /\ merged' = Merged(merged, derived)
             /\ prov' = Recorded(prov, merged, derived, "universe")
             /\ phase' = "done"
             /\ UNCHANGED <<project, stack, visited, layers, count>>

LayersNext == Descend \/ Collected \/ MergeLayer \/ MergeOverrides \/ ResolveUniverse

LayersSpec == LayersInit /\ [][LayersNext]_layerVars

----------------------------------------------------------------------------
(* Properties.                                                             *)

Parents(f) == ToSet(project.extends[f])

\* However the files extend one another, each is merged once, after every
\* file it extends: a shared parent never overwrites a sibling's values a
\* second time, and the profile's own body comes last.
ParentsFirst ==
  phase \notin {"collect", "error"} =>
    /\ IsInjective(layers) /\ Last(layers) = Profile
    /\ \A i \in DOMAIN layers : \A f \in Parents(layers[i]) :
         \E j \in 1..(i - 1) : layers[j] = f

\* The source a leaf is attributed to: its own entry, or that of the atomic
\* mapping it lies in.
Credited(r, p) ==
  IF p \in DOMAIN r THEN r[p]
  ELSE r[CHOOSE a \in Atomic : AtOrBelow(a, p) /\ a \in DOMAIN r]

Source(p) == Credited(prov, p)

Content(source) ==
  CASE source = Set -> Overrides
    [] source \in Files -> project.body[source]
    [] OTHER -> [p \in {SymbolsPath, DerivedPath} |-> merged[p]]

\* A resolved run is replayable because every value can be traced: each leaf
\* of the merged configuration is attributed to a layer that gives exactly
\* that value, and no later layer or override mentions the leaf, other than as
\* an empty mapping, which a mapping absorbs.
ProvenanceTrue ==
  phase = "done" =>
    \A p \in DOMAIN merged :
      /\ p \in DOMAIN Content(Source(p)) /\ Content(Source(p))[p] = merged[p]
      /\ \A i, j \in DOMAIN layers :
           /\ layers[i] = Source(p) /\ i < j
           /\ p \in DOMAIN project.body[layers[j]]
           => project.body[layers[j]][p] = Empty
      /\ p \in DOMAIN Overrides /\ Overrides[p] # Empty
         => Source(p) \in {Set, "universe"}

\* The loader's header promises a provenance map from leaves to sources.
LeavesOnly ==
  phase = "done" =>
    \A p \in DOMAIN prov : p \in DOMAIN merged \/ p \in Atomic
=============================================================================

-------------------------- MODULE UniverseDiscovery --------------------------
(***************************************************************************)
(* `carcharoth universe discover`: the candidates' frozen bars are screened, *)
(* ranked, described and clustered (universe.py discover), and the result is *)
(* written as a snapshot directory (publish_snapshot) that later commands    *)
(* list and reuse. Symbols are numbers in their alphabetical order. Of the   *)
(* six descriptors two are kept, the one that ranks (log dollar volume) and  *)
(* one that does not; returns are differences of integer log closes.         *)
(***************************************************************************)
EXTENDS Sorting, Sequences, SequencesExt, FiniteSetsExt

CONSTANTS
  Candidates,        \* the tradable candidates of the catalogue, numbers
  Benchmark,         \* benchmark_symbol
  Sessions,          \* the trading days of the window, a sequence
  Markets,           \* what the provider may hold: functions from symbols to bars
  Configs,           \* [topN, threshold, minBucket, weights, excluded]
  MinObservations,   \* min_observations
  PctCoverage,       \* min_coverage
  MaxFetches,        \* bound: only the first so many commands fetch
  MaxCommands        \* bound: discover commands

DayBars ==
  [day : Int, close : Int, dollar : Int, range : Int, sound : BOOLEAN]

ASSUME DiscoveryAssumption ==
  /\ IsFiniteSet(Candidates) /\ Candidates \cup {Benchmark} \subseteq Int
  /\ Sessions \in Seq(Int)
  /\ \A market \in Markets, s \in Candidates \cup {Benchmark} :
       s \in DOMAIN market /\ market[s] \in Seq(DayBars)
  /\ Configs \subseteq
       [topN : Nat, threshold : Nat, minBucket : Nat, weights : [{"dollar", "range"} -> Nat],
        excluded : SUBSET Candidates]
  /\ Configs # {}

VARIABLES
  config, bars,      \* of the command at work
  stage,             \* idle, screened, clustering, publishing
  selected,          \* the ranked symbols
  distances,         \* their scaled distances and threshold
  clusters,          \* the partition complete linkage has reached
  result,            \* the membership published: buckets and undersized clusters
  pub,               \* the files of the temporary directory
  disk,              \* the directories under output_root
  commands           \* bound: commands run

discoveryVars == <<config, bars, stage, selected, distances, clusters, result, pub, disk, commands>>

Weights == {"dollar", "range"}

Sum(f)     == FoldFunction(+, 0, f)
Product(f) == FoldFunction(LAMBDA a, b : a * b, 1, f)

-----------------------------------------------------------------------------

\* Screening.

\* _clean_bars: by day, the bars inside the window; nothing when one of them is
\* impossible or two of a day differ.
Clean(s) ==
  LET inside == {b \in ToSet(bars[s]) : b.day \in ToSet(Sessions)}
      days   == {b.day : b \in inside}
  IN  IF (\A b \in inside : b.sound) /\ Cardinality(days) = Cardinality(inside)
      THEN [d \in days |-> CHOOSE b \in inside : b.day = d] ELSE <<>>

Enough(clean) ==
  /\ Cardinality(DOMAIN clean) >= MinObservations
  /\ 100 * Cardinality(DOMAIN clean) >= PctCoverage * Len(Sessions)

\* _return_series: the sessions with a bar after a session with a bar.
Returns(clean) ==
  [i \in {k \in 2..Len(Sessions) : {Sessions[k - 1], Sessions[k]} \subseteq DOMAIN clean} |->
     clean[Sessions[i]].close - clean[Sessions[i - 1]].close]

Varies(returns, is) == Cardinality({returns[i] : i \in is}) > 1

\* _descriptors returns None unless all of these hold.
Describable(returns, market) ==
  LET aligned == DOMAIN returns \cap DOMAIN market
      lagged  == {i \in DOMAIN returns : i - 1 \in DOMAIN returns}
  IN  /\ Cardinality(DOMAIN returns) >= 3 /\ Cardinality(aligned) >= 2
      /\ Varies(returns, DOMAIN returns) /\ Varies(market, aligned)
      /\ Cardinality(lagged) >= 2
      /\ Varies(returns, lagged) /\ Varies(returns, {i - 1 : i \in lagged})

\* The mean dollar volume and the median range.
Descriptors(clean) ==
  LET range  == [d \in DOMAIN clean |-> clean[d].range]
      dollar == [d \in DOMAIN clean |-> clean[d].dollar]
      days   == Cardinality(DOMAIN clean)
  IN  [dollar |-> Sum(dollar) \div days, range |-> range[Positions(range)[(days + 1) \div 2]]]

\* The descriptors of the symbols that qualify. Without a benchmark that passes
\* the screening discover raises, as it does without two qualifying symbols.
Described ==
  LET clean   == [s \in DOMAIN bars |-> Clean(s)]
      passing == {s \in DOMAIN bars : Enough(clean[s])}
      market  == Returns(clean[Benchmark])
  IN  [s \in {r \in passing : Benchmark \in passing /\ Describable(Returns(clean[r]), market)} |->
         Descriptors(clean[s])]

\* By dollar volume, ties by name, the first top_n.
Ranked(described) ==
  LET before(s, r) == \/ described[s].dollar > described[r].dollar
                      \/ described[s].dollar = described[r].dollar /\ s < r
      ranked == Ascending(DOMAIN described, before)
  IN  SubSeq(ranked, 1, Min({Len(ranked), config.topN}))

-----------------------------------------------------------------------------

\* Scaling and distance.

\* Four times numpy's linearly interpolated quartile q.
Quartile(values, q) ==
  LET raw(k) == values[Positions(values)[k]]
      at  == ((Len(values) - 1) * q) \div 4
      rem == ((Len(values) - 1) * q) % 4
  IN  (4 - rem) * raw(at + 1) + (IF rem = 0 THEN 0 ELSE rem * raw(at + 2))

Spreads(ranked, described) ==
  [name \in Weights |->
     LET values == [i \in 1..Len(ranked) |-> described[ranked[i]][name]]
     IN  Quartile(values, 3) - Quartile(values, 1)]

Active(spread) == {name \in Weights : spread[name] > 0 /\ config.weights[name] > 0}

\* Squared distances over interquartile ranges, and the squared threshold,
\* all times the product of the active squared ranges.
Scaled(ranked, described) ==
  LET spread == Spreads(ranked, described)
      active == Active(spread)
      square(x) == x * x
      others(name) == Product([n \in active \ {name} |-> square(spread[n])])
      scale  == [n \in active |-> 16 * config.weights[n] * others(n)]
      apart(s, r) ==
        Sum([n \in active |-> scale[n] * square(described[s][n] - described[r][n])])
  IN  [apart |-> [p \in ToSet(ranked) \X ToSet(ranked) |-> apart(p[1], p[2])],
       limit |-> square(config.threshold) * others("none")
                 * Sum([n \in active |-> config.weights[n]])]

Apart(s, r) == distances.apart[<<s, r>>]

\* Mutant: single linkage.
LinkageOfNearest(c, d) == Min({Apart(s, r) : s \in c, r \in d})

\* Complete linkage: clusters are as far apart as their furthest members.
Linkage(c, d) == Max({Apart(s, r) : s \in c, r \in d})

\* The closest pairs that fcluster still joins at the threshold.
Joinable ==
  {p \in SUBSET clusters :
     /\ Cardinality(p) = 2
     /\ \A c, d \in p : c # d =>
          /\ Linkage(c, d) <= distances.limit
          /\ \A e, f \in clusters : e # f => Linkage(c, d) <= Linkage(e, f)}

-----------------------------------------------------------------------------

\* Naming. Sorted members; clusters ordered by them.

InNameOrder(c) == Ascending(c, <)
Large     == {c \in clusters : Cardinality(c) >= config.minBucket}

Membership ==
  [all |-> InNameOrder(ToSet(selected)), buckets |-> {InNameOrder(c) : c \in Large},
   undersized |-> {InNameOrder(c) : c \in clusters \ Large}]

\* UniverseSnapshot._membership, which load_universe_snapshot runs.
Valid(m) ==
  LET cs == m.buckets \cup m.undersized
      proper(c) == c # <<>> /\ c = InNameOrder(ToSet(c))
  IN  /\ proper(m.all) /\ \A c \in cs : proper(c) /\ ToSet(c) \subseteq ToSet(m.all)
      /\ \A c, d \in cs : c # d => ToSet(c) \cap ToSet(d) = {}
      /\ UNION {ToSet(c) : c \in cs} = ToSet(m.all)

-----------------------------------------------------------------------------

\* publish_snapshot: the files in the order they are written.

Inputs == {"assets", "calendar", "bars"}

\* Mutant: the manifest is written before the inputs it has checksums of.
OrderManifestFirst == <<"buckets", "assets", "calendar", "bars", "features", "report">>

Order == <<"assets", "calendar", "bars", "buckets", "features", "report">>

\* list_snapshots: pathlib's `*` matches the dot of a temporary directory too.
Listed == {d \in disk : "buckets" \in d.files /\ Valid(d.membership)}

NoDistances == [apart |-> <<>>, limit |-> 0]

DiscoveryInit ==
  /\ config = (CHOOSE c \in Configs : TRUE) /\ bars = [s \in {} |-> <<>>] /\ stage = "idle"
  /\ selected = <<>> /\ distances = NoDistances /\ clusters = {} /\ pub = <<>> /\ disk = {} /\ commands = 0
  /\ result = [all |-> <<>>, buckets |-> {}, undersized |-> {}]

Stop ==
  /\ stage' = "idle" /\ selected' = <<>> /\ distances' = NoDistances /\ clusters' = {}
  /\ pub' = <<>>

\* discover up to the linkage; it raises, and the command ends, when fewer than
\* two symbols qualify or no weighted descriptor has a spread.
Screen ==
  /\ stage = "screened"
  /\ LET described == Described
         ranked    == Ranked(described)
     IN  IF Len(ranked) < 2 \/ Active(Spreads(ranked, described)) = {}
         THEN Stop
         ELSE /\ selected' = ranked /\ distances' = Scaled(ranked, described)
              /\ clusters' = {{s} : s \in ToSet(ranked)} /\ stage' = "clustering"
              /\ UNCHANGED pub
  /\ UNCHANGED <<config, bars, result, disk, commands>>

\* _run_universe_discover: the catalogue without the excluded symbols, and the
\* benchmark whether excluded or not.
Fetch ==
  /\ stage = "idle" /\ commands < MaxFetches
  /\ \E c \in Configs, market \in Markets :
       /\ config' = c
       /\ bars' = [s \in (Candidates \ c.excluded) \cup {Benchmark} |-> market[s]]
  /\ stage' = "screened" /\ commands' = commands + 1
  /\ UNCHANGED <<selected, distances, clusters, result, pub, disk>>

\* load_reuse_inputs: the frozen bars of a listed snapshot; its checksums are
\* checked against the files, and the command fails when one is missing. The
\* exclusions of the new configuration are not applied.
Reuse ==
  /\ stage = "idle" /\ commands < MaxCommands
  /\ \E d \in Listed, c \in Configs :
       /\ config' = c
       /\ IF Inputs \subseteq d.files
          THEN bars' = d.bars /\ stage' = "screened"
          ELSE UNCHANGED <<bars, stage>>
  /\ commands' = commands + 1
  /\ UNCHANGED <<selected, distances, clusters, result, pub, disk>>

Join ==
  /\ stage = "clustering"
  /\ \E p \in Joinable : clusters' = (clusters \ p) \cup {UNION p}
  /\ UNCHANGED <<config, bars, stage, selected, distances, result, pub, disk, commands>>

Named ==
  /\ stage = "clustering" /\ Joinable = {}
  /\ result' = Membership /\ stage' = "publishing" /\ pub' = <<>>
  /\ UNCHANGED <<config, bars, selected, distances, clusters, disk, commands>>

\* What became of a directory: published, left by a killed command, or with
\* its removal cut short.
Fates == {"published", "killed", "removing"}

Directory(files, fate) ==
  [files |-> files, fate |-> fate, membership |-> result, bars |-> bars]

\* The snapshot is built, and so its membership validated, before the manifest
\* is written.
Write ==
  /\ stage = "publishing" /\ Len(pub) < Len(Order)
  /\ Order[Len(pub) + 1] = "buckets" => Valid(result)
  /\ pub' = Append(pub, Order[Len(pub) + 1])
  /\ UNCHANGED <<config, bars, stage, selected, distances, clusters, result, disk, commands>>

Replace ==
  /\ stage = "publishing" /\ Len(pub) = Len(Order)
  /\ disk' = disk \cup {Directory(ToSet(pub), "published")} /\ Stop
  /\ UNCHANGED <<config, bars, result, commands>>

\* A write fails, the validator raises or the target exists: the temporary
\* directory is removed file by file; a file that cannot be removed stays, as
\* does what is left when the command is killed meanwhile.
WriteFails ==
  /\ stage = "publishing" /\ Stop
  /\ \/ UNCHANGED disk
     \/ \E left \in SUBSET ToSet(pub) : disk' = disk \cup {Directory(left, "removing")}
  /\ UNCHANGED <<config, bars, result, commands>>

\* The process is killed: the temporary directory stays.
Killed ==
  /\ stage = "publishing" /\ Stop
  /\ disk' = disk \cup {Directory(ToSet(pub), "killed")}
  /\ UNCHANGED <<config, bars, result, commands>>

DiscoveryNext ==
  \/ Fetch \/ Reuse \/ Screen \/ Join \/ Named
  \/ Write \/ Replace \/ WriteFails \/ Killed

DiscoverySpec == DiscoveryInit /\ [][DiscoveryNext]_discoveryVars
-----------------------------------------------------------------------------
\* Properties.

\* A finished linkage is a partition of the selected symbols in which any two
\* symbols of a bucket are within the threshold, and no two buckets could have
\* been one; and the membership to be published is that partition, all of it,
\* the clusters of fewer than min_bucket symbols apart, and loads again.
ClustersTight ==
  stage = "publishing" =>
    /\ UNION clusters = ToSet(selected)
    /\ \A c \in clusters : \A s, r \in c : Apart(s, r) <= distances.limit
    /\ \A c, d \in clusters : c # d =>
         c \cap d = {} /\ \E s \in c, r \in d : Apart(s, r) > distances.limit
    /\ ToSet(result.all) = ToSet(selected)
    /\ {ToSet(c) : c \in result.buckets \cup result.undersized} = clusters
    /\ \A c \in result.buckets : Len(c) >= config.minBucket
    /\ \A c \in result.undersized : Len(c) < config.minBucket
    /\ Valid(result)

\* Whatever the listing offers can be reused, what a killed command left behind
\* included, and what was published is listed and complete. A removal cut short
\* is excepted: it may leave the manifest and no inputs.
ListedReusable ==
  /\ \A d \in Listed : d.fate # "removing" => Inputs \subseteq d.files /\ Benchmark \in DOMAIN d.bars
  /\ \A d \in disk : d.fate = "published" => d \in Listed /\ d.files = ToSet(Order)
=============================================================================

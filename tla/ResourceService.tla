--------------------------- MODULE ResourceService ---------------------------
(***************************************************************************)
(* The cache of resources (world-model/query.ts): for every world and key   *)
(* the blocks a scan found, grouped into clusters.  A scan replaces an      *)
(* entry, a block change takes single blocks out of it, and the trees to    *)
(* cut are chosen from it.  Positions are <<x, y>>: a vertical slice of the *)
(* world.  Every block scanned is diggable, as the client says of logs and  *)
(* ores.                                                                    *)
(***************************************************************************)
EXTENDS Integers, Sequences, FiniteSets, SequencesExt

CONSTANTS
  Worlds,   \* the world keys
  Keys,     \* the resource keys in use: "tree", or the name of a block
  Names,    \* the names of blocks, a sequence in alphabetical order
  Logs      \* those that are logs

ASSUME NamesAssumption ==
  /\ Len(Names) \in Nat /\ DOMAIN Names = 1 .. Len(Names)
  /\ \A i, j \in DOMAIN Names : Names[i] = Names[j] => i = j

NameSet == {Names[i] : i \in DOMAIN Names}

VARIABLE cache

Rank(name) == CHOOSE i \in DOMAIN Names : Names[i] = name
Square(k) == k * k
SquareDistance(p, q) == Square(p[1] - q[1]) + Square(p[2] - q[2])
Abs(k) == IF k < 0 THEN -k ELSE k

MatchesKey(name, key) == name = key \/ (key = "tree" /\ name \in Logs)
Candidate(block, origin) ==
  [name |-> block.name, at |-> block.at, distance |-> SquareDistance(block.at, origin)]

-----------------------------------------------------------------------------
(* Clusters: blocks of one name that touch, be it at a corner.             *)

Adjacent(c, d) ==
  /\ c.name = d.name /\ c.at # d.at
  /\ Abs(c.at[1] - d.at[1]) <= 1 /\ Abs(c.at[2] - d.at[2]) <= 1

\* The breadth-first search from c, one round of it at a time.
Connected(c, blocks) ==
  LET grown(group) == {d \in blocks : \E e \in group : d = e \/ Adjacent(d, e)}
      reached[n \in 0..Cardinality(blocks)] ==
        IF n = 0 THEN {c} ELSE UNION {grown(group) : group \in {reached[n - 1]}}
  IN  reached[Cardinality(blocks)]

Before(c, d) ==
  \/ Rank(c.name) < Rank(d.name)
  \/ c.name = d.name /\ c.distance < d.distance
  \/ /\ c.name = d.name /\ c.distance = d.distance
     /\ \/ c.at[1] < d.at[1]
        \/ c.at[1] = d.at[1] /\ c.at[2] < d.at[2]

First(group) == CHOOSE c \in group : \A d \in group \ {c} : Before(c, d)

Rounded(sum, n) == (2 * sum + n) \div (2 * n)
Centroid(group) ==
  LET sum(i) == FoldSet(LAMBDA c, acc : acc + c.at[i], 0, group)
  IN  <<Rounded(sum(1), Cardinality(group)), Rounded(sum(2), Cardinality(group))>>

\* A cluster is named after its place in the entry and its rounded centre.
Clusters(world, radius, candidates) ==
  LET groups   == {Connected(c, candidates) : c \in candidates}
      place(g) == 1 + Cardinality({h \in groups : Before(First(h), First(g))})
  IN  {[id    |-> <<world, First(g).name, radius, place(g), Centroid(g)>>,
        name  |-> First(g).name,
        candidates |-> g] : g \in groups}

-----------------------------------------------------------------------------
(* The cache.                                                              *)

NoEntry == [radius |-> 0, clusters |-> {}]
Entry(world, radius, candidates) ==
  [radius |-> radius, clusters |-> Clusters(world, radius, candidates)]
CandidatesOf(entry) == UNION {c.candidates : c \in entry.clusters}

\* refresh: what the scan brings replaces the entry, also when it brings nothing.
Refreshed(world, key, radius, candidates) ==
  cache' = [cache EXCEPT ![world][key] = Entry(world, radius, candidates)]

\* blockChangeRemovesCandidate: the block is another one now, or none.
Removes(change, candidate) == change.at = candidate.at /\ change.name # candidate.name

\* mutant: what is left of a cluster stays one cluster.
EntryWithout_Whole(world, entry, gone) ==
  IF gone \cap CandidatesOf(entry) = {} THEN entry
  ELSE [entry EXCEPT !.clusters =
          {[c EXCEPT !.candidates = @ \ gone] :
             c \in {d \in entry.clusters : ~ (d.candidates \subseteq gone)}}]

EntryWithout(world, entry, gone) ==
  LET left == CandidatesOf(entry) \ gone
  IN  IF left = CandidatesOf(entry) THEN entry
      ELSE IF left = {} THEN NoEntry
      ELSE Entry(world, entry.radius, left)

\* applyBlockChanges: every key of the world the bot is in, and no other world.
BlockChangesApplied(world, changes) ==
  cache' = [cache EXCEPT ![world] = [key \in Keys |->
              EntryWithout(world, cache[world][key],
                           {c \in CandidatesOf(cache[world][key]) :
                              \E change \in changes : Removes(change, c)})]]

-----------------------------------------------------------------------------
(* The trees to cut: the lowest log of each cluster, the nearest cluster    *)
(* that suffices, or else the nearest ones until they do.                   *)

Target(candidates) ==
  CHOOSE c \in candidates :
    \A d \in candidates \ {c} :
      c.at[2] < d.at[2] \/ (c.at[2] = d.at[2] /\ Before(c, d))

Distance(cluster) == Target(cluster.candidates).distance
Size(cluster) == Cardinality(cluster.candidates)

Nearer(c, d) ==
  \/ Distance(c) < Distance(d)
  \/ Distance(c) = Distance(d) /\ Size(c) > Size(d)
  \/ /\ Distance(c) = Distance(d) /\ Size(c) = Size(d)
     /\ Before(First(c.candidates), First(d.candidates))

AcceptedTrees(entry) ==
  CHOOSE trees \in SetToSeqs(entry.clusters) :
    \A i, j \in DOMAIN trees : i < j => Nearer(trees[i], trees[j])

LogsIn(trees) == FoldSeq(LAMBDA c, acc : acc + Size(c), 0, trees)

SelectTrees(entry, required) ==
  LET trees  == AcceptedTrees(entry)
      enough == {i \in DOMAIN trees : Size(trees[i]) >= required}
      first  == CHOOSE i \in enough : \A j \in enough : i <= j
      needed == {n \in DOMAIN trees : LogsIn(SubSeq(trees, 1, n - 1)) < required}
  IN  IF enough # {} THEN <<trees[first]>> ELSE SubSeq(trees, 1, Cardinality(needed))

-----------------------------------------------------------------------------
\* Every entry splits its blocks into clusters the way the specification of
\* resources says: blocks of one name that touch are in one cluster, and no
\* cluster falls into parts that do not touch, however blocks were taken out.
ClustersAreConnected ==
  \A world \in Worlds, key \in Keys :
    LET entry == cache[world][key]
    IN  /\ \A c, d \in entry.clusters : c # d =>
             ~ \E e \in c.candidates, f \in d.candidates : e = f \/ Adjacent(e, f)
        /\ \A c \in entry.clusters :
             /\ c.candidates # {}
             /\ \A part \in (SUBSET c.candidates) \ {{}, c.candidates} :
                  \E e \in part, f \in c.candidates \ part : Adjacent(e, f)
=============================================================================

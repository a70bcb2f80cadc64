------------------------ MODULE TerrainSkillsProofs ------------------------
(***************************************************************************)
(* Proofs about the skills that walk the terrain, goTo (TerrainNavigation) *)
(* and mine (MineSkill), for every world, route and limit of the searches: *)
(*   - what the searches of TerrainRouter and MinePlanner find can be      *)
(*     carried out step by step and leads to the goal;                     *)
(*   - after an abort at most one more dig or placement is asked of the    *)
(*     server;                                                             *)
(*   - a miner counts no block that was not dug for it;                    *)
(*   - a bot that loses its footing stands again one block further down,   *)
(*     on its way to a place (goTo) and in all the rounds of a miner.      *)
(***************************************************************************)
EXTENDS MineSkill, TLAPS, FiniteSetTheorems, SequenceTheorems, WellFoundedInduction

(* A set of natural numbers has a least element.  (The intervals up to the *)
(* numbers are finite sets, and inclusion among those is well-founded.)    *)
LEMMA LeastNatural ==
  ASSUME NEW T \in SUBSET Nat, T # {}
  PROVE  \E x \in T : \A y \in T : x <= y
<1> DEFINE R == StrictSubsetOrdering(Nat)
           U == {1 .. x : x \in T}
<1>1. IsWellFoundedOn(R, FiniteSubsetsOf(Nat))
  BY FS_StrictSubsetOrderingWellFounded
<1>2. U \subseteq FiniteSubsetsOf(Nat) /\ U # {}
  <2>1. \A x \in T : IsFiniteSet(1 .. x)
    BY FS_Interval
  <2>2. \A x \in T : 1 .. x \in SUBSET Nat
    OBVIOUS
  <2>3. \A x \in T : 1 .. x \in FiniteSubsetsOf(Nat)
    BY <2>1, <2>2 DEF FiniteSubsetsOf
  <2>4. PICK x \in T : TRUE
    OBVIOUS
  <2>5. 1 .. x \in U
    OBVIOUS
  <2>6. U \subseteq FiniteSubsetsOf(Nat)
    BY <2>3
  <2> QED BY <2>5, <2>6
<1>3. PICK u \in U : \A v \in U : ~ (<<v, u>> \in R)
  <2> HIDE DEF R, U
  <2> QED BY <1>1, <1>2, WFMin
<1>4. PICK x \in T : u = 1 .. x
  OBVIOUS
<1>5. ASSUME NEW y \in T, y < x PROVE FALSE
  <2>1. x \in 1 .. x /\ x \notin 1 .. y
    BY <1>5
  <2>2. 1 .. y \subseteq 1 .. x /\ 1 .. y # 1 .. x
    BY <1>5, <2>1
  <2>3. <<1 .. y, u>> \in R
    BY <1>4, <2>2 DEF StrictSubsetOrdering
  <2> QED BY <1>3, <2>3
<1> QED BY <1>5

(* So a set that has a number, and with every number the next, has all of  *)
(* them.                                                                   *)
LEMMA Climbs ==
  ASSUME NEW a \in Int, NEW b \in Int, NEW Good,
         a \in Good, \A m \in a + 1 .. b : m - 1 \in Good => m \in Good
  PROVE  \A m \in a .. b : m \in Good
<1> DEFINE Bad == {k \in Nat : a + k <= b /\ a + k \notin Good}
<1>1. SUFFICES ASSUME Bad # {} PROVE FALSE
  <2>1. ASSUME NEW m \in a .. b, m \notin Good PROVE Bad # {}
    <3>1. m - a \in Nat /\ a + (m - a) = m /\ m <= b
      OBVIOUS
    <3>2. m - a \in Bad
      BY <2>1, <3>1
    <3> QED BY <3>2
  <2> QED BY <2>1
<1>2. Bad \in SUBSET Nat
  OBVIOUS
<1>3. PICK k \in Bad : \A j \in Bad : k <= j
  <2> HIDE DEF Bad
  <2> QED BY <1>1, <1>2, LeastNatural
<1>4. k \in Nat /\ a + k <= b /\ a + k \notin Good
  OBVIOUS
<1>5. k # 0
  BY <1>4
<1>6. k - 1 \in Nat /\ k - 1 \notin Bad
  <2>1. k - 1 \in Nat /\ ~ (k <= k - 1)
    BY <1>4, <1>5
  <2> HIDE DEF Bad
  <2> QED BY <2>1, <1>3
<1>7. a + (k - 1) = (a + k) - 1 /\ a + k \in a + 1 .. b
  BY <1>4, <1>5
<1>8. (a + k) - 1 \in Good
  BY <1>4, <1>6, <1>7
<1> QED BY <1>4, <1>7, <1>8

(* Induction from 1 up to a bound.                                         *)
LEMMA ClimbsFromOne ==
  ASSUME NEW b \in Int, NEW Good,
         1 \in Good, \A m \in 2 .. b : m - 1 \in Good => m \in Good
  PROVE  \A m \in 1 .. b : m \in Good
<1>1. PICK a \in Int : a = 1
  OBVIOUS
<1>2. \A m \in a + 1 .. b : m - 1 \in Good => m \in Good
  BY <1>1
<1>3. \A m \in a .. b : m \in Good
  BY <1>1, <1>2, Climbs
<1> QED BY <1>1, <1>3

-----------------------------------------------------------------------------
(***************************************************************************)
(* Sequences of sequences, and folds.                                      *)
(***************************************************************************)

(* The elements of two sequences put together.                             *)
LEMMA JoinedElements ==
  ASSUME NEW S, NEW s \in Seq(S), NEW t \in Seq(S)
  PROVE  ToSet(s \o t) = ToSet(s) \cup ToSet(t)
<1>1. s \o t \in Seq(S) /\ DOMAIN (s \o t) = 1 .. Len(s) + Len(t)
  OBVIOUS
<1>2. \A k \in DOMAIN s : (s \o t)[k] = s[k] /\ k \in DOMAIN (s \o t)
  OBVIOUS
<1>3. \A k \in DOMAIN t : (s \o t)[Len(s) + k] = t[k] /\ Len(s) + k \in DOMAIN (s \o t)
  OBVIOUS
<1>4. ASSUME NEW k \in DOMAIN (s \o t)
      PROVE  (s \o t)[k] \in ToSet(s) \cup ToSet(t)
  <2>1. CASE k <= Len(s)
    BY <2>1, <1>1 DEF ToSet
  <2>2. CASE k > Len(s)
    <3>1. k - Len(s) \in DOMAIN t /\ (s \o t)[k] = t[k - Len(s)]
      BY <1>1, <2>2
    <3> QED BY <3>1 DEF ToSet
  <2> QED BY <1>1, <2>1, <2>2
<1>5. ToSet(s) \subseteq ToSet(s \o t)
  BY <1>2 DEF ToSet
<1>6. ToSet(t) \subseteq ToSet(s \o t)
  BY <1>3 DEF ToSet
<1>7. ToSet(s \o t) \subseteq ToSet(s) \cup ToSet(t)
  BY <1>4 DEF ToSet
<1> QED BY <1>5, <1>6, <1>7

Flattens(seqs, m, g) ==
  g = [i \in 1 .. m |-> IF i = 1 THEN seqs[i] ELSE g[i - 1] \o seqs[i]]

(* The function FlattenSeq is defined by exists: the first m sequences can *)
(* be joined, and then the next.                                           *)
LEMMA FlattensExists ==
  ASSUME NEW S, NEW seqs \in Seq(Seq(S))
  PROVE  \A m \in 1 .. Len(seqs) : \E g : Flattens(seqs, m, g)
<1> DEFINE Good == {m \in Nat : \E g : Flattens(seqs, m, g)}
<1>1. 1 \in Good
  <2>1. Flattens(seqs, 1, [i \in 1 .. 1 |-> seqs[i]])
    BY DEF Flattens
  <2> QED BY <2>1
<1>2. ASSUME NEW m \in 2 .. Len(seqs), m - 1 \in Good PROVE m \in Good
  <2>1. m \in Nat /\ m > 1
    OBVIOUS
  <2>2. PICK g : Flattens(seqs, m - 1, g)
    BY <1>2
  <2> DEFINE h == [i \in 1 .. m |-> IF i < m THEN g[i] ELSE g[m - 1] \o seqs[m]]
  <2>3. ASSUME NEW i \in 1 .. m
        PROVE  h[i] = IF i = 1 THEN seqs[i] ELSE h[i - 1] \o seqs[i]
    <3>1. CASE i = m
      <4>1. i - 1 \in 1 .. m /\ i - 1 < m /\ i - 1 = m - 1 /\ ~ (i < m)
        BY <2>1, <3>1
      <4>2. h[i] = g[m - 1] \o seqs[m]
        BY <3>1, <4>1
      <4>3. h[i - 1] = g[m - 1]
        BY <4>1
      <4> QED BY <2>1, <3>1, <4>2, <4>3
    <3>2. CASE i # m
      <4>1. i \in 1 .. m - 1 /\ i < m
        BY <2>1, <3>2
      <4>2. h[i] = g[i] /\ (i # 1 => h[i - 1] = g[i - 1])
        BY <2>1, <4>1
      <4>3. g[i] = IF i = 1 THEN seqs[i] ELSE g[i - 1] \o seqs[i]
        BY <2>2, <4>1 DEF Flattens
      <4> QED BY <4>2, <4>3
    <3> QED BY <3>1, <3>2
  <2>4. h = [i \in 1 .. m |-> h[i]]
    OBVIOUS
  <2>5. Flattens(seqs, m, h)
    <3> HIDE DEF h
    <3> QED BY <2>3, <2>4 DEF Flattens
  <2> QED BY <2>1, <2>5
<1>3. Len(seqs) \in Int
  OBVIOUS
<1>4. \A m \in 1 .. Len(seqs) : m \in Good
  <2> HIDE DEF Good
  <2> QED BY <1>1, <1>2, <1>3, ClimbsFromOne
<1> QED BY <1>4

(* A sequence of sequences is flattened by joining one after the other.    *)
LEMMA FlattenSteps ==
  ASSUME NEW S, NEW seqs \in Seq(Seq(S)), seqs # << >>
  PROVE  \E g : /\ \A i \in 1 .. Len(seqs) : g[i] \in Seq(S)
                /\ g[1] = seqs[1]
                /\ \A i \in 2 .. Len(seqs) : g[i] = g[i - 1] \o seqs[i]
                /\ FlattenSeq(seqs) = g[Len(seqs)]
<1>1. Len(seqs) \in Nat \ {0} /\ Len(seqs) \in 1 .. Len(seqs) /\ Len(seqs) \in Int
  OBVIOUS
<1>2. \E g : Flattens(seqs, Len(seqs), g)
  BY <1>1, FlattensExists
<1>3. PICK g : Flattens(seqs, Len(seqs), g) /\ FlattenSeq(seqs) = g[Len(seqs)]
  BY <1>1, <1>2 DEF FlattenSeq, Flattens
<1>4. \A i \in 1 .. Len(seqs) : g[i] = IF i = 1 THEN seqs[i] ELSE g[i - 1] \o seqs[i]
  BY <1>3 DEF Flattens
<1>5. g[1] = seqs[1]
  BY <1>1, <1>4
<1>6. ASSUME NEW i \in 2 .. Len(seqs) PROVE g[i] = g[i - 1] \o seqs[i]
  <2>1. i \in 1 .. Len(seqs) /\ i # 1
    BY <1>1
  <2> QED BY <1>4, <2>1
<1> DEFINE Good == {m \in Nat : g[m] \in Seq(S)}
<1>7. 1 \in Good
  BY <1>1, <1>5
<1>8. ASSUME NEW m \in 2 .. Len(seqs), m - 1 \in Good PROVE m \in Good
  <2>1. m \in 1 .. Len(seqs) /\ m \in Nat
    BY <1>1
  <2>2. g[m - 1] \in Seq(S)
    BY <1>8
  <2>3. seqs[m] \in Seq(S)
    BY <2>1
  <2>4. g[m] = g[m - 1] \o seqs[m]
    BY <1>6
  <2>5. g[m] \in Seq(S)
    BY <2>2, <2>3, <2>4
  <2> QED BY <2>1, <2>5
<1>9. \A m \in 1 .. Len(seqs) : m \in Good
  <2> HIDE DEF Good
  <2> QED BY <1>1, <1>7, <1>8, ClimbsFromOne
<1> QED BY <1>3, <1>5, <1>6, <1>9

(* What is flattened is a sequence of what the parts are made of.          *)
LEMMA FlattenTypes ==
  ASSUME NEW S, NEW seqs \in Seq(Seq(S))
  PROVE  FlattenSeq(seqs) \in Seq(S)
<1>1. CASE seqs = << >>
  BY <1>1 DEF FlattenSeq
<1>2. CASE seqs # << >>
  <2>1. PICK g : (\A i \in 1 .. Len(seqs) : g[i] \in Seq(S)) /\ FlattenSeq(seqs) = g[Len(seqs)]
    BY <1>2, FlattenSteps
  <2>2. Len(seqs) \in 1 .. Len(seqs)
    BY <1>2
  <2> QED BY <2>1, <2>2
<1> QED BY <1>1, <1>2

(* And every part is in it.                                                *)
LEMMA FlattenCovers ==
  ASSUME NEW S, NEW seqs \in Seq(Seq(S)), NEW i \in DOMAIN seqs
  PROVE  \A j \in DOMAIN seqs[i] : seqs[i][j] \in ToSet(FlattenSeq(seqs))
<1>1. seqs # << >> /\ i \in 1 .. Len(seqs) /\ Len(seqs) \in Nat /\ seqs[i] \in Seq(S)
  OBVIOUS
<1>2. PICK g : /\ \A k \in 1 .. Len(seqs) : g[k] \in Seq(S)
               /\ g[1] = seqs[1]
               /\ \A k \in 2 .. Len(seqs) : g[k] = g[k - 1] \o seqs[k]
               /\ FlattenSeq(seqs) = g[Len(seqs)]
  BY <1>1, FlattenSteps
<1> DEFINE Good == {m \in Nat : \A j \in DOMAIN seqs[i] : seqs[i][j] \in ToSet(g[m])}
<1>3. i \in Good
  <2>1. \A j \in DOMAIN seqs[i] : seqs[i][j] \in ToSet(seqs[i])
    BY DEF ToSet
  <2>2. CASE i = 1
    BY <1>1, <1>2, <2>1, <2>2
  <2>3. CASE i # 1
    <3>1. i \in 2 .. Len(seqs) /\ i - 1 \in 1 .. Len(seqs)
      BY <1>1, <2>3
    <3>2. g[i] = g[i - 1] \o seqs[i] /\ g[i - 1] \in Seq(S)
      BY <1>2, <3>1
    <3>3. ToSet(seqs[i]) \subseteq ToSet(g[i])
      BY <1>1, <3>2, JoinedElements
    <3> QED BY <1>1, <2>1, <3>3
  <2> QED BY <2>2, <2>3
<1>4. ASSUME NEW m \in i + 1 .. Len(seqs), m - 1 \in Good PROVE m \in Good
  <2>1. m \in 2 .. Len(seqs) /\ m - 1 \in 1 .. Len(seqs) /\ m \in 1 .. Len(seqs)
    BY <1>1
  <2>2. g[m - 1] \in Seq(S) /\ seqs[m] \in Seq(S)
    BY <1>2, <2>1
  <2>3. g[m] = g[m - 1] \o seqs[m]
    BY <1>2, <2>1
  <2>4. ToSet(g[m - 1]) \subseteq ToSet(g[m])
    BY <2>2, <2>3, JoinedElements
  <2> QED BY <1>4, <2>1, <2>4
<1>5. \A m \in i .. Len(seqs) : m \in Good
  <2>1. i \in Int /\ Len(seqs) \in Int
    BY <1>1
  <2> HIDE DEF Good
  <2> QED BY <1>3, <1>4, <2>1, Climbs
<1>6. Len(seqs) \in i .. Len(seqs)
  BY <1>1
<1> QED BY <1>2, <1>5, <1>6

(* The function that FoldLeft(Push, base, entries) is defined by, on the   *)
(* sets of the first m indices.                                            *)
Pushes(base, entries, m, it) ==
  it = [s \in SUBSET (1 .. m) |->
          IF s = {} THEN base ELSE Push(it[s \ {Max(s)}], entries[Max(s)])]

(* The greatest element of a set of indices.                               *)
LEMMA MaxIsIn ==
  ASSUME NEW m \in Nat, NEW s \in SUBSET (1 .. m), s # {}
  PROVE  Max(s) \in s /\ \A x \in s : Max(s) >= x
<1> DEFINE Up == {m - x : x \in s}
<1>1. Up \in SUBSET Nat /\ Up # {}
  <2>1. \A x \in s : x \in 1 .. m
    OBVIOUS
  <2>2. \A x \in s : m - x \in Nat
    BY <2>1
  <2> QED BY <2>2
<1>2. PICK u \in Up : \A v \in Up : u <= v
  <2> HIDE DEF Up
  <2> QED BY <1>1, LeastNatural
<1>3. PICK x \in s : u = m - x
  OBVIOUS
<1>4. \A y \in s : x >= y
  <2>1. ASSUME NEW y \in s PROVE x >= y
    <3>1. m - y \in Up
      OBVIOUS
    <3>2. m - x <= m - y
      BY <1>2, <1>3, <3>1
    <3> QED BY <3>2
  <2> QED BY <2>1
<1> QED BY <1>4 DEF Max

(* The greatest of the first indices is the last one.                      *)
LEMMA MaxOfAll ==
  ASSUME NEW m \in Nat \ {0}
  PROVE  Max(1 .. m) = m
<1>1. 1 .. m \in SUBSET (1 .. m) /\ m \in 1 .. m
  OBVIOUS
<1>2. Max(1 .. m) \in 1 .. m /\ Max(1 .. m) >= m
  BY <1>1, MaxIsIn
<1> QED BY <1>2

(* The function that defines the fold exists, by induction on the indices. *)
LEMMA PushesExists ==
  ASSUME NEW base, NEW entries, NEW n \in Nat
  PROVE  \E it : Pushes(base, entries, n, it)
<1> DEFINE Good == {m \in Nat : \E it : Pushes(base, entries, m, it)}
<1>1. 0 \in Good
  <2>1. SUBSET (1 .. 0) = {{}}
    OBVIOUS
  <2> DEFINE it == [s \in SUBSET (1 .. 0) |-> base]
  <2>2. Pushes(base, entries, 0, it)
    BY <2>1 DEF Pushes
  <2> QED BY <2>2
<1>2. ASSUME NEW m \in 1 .. n, m - 1 \in Good PROVE m \in Good
  <2>1. m \in Nat /\ m > 0 /\ m - 1 \in Nat
    OBVIOUS
  <2>2. PICK it : Pushes(base, entries, m - 1, it)
    BY <1>2
  <2>3. \A s \in SUBSET (1 .. m - 1) :
          it[s] = IF s = {} THEN base ELSE Push(it[s \ {Max(s)}], entries[Max(s)])
    BY <2>2 DEF Pushes
  <2> DEFINE h == [s \in SUBSET (1 .. m) |->
                     IF m \in s THEN Push(it[s \ {m}], entries[m]) ELSE it[s]]
  <2>4. ASSUME NEW s \in SUBSET (1 .. m)
        PROVE  h[s] = IF s = {} THEN base ELSE Push(h[s \ {Max(s)}], entries[Max(s)])
    <3>1. CASE m \in s
      <4>1. Max(s) = m
        <5>1. Max(s) \in s /\ Max(s) >= m
          BY <2>1, <3>1, MaxIsIn
        <5>2. Max(s) \in 1 .. m
          BY <5>1
        <5> QED BY <2>1, <5>1, <5>2
      <4>2. s \ {m} \in SUBSET (1 .. m) /\ m \notin s \ {m}
        OBVIOUS
      <4>3. h[s \ {m}] = it[s \ {m}]
        BY <4>2
      <4>4. h[s] = Push(it[s \ {m}], entries[m])
        BY <3>1
      <4> QED BY <3>1, <4>1, <4>3, <4>4
    <3>2. CASE m \notin s /\ s # {}
      <4>1. s \in SUBSET (1 .. m - 1) /\ s \ {Max(s)} \in SUBSET (1 .. m) /\ m \notin s \ {Max(s)}
        <5>1. \A x \in s : x \in 1 .. m /\ x # m
          BY <3>2
        <5>2. \A x \in 1 .. m : x # m => x \in 1 .. m - 1
          BY <2>1
        <5> QED BY <3>2, <5>1, <5>2
      <4>2. h[s] = it[s] /\ h[s \ {Max(s)}] = it[s \ {Max(s)}]
        BY <3>2, <4>1
      <4>3. it[s] = Push(it[s \ {Max(s)}], entries[Max(s)])
        BY <2>3, <3>2, <4>1
      <4> QED BY <3>2, <4>2, <4>3
    <3>3. CASE s = {}
      <4>1. h[s] = it[s]
        BY <3>3
      <4>2. s \in SUBSET (1 .. m - 1)
        BY <3>3
      <4>3. it[s] = base
        BY <2>3, <3>3, <4>2
      <4> QED BY <3>3, <4>1, <4>3
    <3> QED BY <3>1, <3>2, <3>3
  <2>5. h = [s \in SUBSET (1 .. m) |-> h[s]]
    OBVIOUS
  <2>6. Pushes(base, entries, m, h)
    <3> HIDE DEF h
    <3> QED BY <2>4, <2>5 DEF Pushes
  <2> QED BY <2>1, <2>6
<1>3. PICK a \in Int : a = 0
  OBVIOUS
<1>4. \A m \in a .. n : m \in Good
  <2>1. a \in Good /\ \A m \in a + 1 .. n : m - 1 \in Good => m \in Good
    <3> HIDE DEF Good
    <3> QED BY <1>1, <1>2, <1>3
  <2> HIDE DEF Good
  <2> QED BY <2>1, Climbs
<1>5. n \in a .. n
  BY <1>3
<1> QED BY <1>4, <1>5

(* What is open after the entries were pushed was open before or is one of *)
(* their nodes.                                                            *)
LEMMA PushedNodes ==
  ASSUME NEW base, NEW S, NEW entries \in Seq(S)
  PROVE  FoldLeft(Push, base, entries).open
           \subseteq base.open \cup {entries[i].node : i \in DOMAIN entries}
<1>1. Len(entries) \in Nat /\ DOMAIN entries = 1 .. Len(entries)
  OBVIOUS
<1>2. \E it : Pushes(base, entries, Len(entries), it)
  BY <1>1, PushesExists
<1>3. PICK it : /\ Pushes(base, entries, Len(entries), it)
                /\ FoldLeft(Push, base, entries) = it[DOMAIN entries]
  BY <1>1, <1>2 DEF FoldLeft, MapThenFoldSet, Pushes
<1>4. \A s \in SUBSET (1 .. Len(entries)) :
        it[s] = IF s = {} THEN base ELSE Push(it[s \ {Max(s)}], entries[Max(s)])
  BY <1>3 DEF Pushes
<1> DEFINE Nodes == base.open \cup {entries[i].node : i \in DOMAIN entries}
           Good == {m \in Nat : it[1 .. m].open \subseteq Nodes}
<1>5. 0 \in Good
  <2>1. 1 .. 0 = {} /\ {} \in SUBSET (1 .. Len(entries))
    OBVIOUS
  <2>2. it[1 .. 0] = base
    BY <1>4, <2>1
  <2> QED BY <2>2
<1>6. ASSUME NEW m \in 1 .. Len(entries), m - 1 \in Good PROVE m \in Good
  <2>1. m \in Nat /\ 1 .. m # {} /\ Max(1 .. m) = m /\ (1 .. m) \ {m} = 1 .. m - 1
    <3>1. m \in Nat \ {0} /\ m \in 1 .. m
      BY <1>1
    <3>2. (1 .. m) \ {m} = 1 .. m - 1
      BY <3>1
    <3> QED BY <3>1, <3>2, MaxOfAll
  <2>2. 1 .. m \in SUBSET (1 .. Len(entries))
    BY <1>1
  <2>3. it[1 .. m] = Push(it[1 .. m - 1], entries[m])
    BY <1>4, <2>1, <2>2
  <2>4. entries[m].node \in Nodes
    BY <1>1
  <2>5. it[1 .. m - 1].open \subseteq Nodes
    BY <1>6
  <2>6. it[1 .. m].open \subseteq Nodes
    <3> HIDE DEF Nodes
    <3> QED BY <2>3, <2>4, <2>5 DEF Push
  <2> QED BY <2>1, <2>6
<1>7. PICK a \in Int : a = 0
  OBVIOUS
<1>8. \A m \in a .. Len(entries) : m \in Good
  <2>1. a \in Good /\ \A m \in a + 1 .. Len(entries) : m - 1 \in Good => m \in Good
    <3> HIDE DEF Good
    <3> QED BY <1>1, <1>5, <1>6, <1>7
  <2>2. Len(entries) \in Int
    BY <1>1
  <2> HIDE DEF Good
  <2> QED BY <2>1, <2>2, Climbs
<1>9. Len(entries) \in a .. Len(entries)
  BY <1>1, <1>7
<1> QED BY <1>1, <1>3, <1>8, <1>9

-----------------------------------------------------------------------------
(***************************************************************************)
(* Positions.                                                              *)
(***************************************************************************)

Dirs == {"north", "east", "south", "west"}

(* Cells of one column.                                                    *)
LEMMA AboveFacts ==
  ASSUME NEW p \in Positions
  PROVE  /\ Above(p, 0) = p
         /\ \A j \in Int : Above(p, j) \in Positions
         /\ \A j, k \in Int : Above(Above(p, j), k) = Above(p, j + k)
         /\ \A j, k \in Int : Above(p, j) = Above(p, k) => j = k
<1>1. PICK x \in Int, y \in Int, z \in Int : p = <<x, y, z>>
  BY DEF Positions
<1>2. \A k \in Int : Above(p, k) = <<x, y + k, z>>
  BY <1>1 DEF Above
<1>3. \A j, k \in Int : Above(Above(p, j), k) = <<x, (y + j) + k, z>>
  BY <1>2 DEF Above
<1>4. Above(p, 0) = p
  <2>1. Above(p, 0) = <<x, y + 0, z>>
    BY <1>2
  <2>2. y + 0 = y
    OBVIOUS
  <2> QED BY <1>1, <2>1, <2>2
<1>5. \A j \in Int : Above(p, j) \in Positions
  BY <1>2 DEF Positions
<1>6. ASSUME NEW j \in Int, NEW k \in Int PROVE Above(Above(p, j), k) = Above(p, j + k)
  <2>1. (y + j) + k = y + (j + k) /\ j + k \in Int
    OBVIOUS
  <2> QED BY <1>2, <1>3, <2>1
<1>7. ASSUME NEW j \in Int, NEW k \in Int, Above(p, j) = Above(p, k) PROVE j = k
  <2>1. <<x, y + j, z>> = <<x, y + k, z>>
    BY <1>2, <1>7
  <2>2. y + j = y + k
    BY <2>1
  <2> QED BY <2>2
<1> QED BY <1>4, <1>5, <1>6, <1>7

(* The columns beside a cell are other ones, a step away.                  *)
LEMMA BesideFacts ==
  ASSUME NEW p \in Positions, NEW dir \in Dirs
  PROVE  /\ Beside(p, DIR_VEC[dir]) \in Positions
         /\ \A j, k \in Int : Above(Beside(p, DIR_VEC[dir]), j) # Above(p, k)
         /\ \A k \in -1 .. 1 : Near(p, Above(Beside(p, DIR_VEC[dir]), k))
<1>1. PICK x \in Int, y \in Int, z \in Int : p = <<x, y, z>>
  BY DEF Positions
<1>2. PICK u \in Int, v \in Int :
        DIR_VEC[dir] = <<u, v>> /\ <<u, v>> \in {<<0, -1>>, <<1, 0>>, <<0, 1>>, <<-1, 0>>}
  BY DEF DIR_VEC, Dirs
<1>3. Beside(p, DIR_VEC[dir]) = <<x + u, y, z + v>>
  BY <1>1, <1>2 DEF Beside
<1>4. u # 0 \/ v # 0
  BY <1>2
<1>5. \A j \in Int : Above(Beside(p, DIR_VEC[dir]), j) = <<x + u, y + j, z + v>>
  BY <1>3 DEF Above
<1>6. \A k \in Int : Above(p, k) = <<x, y + k, z>>
  BY <1>1 DEF Above
<1>7. ASSUME NEW j \in Int, NEW k \in Int
      PROVE  Above(Beside(p, DIR_VEC[dir]), j) # Above(p, k)
  <2>1. x + u # x \/ z + v # z
    BY <1>4
  <2>2. <<x + u, y + j, z + v>> # <<x, y + k, z>>
    BY <2>1
  <2> QED BY <1>5, <1>6, <2>2
<1>8. ASSUME NEW k \in -1 .. 1
      PROVE  Near(p, Above(Beside(p, DIR_VEC[dir]), k))
  <2> DEFINE q == <<x + u, y + k, z + v>>
  <2>1. /\ p[1] - q[1] = x - (x + u) /\ p[2] - q[2] = y - (y + k) /\ p[3] - q[3] = z - (z + v)
    BY <1>1
  <2>2. AbsOf(x - (x + u)) = AbsOf(u) /\ AbsOf(z - (z + v)) = AbsOf(v)
    BY DEF AbsOf
  <2>3. AbsOf(u) \in 0 .. 1 /\ AbsOf(v) \in 0 .. 1 /\ AbsOf(u) + AbsOf(v) = 1
    BY <1>2 DEF AbsOf
  <2>4. HorizontalDistance(p, q) \in 0 .. 1
    <3>1. HorizontalDistance(p, q) =
            CHOOSE d \in 0 .. 1 :
              /\ d * d >= AbsOf(u) * AbsOf(u) + AbsOf(v) * AbsOf(v)
              /\ d = 0 \/ (d - 1) * (d - 1) < AbsOf(u) * AbsOf(u) + AbsOf(v) * AbsOf(v)
      BY <2>1, <2>2, <2>3 DEF HorizontalDistance
    <3>2. AbsOf(u) * AbsOf(u) + AbsOf(v) * AbsOf(v) = 1
      BY <2>3
    <3>3. 1 \in 0 .. 1 /\ 1 * 1 >= 1 /\ (1 - 1) * (1 - 1) < 1
      OBVIOUS
    <3> QED BY <3>1, <3>2, <3>3
  <2>5. AbsOf(y - (y + k)) <= 1
    BY DEF AbsOf
  <2>6. Near(p, q)
    <3> HIDE DEF q
    <3> QED BY <2>1, <2>4, <2>5 DEF Near
  <2>7. Above(Beside(p, DIR_VEC[dir]), k) = q
    BY <1>5
  <2> QED BY <2>6, <2>7
<1>9. <<x + u, y, z + v>> \in Positions
  BY DEF Positions
<1> QED BY <1>3, <1>7, <1>8, <1>9

(* Under a cell is what is below it in its column.                         *)
LEMMA UnderFacts ==
  ASSUME NEW p \in Positions, NEW q \in Positions
  PROVE  /\ IsUnder(q, p) <=> \E k \in Int : k < 0 /\ q = Above(p, k)
         /\ \A k \in Int : k >= 0 => ~ IsUnder(Above(p, k), p)
<1>1. PICK x \in Int, y \in Int, z \in Int : p = <<x, y, z>>
  BY DEF Positions
<1>2. PICK u \in Int, v \in Int, w \in Int : q = <<u, v, w>>
  BY DEF Positions
<1>3. IsUnder(q, p) <=> u = x /\ w = z /\ v < y
  BY <1>1, <1>2 DEF IsUnder
<1>4. \A k \in Int : Above(p, k) = <<x, y + k, z>>
  BY <1>1 DEF Above
<1>5. IsUnder(q, p) => \E k \in Int : k < 0 /\ q = Above(p, k)
  <2>1. IsUnder(q, p) => v - y \in Int /\ v - y < 0 /\ y + (v - y) = v
    BY <1>3
  <2>2. IsUnder(q, p) => q = <<x, y + (v - y), z>>
    BY <1>2, <1>3, <2>1
  <2> QED BY <1>4, <2>1, <2>2
<1>6. ASSUME NEW k \in Int, k < 0, q = Above(p, k) PROVE IsUnder(q, p)
  <2>1. u = x /\ v = y + k /\ w = z
    BY <1>2, <1>4, <1>6
  <2> QED BY <1>3, <1>6, <2>1
<1>7. ASSUME NEW k \in Int, k >= 0 PROVE ~ IsUnder(Above(p, k), p)
  <2>1. Above(p, k) = <<x, y + k, z>>
    BY <1>4
  <2>2. <<x, y + k, z>>[2] = y + k /\ <<x, y, z>>[2] = y
    OBVIOUS
  <2>3. ~ (y + k < y)
    BY <1>7
  <2> QED BY <1>1, <2>1, <2>2, <2>3 DEF IsUnder
<1> QED BY <1>5, <1>6, <1>7

(* The cells over and under a cell are a step away.                        *)
LEMMA NearAbove ==
  ASSUME NEW p \in Positions, NEW k \in -1 .. 1
  PROVE  Near(p, Above(p, k))
<1>1. PICK x \in Int, y \in Int, z \in Int : p = <<x, y, z>>
  BY DEF Positions
<1> DEFINE q == <<x, y + k, z>>
<1>2. Above(p, k) = q
  BY <1>1 DEF Above
<1>3. p[1] - q[1] = 0 /\ p[2] - q[2] = y - (y + k) /\ p[3] - q[3] = 0
  BY <1>1
<1>4. AbsOf(0) = 0 /\ AbsOf(y - (y + k)) <= 1
  BY DEF AbsOf
<1>5. HorizontalDistance(p, q) = 0
  <2>1. HorizontalDistance(p, q) =
          CHOOSE d \in 0 .. 0 : d * d >= 0 /\ (d = 0 \/ (d - 1) * (d - 1) < 0)
    BY <1>3, <1>4 DEF HorizontalDistance
  <2>2. 0 \in 0 .. 0 /\ 0 * 0 >= 0
    OBVIOUS
  <2>3. (CHOOSE d \in 0 .. 0 : d * d >= 0 /\ (d = 0 \/ (d - 1) * (d - 1) < 0)) \in 0 .. 0
    BY <2>2
  <2> QED BY <2>1, <2>3
<1>6. Near(p, q)
  <2> HIDE DEF q
  <2> QED BY <1>3, <1>4, <1>5 DEF Near
<1> QED BY <1>2, <1>6

(* The cells a body needs, from a foot upwards.                            *)
LEMMA ClearanceTypes ==
  ASSUME NEW p \in Positions, NEW height \in Nat
  PROVE  /\ ClearancePositions(p, height) \in Seq(Positions)
         /\ ToSet(ClearancePositions(p, height)) = {Above(p, h) : h \in 0 .. height - 1}
<1>1. ASSUME NEW i \in 1 .. height
      PROVE  Above(p, i - 1) \in Positions /\ i - 1 \in 0 .. height - 1
  BY AboveFacts
<1>2. ClearancePositions(p, height) \in [1 .. height -> Positions]
  BY <1>1 DEF ClearancePositions
<1>3. ClearancePositions(p, height) \in Seq(Positions)
  BY <1>2
<1>4. ASSUME NEW h \in 0 .. height - 1
      PROVE  Above(p, h) \in ToSet(ClearancePositions(p, height))
  <2>1. h + 1 \in 1 .. height /\ (h + 1) - 1 = h
    OBVIOUS
  <2>2. ClearancePositions(p, height)[h + 1] = Above(p, h)
    BY <2>1 DEF ClearancePositions
  <2>3. h + 1 \in DOMAIN ClearancePositions(p, height)
    BY <1>2, <2>1
  <2> QED BY <2>2, <2>3 DEF ToSet
<1>5. ToSet(ClearancePositions(p, height)) \subseteq {Above(p, h) : h \in 0 .. height - 1}
  BY <1>1 DEF ToSet, ClearancePositions
<1> QED BY <1>3, <1>4, <1>5

-----------------------------------------------------------------------------
(***************************************************************************)
(* A cell in the world a node's actions would leave.                       *)
(***************************************************************************)

Cell(n, p) == IF p \in n.solid THEN "rock" ELSE IF p \in n.air THEN "air" ELSE Block(p)

(* What a node takes a cell for is what it would be.                       *)
LEMMA CellFacts ==
  ASSUME NEW n, NEW p
  PROVE  /\ IsPassable(n, p) <=> IsAirBlock(Cell(n, p))
         /\ IsWalkableSupport(n, p) <=> IsSupportBlock(Cell(n, p))
         /\ CanDigBlock(n, p) => IsDiggableBlock(Cell(n, p)) /\ p \notin n.solid
BY DEF IsPassable, IsWalkableSupport, CanDigBlock, Cell, IsAirBlock, IsSupportBlock,
       IsHazardBlock

(* The cells to dig are those that are not passable, and no others.        *)
LEMMA DigsFacts ==
  ASSUME NEW n, NEW cells \in Seq(Positions)
  PROVE  /\ ClearanceDigs(n, cells) \in Seq(Positions)
         /\ ToSet(ClearanceDigs(n, cells)) = {p \in ToSet(cells) : ~ IsPassable(n, p)}
<1> DEFINE S == {p \in ToSet(cells) : ~ IsPassable(n, p)}
           parts == [i \in DOMAIN cells |-> When(~ IsPassable(n, cells[i]), cells[i])]
<1>1. ASSUME NEW i \in DOMAIN cells
      PROVE  When(~ IsPassable(n, cells[i]), cells[i]) \in Seq(S)
  <2>1. cells[i] \in ToSet(cells)
    BY DEF ToSet
  <2>2. CASE IsPassable(n, cells[i])
    BY <2>2 DEF When
  <2>3. CASE ~ IsPassable(n, cells[i])
    <3>1. cells[i] \in S
      BY <2>1, <2>3
    <3> HIDE DEF S
    <3> QED BY <2>3, <3>1 DEF When
  <2> QED BY <2>2, <2>3
<1>2. parts \in Seq(Seq(S)) /\ DOMAIN parts = DOMAIN cells
  <2> HIDE DEF S
  <2>1. parts \in [1 .. Len(cells) -> Seq(S)] /\ Len(cells) \in Nat
    BY <1>1
  <2> QED BY <2>1
<1>3. FlattenSeq(parts) \in Seq(S)
  <2> HIDE DEF S, parts
  <2> QED BY <1>2, FlattenTypes
<1>4. ClearanceDigs(n, cells) = FlattenSeq(parts)
  BY DEF ClearanceDigs
<1>5. S \subseteq Positions
  BY DEF ToSet
<1>6. ToSet(ClearanceDigs(n, cells)) \subseteq S
  <2> HIDE DEF S, parts
  <2> QED BY <1>3, <1>4 DEF ToSet
<1>7. ASSUME NEW p \in S PROVE p \in ToSet(ClearanceDigs(n, cells))
  <2>1. PICK i \in DOMAIN cells : cells[i] = p
    BY DEF ToSet
  <2>2. parts[i] = <<p>>
    BY <1>7, <2>1 DEF When
  <2>3. 1 \in DOMAIN parts[i] /\ parts[i][1] = p
    BY <2>2
  <2>4. \A j \in DOMAIN parts[i] : parts[i][j] \in ToSet(FlattenSeq(parts))
    <3> HIDE DEF S, parts
    <3> QED BY <1>2, FlattenCovers
  <2> QED BY <1>4, <2>3, <2>4
<1>8. ClearanceDigs(n, cells) \in Seq(Positions)
  <2> HIDE DEF S, parts
  <2> QED BY <1>3, <1>4, <1>5
<1> QED BY <1>6, <1>7, <1>8

-----------------------------------------------------------------------------
(***************************************************************************)
(* The actions a node can be extended with.                                *)
(***************************************************************************)

Kinds == {"walk", "drop1", "jumpUp", "placeUp1", "digWalk", "digStepDown", "digStepUp",
          "digDropSelfPlaced"}
Actions ==
  [kind : Kinds, toFoot : Positions, dir : Dirs, digs : Seq(Positions), cost : Int]

(* What a cell holds after an action of a node, and whether the bot can    *)
(* stand somewhere before and after it.                                    *)
CellThen(n, a, p) ==
  IF a.kind = "placeUp1" /\ n.foot = p THEN "rock"
  ELSE IF p \in ToSet(a.digs) THEN "air" ELSE Cell(n, p)
StandsNow(n, p) ==
  IsSupportBlock(Cell(n, Above(p, -1))) /\ \A h \in 0 .. 1 : IsAirBlock(Cell(n, Above(p, h)))
StandsThen(n, a, p) ==
  /\ IsSupportBlock(CellThen(n, a, Above(p, -1)))
  /\ \A h \in 0 .. 1 : IsAirBlock(CellThen(n, a, Above(p, h)))

(* What makes an action of a node executable.                              *)
Allowed(n, a) ==
  /\ Near(n.foot, a.toFoot) /\ StandsThen(n, a, a.toFoot)
  /\ \A p \in ToSet(a.digs) : CanDigBlock(n, p)
  /\ a.kind = "placeUp1" =>
       a.toFoot = Above(n.foot, 1) /\ n.foot \notin ToSet(a.digs)
  /\ a.kind = "digDropSelfPlaced" => a.toFoot = Above(n.foot, -1)
  /\ a.kind \in {"placeUp1", "digDropSelfPlaced"} => StandsNow(n, n.foot)
  /\ a.kind # "digDropSelfPlaced" => \A p \in ToSet(a.digs) : ~ IsUnder(p, n.foot)
AllowedActions(n) == {a \in Actions : Allowed(n, a)}

(* The parts of an action.                                                 *)
LEMMA ActionFields ==
  ASSUME NEW kind \in Kinds, NEW to \in Positions, NEW dir \in Dirs,
         NEW digs \in Seq(Positions), NEW cost \in Int
  PROVE  /\ Action(kind, to, dir, digs, cost) \in Actions
         /\ Action(kind, to, dir, digs, cost).kind = kind
         /\ Action(kind, to, dir, digs, cost).toFoot = to
         /\ Action(kind, to, dir, digs, cost).digs = digs
BY DEF Action, Actions

(* Where there is room, every cell can be passed.                          *)
LEMMA ClearFacts ==
  ASSUME NEW n, NEW p \in Positions, NEW height \in Nat, HasClearance(n, p, height)
  PROVE  \A h \in 0 .. height - 1 : IsPassable(n, Above(p, h))
<1>1. ASSUME NEW h \in 0 .. height - 1 PROVE IsPassable(n, Above(p, h))
  <2>1. h + 1 \in 1 .. height /\ (h + 1) - 1 = h
    OBVIOUS
  <2>2. ClearancePositions(p, height)[h + 1] = Above(p, h)
    BY <2>1 DEF ClearancePositions
  <2>3. IsPassable(n, ClearancePositions(p, height)[h + 1])
    BY <2>1 DEF HasClearance
  <2> QED BY <2>2, <2>3
<1> QED BY <1>1

(* A step to a cell with a floor and room, over which nothing is changed.  *)
LEMMA NaturalIsAllowed ==
  ASSUME NEW n, n.foot \in Positions, NEW dir \in Dirs, NEW k \in -1 .. 1,
         NEW to, to = Above(Beside(n.foot, DIR_VEC[dir]), k),
         NEW kind \in {"walk", "drop1", "jumpUp"}, NEW cost \in Int,
         NEW height \in Nat, height >= 2, HasClearance(n, to, height),
         IsWalkableSupport(n, Above(to, -1))
  PROVE  Action(kind, to, dir, << >>, cost) \in AllowedActions(n)
<1> DEFINE a == Action(kind, to, dir, << >>, cost)
<1>1. to \in Positions /\ Near(n.foot, to)
  <2>1. Beside(n.foot, DIR_VEC[dir]) \in Positions /\ k \in Int
    BY BesideFacts
  <2> QED BY <2>1, BesideFacts, AboveFacts
<1>2. kind \in Kinds /\ << >> \in Seq(Positions)
  BY DEF Kinds
<1>3. a \in Actions /\ a.kind = kind /\ a.toFoot = to /\ a.digs = << >>
  <2>1. a \in Actions
    BY <1>1, <1>2 DEF Actions, Action
  <2> QED BY <2>1 DEF Action
<1> HIDE DEF a
<1>4. ToSet(a.digs) = {}
  BY <1>3 DEF ToSet
<1>5. \A p : CellThen(n, a, p) = Cell(n, p)
  BY <1>3, <1>4 DEF CellThen
<1>6. \A h \in 0 .. 1 : IsPassable(n, Above(to, h))
  <2>1. \A h \in 0 .. height - 1 : IsPassable(n, Above(to, h))
    BY <1>1, ClearFacts
  <2> QED BY <2>1
<1>7. StandsThen(n, a, to)
  BY <1>5, <1>6, CellFacts DEF StandsThen
<1> QED BY <1>1, <1>3, <1>4, <1>7 DEF AllowedActions, Allowed, a

(* What is dug before a step to a cell beside: all in the column of that   *)
(* cell, but for the ceiling over the bot.                                 *)
LEMMA DigIsAllowed ==
  ASSUME NEW n, n.foot \in Positions, NEW dir \in Dirs, NEW k \in -1 .. 1,
         NEW to, to = Above(Beside(n.foot, DIR_VEC[dir]), k),
         NEW kind \in {"digWalk", "digStepDown", "digStepUp"}, NEW cost \in Int,
         NEW cells \in Seq(Positions), CanClear(n, cells),
         \A h \in 0 .. 1 : Above(to, h) \in ToSet(cells),
         ToSet(cells) \subseteq {Above(to, h) : h \in 0 .. 2} \cup {Above(n.foot, 2)},
         IsWalkableSupport(n, Above(to, -1))
  PROVE  Action(kind, to, dir, ClearanceDigs(n, cells), cost) \in AllowedActions(n)
<1> DEFINE digs == ClearanceDigs(n, cells)
           a == Action(kind, to, dir, digs, cost)
           side == Beside(n.foot, DIR_VEC[dir])
<1>1. side \in Positions /\ to \in Positions /\ Near(n.foot, to)
  BY BesideFacts, AboveFacts
<1>2. kind \in Kinds /\ kind # "placeUp1"
  BY DEF Kinds
<1>3. digs \in Seq(Positions) /\ ToSet(digs) = {p \in ToSet(cells) : ~ IsPassable(n, p)}
  BY DigsFacts
<1>4. \A p \in ToSet(digs) : CanDigBlock(n, p)
  BY DEF CanClear
<1> HIDE DEF digs
<1>5. a \in Actions /\ a.kind = kind /\ a.toFoot = to /\ a.digs = digs
  BY <1>1, <1>2, <1>3, ActionFields
<1> HIDE DEF a
<1>6. \A p : CellThen(n, a, p) = IF p \in ToSet(digs) THEN "air" ELSE Cell(n, p)
  BY <1>2, <1>5 DEF CellThen
<1>7. \A h \in 0 .. 1 : IsAirBlock(CellThen(n, a, Above(to, h)))
  <2>1. ASSUME NEW h \in 0 .. 1 PROVE IsAirBlock(CellThen(n, a, Above(to, h)))
    <3>1. CASE IsPassable(n, Above(to, h))
      BY <1>3, <1>6, <3>1, CellFacts
    <3>2. CASE ~ IsPassable(n, Above(to, h))
      BY <1>3, <1>6, <3>2 DEF IsAirBlock
    <3> QED BY <3>1, <3>2
  <2> QED BY <2>1
<1>8. \A h \in 0 .. 2 : Above(to, h) = Above(side, k + h) /\ k + h \in Int
  <2> SUFFICES ASSUME NEW h \in 0 .. 2
               PROVE  Above(to, h) = Above(side, k + h) /\ k + h \in Int
    OBVIOUS
  <2>1. k \in Int /\ h \in Int
    OBVIOUS
  <2>2. \A i, j \in Int : Above(Above(side, i), j) = Above(side, i + j)
    BY <1>1, AboveFacts
  <2> QED BY <2>1, <2>2
<1>9. Above(to, -1) \notin ToSet(cells)
  <2>1. Above(to, -1) = Above(side, k - 1) /\ k - 1 \in Int
    <3>1. k - 1 = k + (-1) /\ k \in Int /\ -1 \in Int
      OBVIOUS
    <3> QED BY <1>1, <3>1, AboveFacts
  <2>2. Above(to, -1) # Above(n.foot, 2)
    BY <2>1, BesideFacts
  <2>3. \A h \in 0 .. 2 : Above(to, -1) # Above(to, h)
    <3>1. \A r, s \in Int : Above(to, r) = Above(to, s) => r = s
      BY <1>1, AboveFacts
    <3>2. -1 \in Int /\ \A h \in 0 .. 2 : h \in Int /\ h # -1
      OBVIOUS
    <3> QED BY <3>1, <3>2
  <2> QED BY <2>2, <2>3
<1>10. StandsThen(n, a, to)
  <2>1. CellThen(n, a, Above(to, -1)) = Cell(n, Above(to, -1))
    BY <1>3, <1>6, <1>9
  <2> QED BY <1>7, <2>1, CellFacts DEF StandsThen
<1>11. ASSUME NEW p \in ToSet(digs) PROVE ~ IsUnder(p, n.foot)
  <2>1. p \in ToSet(cells) /\ p \in Positions
    <3>1. p \in ToSet(cells)
      BY <1>3
    <3> QED BY <3>1 DEF ToSet
  <2>2. CASE p = Above(n.foot, 2)
    BY <2>1, <2>2, UnderFacts
  <2>3. CASE \E h \in 0 .. 2 : p = Above(to, h)
    <3>1. \A j \in Int : p # Above(n.foot, j)
      BY <1>8, <2>3, BesideFacts
    <3> QED BY <2>1, <3>1, UnderFacts
  <2> QED BY <2>1, <2>2, <2>3
<1>12. a.kind \notin {"placeUp1", "digDropSelfPlaced"}
  BY <1>5
<1> QED BY <1>1, <1>4, <1>5, <1>10, <1>11, <1>12 DEF AllowedActions, Allowed, a, digs

(* On a floor and with room for its body, the bot stands.                  *)
LEMMA RoomIsStanding ==
  ASSUME NEW n, n.foot \in Positions, HasClearance(n, n.foot, BODY_CLEARANCE),
         IsWalkableSupport(n, Above(n.foot, -1))
  PROVE  StandsNow(n, n.foot)
<1>1. \A h \in 0 .. 1 : IsPassable(n, Above(n.foot, h))
  <2>1. \A h \in 0 .. 2 - 1 : IsPassable(n, Above(n.foot, h))
    BY ClearFacts DEF BODY_CLEARANCE
  <2> QED BY <2>1
<1> QED BY <1>1, CellFacts DEF StandsNow

(* A block placed under the bot that jumps, after what is over it was dug. *)
LEMMA PlaceIsAllowed ==
  ASSUME NEW n, n.foot \in Positions, NEW dir \in Dirs, NEW cost \in Int,
         NEW cells, cells = ClearancePositions(n.foot, JUMP_CLEARANCE + 1), CanClear(n, cells),
         HasClearance(n, n.foot, BODY_CLEARANCE), IsWalkableSupport(n, Above(n.foot, -1))
  PROVE  Action("placeUp1", Above(n.foot, 1), dir, ClearanceDigs(n, cells), cost)
           \in AllowedActions(n)
<1> DEFINE digs == ClearanceDigs(n, cells)
           to == Above(n.foot, 1)
           a == Action("placeUp1", to, dir, digs, cost)
<1>1. cells \in Seq(Positions) /\ ToSet(cells) = {Above(n.foot, h) : h \in 0 .. 3}
  <2>1. cells = ClearancePositions(n.foot, 4)
    BY DEF JUMP_CLEARANCE
  <2>2. /\ ClearancePositions(n.foot, 4) \in Seq(Positions)
        /\ ToSet(ClearancePositions(n.foot, 4)) = {Above(n.foot, h) : h \in 0 .. 4 - 1}
    BY ClearanceTypes
  <2> QED BY <2>1, <2>2
<1>2. digs \in Seq(Positions) /\ ToSet(digs) = {p \in ToSet(cells) : ~ IsPassable(n, p)}
  BY <1>1, DigsFacts
<1>3. \A p \in ToSet(digs) : CanDigBlock(n, p)
  BY DEF CanClear
<1> HIDE DEF digs
<1>4. to \in Positions /\ Near(n.foot, to)
  BY AboveFacts, NearAbove
<1>5. a \in Actions /\ a.kind = "placeUp1" /\ a.toFoot = to /\ a.digs = digs
  BY <1>2, <1>4, ActionFields DEF Kinds
<1> HIDE DEF a
<1>6. \A h \in {1, 2} : IsAirBlock(CellThen(n, a, Above(n.foot, h)))
  <2>1. ASSUME NEW h \in {1, 2} PROVE IsAirBlock(CellThen(n, a, Above(n.foot, h)))
    <3>1. Above(n.foot, h) # n.foot
      BY AboveFacts
    <3>2. Above(n.foot, h) \in ToSet(cells)
      BY <1>1
    <3>3. CASE IsPassable(n, Above(n.foot, h))
      BY <1>2, <1>5, <3>1, <3>3, CellFacts DEF CellThen
    <3>4. CASE ~ IsPassable(n, Above(n.foot, h))
      BY <1>2, <1>5, <3>1, <3>2, <3>4 DEF CellThen, IsAirBlock
    <3> QED BY <3>3, <3>4
  <2> QED BY <2>1
<1>7. /\ Above(to, -1) = n.foot /\ Above(to, 0) = Above(n.foot, 1)
      /\ Above(to, 1) = Above(n.foot, 2)
  BY AboveFacts
<1>8. IsSupportBlock(CellThen(n, a, n.foot))
  BY <1>5 DEF CellThen, IsSupportBlock, IsAirBlock, IsHazardBlock
<1>9. StandsThen(n, a, to)
  <2>1. \A h \in 0 .. 1 : h = 0 \/ h = 1
    OBVIOUS
  <2>2. IsAirBlock(CellThen(n, a, Above(to, 0))) /\ IsAirBlock(CellThen(n, a, Above(to, 1)))
    BY <1>6, <1>7
  <2>3. IsSupportBlock(CellThen(n, a, Above(to, -1)))
    BY <1>7, <1>8
  <2> HIDE DEF to
  <2> QED BY <2>1, <2>2, <2>3 DEF StandsThen
<1>10. n.foot \notin ToSet(a.digs)
  <2>1. IsPassable(n, n.foot)
    <3>1. IsPassable(n, Above(n.foot, 0))
      BY ClearFacts DEF BODY_CLEARANCE
    <3> QED BY <3>1, AboveFacts
  <2> QED BY <1>2, <1>5, <2>1
<1>11. ASSUME NEW p \in ToSet(a.digs) PROVE ~ IsUnder(p, n.foot)
  <2>1. PICK h \in 0 .. 3 : p = Above(n.foot, h)
    BY <1>1, <1>2, <1>5
  <2>2. h \in Int /\ h >= 0
    OBVIOUS
  <2> QED BY <2>1, <2>2, UnderFacts
<1>12. StandsNow(n, n.foot)
  BY RoomIsStanding
<1>13. a \in AllowedActions(n)
  BY <1>3, <1>4, <1>5, <1>9, <1>10, <1>11, <1>12 DEF AllowedActions, Allowed
<1> QED BY <1>13 DEF a, digs

(* The bot's own block dug under it.                                       *)
LEMMA DropIsAllowed ==
  ASSUME NEW n, n.foot \in Positions, NEW dir \in Dirs, NEW cost \in Int,
         NEW support, support = Above(n.foot, -1), CanDigBlock(n, support),
         IsSupportBlock(Block(support)),
         HasClearance(n, n.foot, BODY_CLEARANCE), IsWalkableSupport(n, Above(n.foot, -2))
  PROVE  Action("digDropSelfPlaced", support, dir, <<support>>, cost) \in AllowedActions(n)
<1> DEFINE a == Action("digDropSelfPlaced", support, dir, <<support>>, cost)
<1>1. support \in Positions /\ Near(n.foot, support)
  BY AboveFacts, NearAbove
<1>2. a \in Actions
  BY <1>1 DEF Actions, Action, Kinds
<1>3. a.kind = "digDropSelfPlaced" /\ a.toFoot = support /\ a.digs = <<support>>
  BY DEF Action
<1> HIDE DEF a
<1>4. ToSet(a.digs) = {support}
  BY <1>3 DEF ToSet
<1>5. /\ Above(support, -1) = Above(n.foot, -2) /\ Above(support, 0) = support
      /\ Above(support, 1) = n.foot /\ support # Above(n.foot, -2) /\ support # n.foot
  <2>1. n.foot = Above(n.foot, 0) /\ Above(support, 0) = support
    BY <1>1, AboveFacts
  <2>2. Above(support, -1) = Above(n.foot, -1 + -1) /\ Above(support, 1) = Above(n.foot, -1 + 1)
    BY AboveFacts
  <2>3. -1 + -1 = -2 /\ -1 + 1 = 0
    OBVIOUS
  <2>4. Above(n.foot, -1) # Above(n.foot, -2) /\ Above(n.foot, -1) # Above(n.foot, 0)
    BY AboveFacts
  <2> QED BY <2>1, <2>2, <2>3, <2>4
<1>6. IsPassable(n, n.foot)
  <2>1. IsPassable(n, Above(n.foot, 0))
    BY ClearFacts DEF BODY_CLEARANCE
  <2> QED BY <2>1, AboveFacts
<1>7. /\ CellThen(n, a, support) = "air" /\ CellThen(n, a, n.foot) = Cell(n, n.foot)
      /\ CellThen(n, a, Above(n.foot, -2)) = Cell(n, Above(n.foot, -2))
  BY <1>3, <1>4, <1>5 DEF CellThen
<1>8. StandsThen(n, a, support)
  <2>1. \A h \in 0 .. 1 : h = 0 \/ h = 1
    OBVIOUS
  <2>2. IsAirBlock(CellThen(n, a, Above(support, 0))) /\ IsAirBlock(CellThen(n, a, Above(support, 1)))
    BY <1>5, <1>6, <1>7, CellFacts DEF IsAirBlock
  <2>3. IsSupportBlock(CellThen(n, a, Above(support, -1)))
    BY <1>5, <1>7, CellFacts
  <2> QED BY <2>1, <2>2, <2>3 DEF StandsThen
<1>9. StandsNow(n, n.foot)
  <2>1. IsWalkableSupport(n, Above(n.foot, -1))
    BY DEF CanDigBlock, IsWalkableSupport
  <2> QED BY <2>1, RoomIsStanding
<1>10. a \in AllowedActions(n)
  BY <1>1, <1>2, <1>3, <1>4, <1>8, <1>9 DEF AllowedActions, Allowed
<1> QED BY <1>10 DEF a

-----------------------------------------------------------------------------
(* So every action the searches consider is allowed.                       *)
LEMMA WhenTypes ==
  ASSUME NEW S, NEW a, NEW condition \in BOOLEAN, condition => a \in S
  PROVE  When(condition, a) \in Seq(S)
BY DEF When

(* Costs are numbers.                                                      *)
LEMMA Turns ==
  ASSUME NEW n, NEW dir
  PROVE  Turn(n, dir) \in Int
BY DEF Turn, COST_TURN_PENALTY

(* So are those of the blocks that are changed.                            *)
LEMMA Changes ==
  ASSUME NEW digs \in Seq(Positions)
  PROVE  Change(digs) \in Int /\ Len(digs) \in Int
BY DEF Change, COST_TERRAIN_CHANGE_BASE, COST_TERRAIN_CHANGE_PER_BLOCK

(* The column a body needs to stand or to jump.                            *)
LEMMA ColumnFacts ==
  ASSUME NEW p \in Positions, NEW height \in {BODY_CLEARANCE, JUMP_CLEARANCE}
  PROVE  /\ ClearancePositions(p, height) \in Seq(Positions)
         /\ \A h \in 0 .. 1 : Above(p, h) \in ToSet(ClearancePositions(p, height))
         /\ ToSet(ClearancePositions(p, height)) \subseteq {Above(p, h) : h \in 0 .. 2}
<1>1. height \in {2, 3} /\ height \in Nat
  BY DEF BODY_CLEARANCE, JUMP_CLEARANCE
<1>2. /\ ClearancePositions(p, height) \in Seq(Positions)
      /\ ToSet(ClearancePositions(p, height)) = {Above(p, h) : h \in 0 .. height - 1}
  BY <1>1, ClearanceTypes
<1>3. \A h \in 0 .. 1 : h \in 0 .. height - 1
  BY <1>1
<1>4. \A h \in 0 .. height - 1 : h \in 0 .. 2
  BY <1>1
<1> QED BY <1>2, <1>3, <1>4

(* The ceiling over the bot and the column of the cell beside.             *)
LEMMA CellsFacts ==
  ASSUME NEW p \in Positions, NEW c \in Positions
  PROVE  /\ <<c>> \o ClearancePositions(p, JUMP_CLEARANCE) \in Seq(Positions)
         /\ \A h \in 0 .. 1 :
              Above(p, h) \in ToSet(<<c>> \o ClearancePositions(p, JUMP_CLEARANCE))
         /\ ToSet(<<c>> \o ClearancePositions(p, JUMP_CLEARANCE))
              \subseteq {Above(p, h) : h \in 0 .. 2} \cup {c}
<1>1. /\ ClearancePositions(p, JUMP_CLEARANCE) \in Seq(Positions)
      /\ \A h \in 0 .. 1 : Above(p, h) \in ToSet(ClearancePositions(p, JUMP_CLEARANCE))
      /\ ToSet(ClearancePositions(p, JUMP_CLEARANCE)) \subseteq {Above(p, h) : h \in 0 .. 2}
  BY ColumnFacts
<1>2. PICK s \in Seq(Positions) : s = <<c>> /\ Len(s) = 1 /\ s[1] = c
  <2>1. <<c>> \in Seq(Positions) /\ Len(<<c>>) = 1 /\ <<c>>[1] = c
    OBVIOUS
  <2> QED BY <2>1
<1>3. ToSet(<<c>> \o ClearancePositions(p, JUMP_CLEARANCE))
        = {c} \cup ToSet(ClearancePositions(p, JUMP_CLEARANCE))
  <2>1. ToSet(s) = {c}
    BY <1>2 DEF ToSet
  <2>2. ToSet(s \o ClearancePositions(p, JUMP_CLEARANCE))
          = ToSet(s) \cup ToSet(ClearancePositions(p, JUMP_CLEARANCE))
    BY <1>1, JoinedElements
  <2> QED BY <1>2, <2>1, <2>2
<1>4. <<c>> \o ClearancePositions(p, JUMP_CLEARANCE) \in Seq(Positions)
  BY <1>1, <1>2
<1> QED BY <1>1, <1>3, <1>4

(* The cells beside a node.                                                *)
LEMMA SideFacts ==
  ASSUME NEW n, n.foot \in Positions, NEW dir \in Dirs
  PROVE  /\ Beside(n.foot, DIR_VEC[dir]) \in Positions
         /\ Above(Beside(n.foot, DIR_VEC[dir]), 0) = Beside(n.foot, DIR_VEC[dir])
         /\ \A k \in -1 .. 1 : Above(Beside(n.foot, DIR_VEC[dir]), k) \in Positions
         /\ Above(n.foot, 2) \in Positions
<1>1. Beside(n.foot, DIR_VEC[dir]) \in Positions
  BY BesideFacts
<1>2. \A k \in -1 .. 1 : k \in Int
  OBVIOUS
<1>3. \A k \in Int : Above(Beside(n.foot, DIR_VEC[dir]), k) \in Positions
  BY <1>1, AboveFacts
<1>4. Above(Beside(n.foot, DIR_VEC[dir]), 0) = Beside(n.foot, DIR_VEC[dir])
  BY <1>1, AboveFacts
<1>5. Above(n.foot, 2) \in Positions
  BY AboveFacts
<1> QED BY <1>1, <1>2, <1>3, <1>4, <1>5

(* Successors that dig and place nothing.                                  *)
LEMMA NaturalSuccessors ==
  ASSUME NEW n, n.foot \in Positions, NEW dir \in Dirs, NEW k \in -1 .. 1,
         NEW to, to = Above(Beside(n.foot, DIR_VEC[dir]), k), NEW phase
  PROVE  /\ Walk(n, to, dir) \in Seq(AllowedActions(n))
         /\ Drop1(n, to, dir, phase) \in Seq(AllowedActions(n))
         /\ JumpUp(n, to, dir) \in Seq(AllowedActions(n))
         /\ \A kind \in {"walk", "drop1", "jumpUp"} :
              MineNatural(n, kind, to, dir) \in Seq(AllowedActions(n))
<1>1. BODY_CLEARANCE = 2 /\ JUMP_CLEARANCE = 3
  BY DEF BODY_CLEARANCE, JUMP_CLEARANCE
<1> DEFINE Can(height) == IsWalkableSupport(n, Above(to, -1)) /\ HasClearance(n, to, height)
<1>2. ASSUME NEW kind \in {"walk", "drop1", "jumpUp"}, NEW cost \in Int,
             NEW height \in {2, 3}, Can(height)
      PROVE  Action(kind, to, dir, << >>, cost) \in AllowedActions(n)
  BY <1>2, NaturalIsAllowed
<1> HIDE DEF Can
<1>3. Walk(n, to, dir) \in Seq(AllowedActions(n))
  <2>1. COST_WALK + Turn(n, dir) \in Int
    BY Turns DEF COST_WALK
  <2>2. Can(2) => Action("walk", to, dir, << >>, COST_WALK + Turn(n, dir)) \in AllowedActions(n)
    BY <1>2, <2>1
  <2> QED BY <1>1, <2>2 DEF Walk, When, Can
<1>4. Drop1(n, to, dir, phase) \in Seq(AllowedActions(n))
  <2>1. COST_DROP1 + Turn(n, dir) \in Int
    BY Turns DEF COST_DROP1
  <2>2. Can(3) => Action("drop1", to, dir, << >>, COST_DROP1 + Turn(n, dir)) \in AllowedActions(n)
    BY <1>2, <2>1
  <2> QED BY <1>1, <2>2 DEF Drop1, When, Can
<1>5. JumpUp(n, to, dir) \in Seq(AllowedActions(n))
  <2>1. COST_JUMP_UP + Turn(n, dir) \in Int
    BY Turns DEF COST_JUMP_UP
  <2>2. Can(3) => Action("jumpUp", to, dir, << >>, COST_JUMP_UP + Turn(n, dir)) \in AllowedActions(n)
    BY <1>2, <2>1
  <2> QED BY <1>1, <2>2 DEF JumpUp, When, Can
<1>6. ASSUME NEW kind \in {"walk", "drop1", "jumpUp"}
      PROVE  MineNatural(n, kind, to, dir) \in Seq(AllowedActions(n))
  <2> DEFINE cost == MINE_COST[kind] + MINE_DIG_PER_BLOCK * Len(<< >>)
                       + (IF LastDir(n) \in {"none", dir} THEN 0 ELSE MINE_TURN)
  <2>1. cost \in Int
    BY DEF MINE_COST, MINE_DIG_PER_BLOCK, MINE_TURN
  <2>2. MineMove(n, kind, to, dir, << >>) = Action(kind, to, dir, << >>, cost)
    BY DEF MineMove
  <2> HIDE DEF cost
  <2>3. Can(2) \/ Can(3) => MineMove(n, kind, to, dir, << >>) \in AllowedActions(n)
    BY <1>2, <2>1, <2>2
  <2> QED BY <1>1, <2>3 DEF MineNatural, When, Can
<1> QED BY <1>3, <1>4, <1>5, <1>6

(* A sequence of one element or of none.                                   *)
LEMMA OneOrNone ==
  ASSUME NEW S, NEW a, NEW s, s = <<a>> \/ s = << >>, s = <<a>> => a \in S
  PROVE  s \in Seq(S)
<1>1. CASE s = <<a>>
  <2>1. a \in S
    BY <1>1
  <2>2. <<a>> \in Seq(S)
    BY <2>1
  <2> QED BY <1>1, <2>2
<1>2. CASE s = << >>
  <2>1. << >> \in Seq(S)
    OBVIOUS
  <2> QED BY <1>2, <2>1
<1> QED BY <1>1, <1>2

(* Digging the cells of a column to step into it is allowed.               *)
LEMMA ColumnDigs ==
  ASSUME NEW n, n.foot \in Positions, NEW dir \in Dirs, NEW k \in -1 .. 1,
         NEW to, to = Above(Beside(n.foot, DIR_VEC[dir]), k), NEW cost \in Int,
         NEW kind \in {"digWalk", "digStepDown", "digStepUp"},
         NEW cells, IF kind = "digWalk" THEN cells = ClearancePositions(to, BODY_CLEARANCE)
                    ELSE cells = <<Above(n.foot, 2)>> \o ClearancePositions(to, JUMP_CLEARANCE),
         CanClear(n, cells), IsWalkableSupport(n, Above(to, -1))
  PROVE  /\ Action(kind, to, dir, ClearanceDigs(n, cells), cost) \in AllowedActions(n)
<1>1. to \in Positions /\ Above(n.foot, 2) \in Positions
  BY SideFacts
<1>2. /\ cells \in Seq(Positions)
      /\ \A h \in 0 .. 1 : Above(to, h) \in ToSet(cells)
      /\ ToSet(cells) \subseteq {Above(to, h) : h \in 0 .. 2} \cup {Above(n.foot, 2)}
  <2>1. CASE kind = "digWalk"
    BY <1>1, <2>1, ColumnFacts
  <2>2. CASE kind # "digWalk"
    <3> DEFINE both == <<Above(n.foot, 2)>> \o ClearancePositions(to, JUMP_CLEARANCE)
    <3>1. cells = both
      BY <2>2
    <3>2. /\ both \in Seq(Positions) /\ \A h \in 0 .. 1 : Above(to, h) \in ToSet(both)
          /\ ToSet(both) \subseteq {Above(to, h) : h \in 0 .. 2} \cup {Above(n.foot, 2)}
      BY <1>1, CellsFacts
    <3> HIDE DEF both
    <3> QED BY <3>1, <3>2
  <2> QED BY <2>1, <2>2
<1> QED BY <1>2, DigIsAllowed

(* The costs are numbers, whatever is dug.                                 *)
LEMMA DigCosts ==
  ASSUME NEW n, n.foot \in Positions, NEW dir \in Dirs, NEW k \in -1 .. 1,
         NEW to, to = Above(Beside(n.foot, DIR_VEC[dir]), k), NEW price \in Int,
         NEW kind \in {"digWalk", "digStepDown", "digStepUp"},
         NEW cells, IF kind = "digWalk" THEN cells = ClearancePositions(to, BODY_CLEARANCE)
                    ELSE cells = <<Above(n.foot, 2)>> \o ClearancePositions(to, JUMP_CLEARANCE)
  PROVE  /\ Change(ClearanceDigs(n, cells)) + price + Turn(n, dir) \in Int
         /\ Change(ClearanceDigs(n, cells)) + Turn(n, dir) \in Int
         /\ MINE_COST[kind] + MINE_DIG_PER_BLOCK * Len(ClearanceDigs(n, cells))
              + (IF LastDir(n) \in {"none", dir} THEN 0 ELSE MINE_TURN) \in Int
<1>1. to \in Positions /\ Above(n.foot, 2) \in Positions
  BY SideFacts
<1>2. cells \in Seq(Positions)
  <2>1. CASE kind = "digWalk"
    BY <1>1, <2>1, ColumnFacts
  <2>2. CASE kind # "digWalk"
    <3> DEFINE both == <<Above(n.foot, 2)>> \o ClearancePositions(to, JUMP_CLEARANCE)
    <3>1. cells = both
      BY <2>2
    <3>2. both \in Seq(Positions)
      BY <1>1, CellsFacts
    <3> QED BY <3>1, <3>2
  <2> QED BY <2>1, <2>2
<1>3. ClearanceDigs(n, cells) \in Seq(Positions)
  BY <1>2, DigsFacts
<1>4. Change(ClearanceDigs(n, cells)) \in Int /\ Len(ClearanceDigs(n, cells)) \in Int
  BY <1>3, Changes
<1>5. Turn(n, dir) \in Int
  BY Turns
<1>6. MINE_COST[kind] \in Int /\ MINE_DIG_PER_BLOCK \in Int
  BY DEF MINE_COST, MINE_DIG_PER_BLOCK
<1>7. (IF LastDir(n) \in {"none", dir} THEN 0 ELSE MINE_TURN) \in Int
  BY DEF MINE_TURN
<1> QED BY <1>4, <1>5, <1>6, <1>7

(* Successors of goTo that dig.                                            *)
LEMMA DigSuccessors ==
  ASSUME NEW n, n.foot \in Positions, NEW dir \in Dirs, NEW phase
  PROVE  LET level == Beside(n.foot, DIR_VEC[dir])
         IN  /\ DigWalk(n, level, dir, phase) \in Seq(AllowedActions(n))
             /\ DigStep(n, "digStepDown", Above(level, -1), dir, phase, COST_DROP1)
                  \in Seq(AllowedActions(n))
             /\ DigStep(n, "digStepUp", Above(level, 1), dir, phase, COST_JUMP_UP)
                  \in Seq(AllowedActions(n))
<1> DEFINE level == Beside(n.foot, DIR_VEC[dir])
<1>1. level = Above(level, 0) /\ 0 \in -1 .. 1 /\ -1 \in -1 .. 1 /\ 1 \in -1 .. 1
  BY SideFacts
<1>2. DigWalk(n, level, dir, phase) \in Seq(AllowedActions(n))
  <2> DEFINE cells == ClearancePositions(level, BODY_CLEARANCE)
             cost == Change(ClearanceDigs(n, cells)) + Turn(n, dir)
             a == Action("digWalk", level, dir, ClearanceDigs(n, cells), cost)
  <2>1. PICK k \in -1 .. 1 : level = Above(level, k)
    BY <1>1
  <2>2. cost \in Int
    <3>1. COST_DROP1 \in Int
      BY DEF COST_DROP1
    <3> HIDE DEF level
    <3> QED BY <2>1, <3>1, DigCosts DEF level
  <2>3. CanClear(n, cells) /\ IsWalkableSupport(n, Above(level, -1)) => a \in AllowedActions(n)
    <3> HIDE DEF cost
    <3> QED BY <2>1, <2>2, ColumnDigs
  <2> QED BY <2>3 DEF DigWalk, When
<1>3. ASSUME NEW kind \in {"digStepDown", "digStepUp"}, NEW k \in -1 .. 1, NEW price \in Int
      PROVE  DigStep(n, kind, Above(level, k), dir, phase, price) \in Seq(AllowedActions(n))
  <2> DEFINE to == Above(level, k)
             cells == <<Above(n.foot, 2)>> \o ClearancePositions(to, JUMP_CLEARANCE)
             cost == Change(ClearanceDigs(n, cells)) + price + Turn(n, dir)
             a == Action(kind, to, dir, ClearanceDigs(n, cells), cost)
  <2>1. kind # "digWalk" /\ kind \in {"digWalk", "digStepDown", "digStepUp"}
    OBVIOUS
  <2>2. cost \in Int
    BY <2>1, DigCosts
  <2>3. CanClear(n, cells) /\ IsWalkableSupport(n, Above(to, -1)) => a \in AllowedActions(n)
    <3> HIDE DEF cost
    <3> QED BY <2>1, <2>2, ColumnDigs
  <2> HIDE DEF cost
  <2>4. \/ /\ DigStep(n, kind, to, dir, phase, price) = <<a>>
           /\ CanClear(n, cells) /\ IsWalkableSupport(n, Above(to, -1))
        \/ DigStep(n, kind, to, dir, phase, price) = << >>
    BY DEF DigStep, When, cost
  <2> HIDE DEF a, cells
  <2>5. << >> # <<a>>
    OBVIOUS
  <2> QED BY <2>3, <2>4, <2>5, OneOrNone
<1>4. COST_DROP1 \in Int /\ COST_JUMP_UP \in Int
  BY DEF COST_DROP1, COST_JUMP_UP
<1>5. DigStep(n, "digStepDown", Above(level, -1), dir, phase, COST_DROP1) \in Seq(AllowedActions(n))
  BY <1>1, <1>3, <1>4
<1>6. DigStep(n, "digStepUp", Above(level, 1), dir, phase, COST_JUMP_UP) \in Seq(AllowedActions(n))
  BY <1>1, <1>3, <1>4
<1> QED BY <1>2, <1>5, <1>6

(* Those of a miner.                                                       *)
LEMMA MineDigSuccessors ==
  ASSUME NEW n, n.foot \in Positions, NEW dir \in Dirs, NEW k \in -1 .. 1,
         NEW to, to = Above(Beside(n.foot, DIR_VEC[dir]), k),
         NEW kind \in {"digWalk", "digStepDown", "digStepUp"}
  PROVE  MineDig(n, kind, to, dir) \in Seq(AllowedActions(n))
<1> DEFINE cells == IF kind = "digWalk" THEN ClearancePositions(to, BODY_CLEARANCE)
                    ELSE <<Above(n.foot, 2)>> \o ClearancePositions(to, JUMP_CLEARANCE)
           digs == ClearanceDigs(n, cells)
           cost == MINE_COST[kind] + MINE_DIG_PER_BLOCK * Len(digs)
                     + (IF LastDir(n) \in {"none", dir} THEN 0 ELSE MINE_TURN)
<1>1. IF kind = "digWalk" THEN cells = ClearancePositions(to, BODY_CLEARANCE)
      ELSE cells = <<Above(n.foot, 2)>> \o ClearancePositions(to, JUMP_CLEARANCE)
  OBVIOUS
<1>2. PICK price \in Int : TRUE
  OBVIOUS
<1>3. MineDig(n, kind, to, dir) =
        When(/\ IsWalkableSupport(n, Above(to, -1)) /\ CanClear(n, cells) /\ digs # << >>
             /\ kind = "digWalk" \/ (HasClearance(n, n.foot, BODY_CLEARANCE)
                                     /\ ~ IsImmediateReverse(n, dir)),
             Action(kind, to, dir, digs, cost))
  BY DEF MineDig, MineMove
<1> HIDE DEF cells
<1>4. cost \in Int
  BY <1>1, <1>2, DigCosts
<1> HIDE DEF cost
<1>5. CanClear(n, cells) /\ IsWalkableSupport(n, Above(to, -1))
        => Action(kind, to, dir, digs, cost) \in AllowedActions(n)
  BY <1>1, <1>4, ColumnDigs
<1> QED BY <1>3, <1>5 DEF When

(* The one that places a block under the bot.                              *)
LEMMA PlaceSuccessors ==
  ASSUME NEW n, n.foot \in Positions, NEW dir \in Dirs, NEW phase
  PROVE  PlaceUp1(n, dir, phase) \in Seq(AllowedActions(n))
<1> DEFINE cells == ClearancePositions(n.foot, JUMP_CLEARANCE + 1)
           cost == Change(ClearanceDigs(n, cells)) + COST_PLACE_UP_ITEM_PENALTY + Turn(n, dir)
           a == Action("placeUp1", Above(n.foot, 1), dir, ClearanceDigs(n, cells), cost)
<1>1. cost \in Int
  <2>1. JUMP_CLEARANCE + 1 \in Nat
    BY DEF JUMP_CLEARANCE
  <2>2. cells \in Seq(Positions)
    BY <2>1, ClearanceTypes
  <2>3. ClearanceDigs(n, cells) \in Seq(Positions)
    BY <2>2, DigsFacts
  <2>4. Change(ClearanceDigs(n, cells)) \in Int
    BY <2>3, Changes
  <2>5. Turn(n, dir) \in Int /\ COST_PLACE_UP_ITEM_PENALTY \in Int
    BY Turns DEF COST_PLACE_UP_ITEM_PENALTY
  <2> QED BY <2>4, <2>5
<1>2. \/ /\ PlaceUp1(n, dir, phase) = <<a>>
         /\ CanClear(n, cells) /\ HasClearance(n, n.foot, BODY_CLEARANCE)
         /\ IsWalkableSupport(n, Above(n.foot, -1))
      \/ PlaceUp1(n, dir, phase) = << >>
  BY DEF PlaceUp1, When
<1> HIDE DEF cost
<1>3. /\ CanClear(n, cells) /\ HasClearance(n, n.foot, BODY_CLEARANCE)
      /\ IsWalkableSupport(n, Above(n.foot, -1))
      => a \in AllowedActions(n)
  BY <1>1, PlaceIsAllowed
<1> HIDE DEF a, cells
<1>4. << >> # <<a>>
  OBVIOUS
<1> QED BY <1>2, <1>3, <1>4, OneOrNone

(* The direction a node was reached in.                                    *)
LEMMA LastDirs ==
  ASSUME NEW n, n.actions \in Seq(Actions), n.actions # << >>
  PROVE  LastDir(n) \in Dirs /\ LastAction(n) \in Actions
<1>1. Len(n.actions) \in DOMAIN n.actions
  OBVIOUS
<1>2. n.actions[Len(n.actions)] \in Actions
  BY <1>1
<1> QED BY <1>2 DEF LastDir, LastAction, Last, Actions

(* The one that digs a block of its own from under the bot.                *)
LEMMA DropSuccessors ==
  ASSUME NEW n, n.foot \in Positions, n.actions \in Seq(Actions), NEW phase
  PROVE  DigDropSelfPlaced(n, phase) \in Seq(AllowedActions(n))
<1> DEFINE support == Above(n.foot, -1)
           dir == IF n.actions = << >> THEN "north" ELSE LastDir(n)
           cost == COST_DROP1 + COST_TERRAIN_CHANGE_PER_BLOCK
           a == Action("digDropSelfPlaced", support, dir, <<support>>, cost)
<1>1. dir \in Dirs
  BY LastDirs DEF Dirs
<1>2. cost \in Int
  BY DEF COST_DROP1, COST_TERRAIN_CHANGE_PER_BLOCK
<1>3. \/ /\ DigDropSelfPlaced(n, phase) = <<a>>
         /\ CanDigBlock(n, support) /\ HasClearance(n, n.foot, BODY_CLEARANCE)
         /\ IsWalkableSupport(n, Above(n.foot, -2)) /\ IsSupportBlock(Block(support))
      \/ DigDropSelfPlaced(n, phase) = << >>
  BY DEF DigDropSelfPlaced, When, CanDigSelfPlacedSupport
<1> HIDE DEF cost, dir
<1>4. /\ CanDigBlock(n, support) /\ HasClearance(n, n.foot, BODY_CLEARANCE)
      /\ IsWalkableSupport(n, Above(n.foot, -2)) /\ IsSupportBlock(Block(support))
      => a \in AllowedActions(n)
  BY <1>1, <1>2, DropIsAllowed
<1> HIDE DEF a, support
<1>5. << >> # <<a>>
  OBVIOUS
<1> QED BY <1>3, <1>4, <1>5, OneOrNone

-----------------------------------------------------------------------------
(* The four directions.                                                    *)
LEMMA Directions ==
  /\ DIRECTIONS \in Seq(Dirs) /\ Len(DIRECTIONS) = 4
  /\ \A i \in 1 .. Len(DIRECTIONS) : DIRECTIONS[i] \in Dirs
<1>1. DIRECTIONS \in Seq(Dirs) /\ Len(DIRECTIONS) = 4
  BY DEF DIRECTIONS, Dirs
<1>2. \A s \in Seq(Dirs) : \A i \in 1 .. Len(s) : s[i] \in Dirs
  OBVIOUS
<1> QED BY <1>1, <1>2

(* All successors of a node of goTo.                                       *)
LEMMA SuccessorsAreAllowed ==
  ASSUME NEW n, n.foot \in Positions, n.actions \in Seq(Actions), NEW phase
  PROVE  ExpandSuccessors(n, phase) \in Seq(AllowedActions(n))
<1> DEFINE next == [i \in 1 .. Len(DIRECTIONS) |-> SuccessorsTowards(n, DIRECTIONS[i], phase)]
<1>1. ASSUME NEW dir \in Dirs
      PROVE  SuccessorsTowards(n, dir, phase) \in Seq(AllowedActions(n))
  <2> DEFINE level == Beside(n.foot, DIR_VEC[dir])
  <2>1. level = Above(level, 0) /\ 0 \in -1 .. 1 /\ -1 \in -1 .. 1 /\ 1 \in -1 .. 1
    BY SideFacts
  <2>2. ASSUME NEW k \in -1 .. 1, NEW to, to = Above(level, k)
        PROVE  /\ Walk(n, to, dir) \in Seq(AllowedActions(n))
               /\ Drop1(n, to, dir, phase) \in Seq(AllowedActions(n))
               /\ JumpUp(n, to, dir) \in Seq(AllowedActions(n))
    BY <2>2, NaturalSuccessors
  <2>3. Walk(n, level, dir) \in Seq(AllowedActions(n))
    BY <2>1, <2>2
  <2>4. Drop1(n, Above(level, -1), dir, phase) \in Seq(AllowedActions(n))
    BY <2>1, <2>2
  <2>5. JumpUp(n, Above(level, 1), dir) \in Seq(AllowedActions(n))
    BY <2>1, <2>2
  <2>6. PlaceUp1(n, dir, phase) \in Seq(AllowedActions(n))
    BY PlaceSuccessors
  <2>7. /\ DigWalk(n, level, dir, phase) \in Seq(AllowedActions(n))
        /\ DigStep(n, "digStepDown", Above(level, -1), dir, phase, COST_DROP1)
                  \in Seq(AllowedActions(n))
        /\ DigStep(n, "digStepUp", Above(level, 1), dir, phase, COST_JUMP_UP)
                  \in Seq(AllowedActions(n))
    BY DigSuccessors
  <2> QED BY <2>3, <2>4, <2>5, <2>6, <2>7 DEF SuccessorsTowards
<1>2. ASSUME NEW i \in 1 .. Len(DIRECTIONS)
      PROVE  SuccessorsTowards(n, DIRECTIONS[i], phase) \in Seq(AllowedActions(n))
  <2>1. DIRECTIONS[i] \in Dirs
    BY Directions
  <2> QED BY <1>1, <2>1
<1>3. next \in Seq(Seq(AllowedActions(n)))
  BY <1>2, Directions
<1>4. FlattenSeq(next) \in Seq(AllowedActions(n))
  <2> HIDE DEF next
  <2> QED BY <1>3, FlattenTypes
<1>5. DigDropSelfPlaced(n, phase) \in Seq(AllowedActions(n))
  BY DropSuccessors
<1> QED BY <1>4, <1>5 DEF ExpandSuccessors

(* A miner's moves are among them, and it fills no cell.                   *)
MineKinds == {"walk", "drop1", "jumpUp", "digWalk", "digStepDown", "digStepUp"}
MinesActions(n) == {a \in AllowedActions(n) : a.kind \in MineKinds}

(* The kinds of the actions of a miner.                                    *)
LEMMA MineKindsOf ==
  ASSUME NEW n, NEW S, NEW T, T = {a \in S : a.kind \in MineKinds},
         NEW kind \in MineKinds, NEW to, NEW dir, NEW s \in Seq(S),
         \/ kind \in {"walk", "drop1", "jumpUp"} /\ s = MineNatural(n, kind, to, dir)
         \/ kind \in {"digWalk", "digStepDown", "digStepUp"} /\ s = MineDig(n, kind, to, dir)
  PROVE  s \in Seq(T)
<1>1. \A i \in DOMAIN s : s[i].kind = kind
  <2>1. CASE s = MineNatural(n, kind, to, dir)
    BY <2>1 DEF MineNatural, MineMove, Action, When
  <2>2. CASE s = MineDig(n, kind, to, dir)
    BY <2>2 DEF MineDig, MineMove, Action, When
  <2> QED BY <2>1, <2>2
<1> QED BY <1>1

(* All successors of a node of a miner.                                    *)
LEMMA MineSuccessorsAreAllowed ==
  ASSUME NEW n, n.foot \in Positions
  PROVE  MineSuccessors(n) \in Seq(MinesActions(n))
<1> DEFINE towards(dir) ==
             LET level == Beside(n.foot, DIR_VEC[dir])
             IN  MineNatural(n, "walk", level, dir)
                   \o MineNatural(n, "drop1", Above(level, -1), dir)
                   \o MineNatural(n, "jumpUp", Above(level, 1), dir)
                   \o MineDig(n, "digWalk", level, dir)
                   \o MineDig(n, "digStepDown", Above(level, -1), dir)
                   \o MineDig(n, "digStepUp", Above(level, 1), dir)
           next == [i \in 1 .. Len(DIRECTIONS) |-> towards(DIRECTIONS[i])]
<1>1. ASSUME NEW dir \in Dirs PROVE towards(dir) \in Seq(MinesActions(n))
  <2> DEFINE level == Beside(n.foot, DIR_VEC[dir])
  <2>1. level = Above(level, 0) /\ 0 \in -1 .. 1 /\ -1 \in -1 .. 1 /\ 1 \in -1 .. 1
    BY SideFacts
  <2>2. ASSUME NEW k \in -1 .. 1, NEW to, to = Above(level, k), NEW kind \in {"walk", "drop1", "jumpUp"}
        PROVE  MineNatural(n, kind, to, dir) \in Seq(MinesActions(n))
    <3>1. MineNatural(n, kind, to, dir) \in Seq(AllowedActions(n))
      BY <2>2, NaturalSuccessors
    <3> QED BY <3>1, MineKindsOf DEF MinesActions, MineKinds
  <2>3. ASSUME NEW k \in -1 .. 1, NEW to, to = Above(level, k), NEW kind \in {"digWalk", "digStepDown", "digStepUp"}
        PROVE  MineDig(n, kind, to, dir) \in Seq(MinesActions(n))
    <3>1. MineDig(n, kind, to, dir) \in Seq(AllowedActions(n))
      BY <2>3, MineDigSuccessors
    <3> QED BY <3>1, MineKindsOf DEF MinesActions, MineKinds
  <2>4. MineNatural(n, "walk", level, dir) \in Seq(MinesActions(n))
    BY <2>1, <2>2
  <2>5. MineNatural(n, "drop1", Above(level, -1), dir) \in Seq(MinesActions(n))
    BY <2>1, <2>2
  <2>6. MineNatural(n, "jumpUp", Above(level, 1), dir) \in Seq(MinesActions(n))
    BY <2>1, <2>2
  <2>7. MineDig(n, "digWalk", level, dir) \in Seq(MinesActions(n))
    BY <2>1, <2>3
  <2>8. MineDig(n, "digStepDown", Above(level, -1), dir) \in Seq(MinesActions(n))
    BY <2>1, <2>3
  <2>9. MineDig(n, "digStepUp", Above(level, 1), dir) \in Seq(MinesActions(n))
    BY <2>1, <2>3
  <2> QED BY <2>4, <2>5, <2>6, <2>7, <2>8, <2>9
<1>2. MineSuccessors(n) = FlattenSeq(next)
  BY DEF MineSuccessors
<1>3. ASSUME NEW i \in 1 .. Len(DIRECTIONS)
      PROVE  towards(DIRECTIONS[i]) \in Seq(MinesActions(n))
  <2>1. DIRECTIONS[i] \in Dirs
    BY Directions
  <2> HIDE DEF towards
  <2> QED BY <1>1, <2>1
<1>4. next \in Seq(Seq(MinesActions(n)))
  <2> HIDE DEF towards
  <2> QED BY <1>3, Directions
<1> HIDE DEF next
<1> QED BY <1>2, <1>4, FlattenTypes

-----------------------------------------------------------------------------
(***************************************************************************)
(* Actions replayed.  A node stands for the world its actions would leave. *)
(***************************************************************************)

NodeOK(n) ==
  /\ n.actions \in Seq(Actions) /\ n.foot \in Positions
  /\ n.foot = FootAfter(n.actions, Len(n.actions))
  /\ \A p : CellAfter(n.actions, Len(n.actions), p) = Cell(n, p)
  /\ StepsAreExecutable(n.actions)

IsExtended(more, steps, a) ==
  /\ Len(more) = Len(steps) + 1 /\ more[Len(steps) + 1] = a
  /\ \A j \in 1 .. Len(steps) : more[j] = steps[j]

(* One action more changes nothing of what the ones before it do.          *)
LEMMA ReplayedBefore ==
  ASSUME NEW steps \in Seq(Actions), NEW a \in Actions, NEW more, IsExtended(more, steps, a),
         NEW i \in 0 .. Len(steps)
  PROVE  /\ FootAfter(more, i) = FootAfter(steps, i)
         /\ \A p : CellAfter(more, i, p) = CellAfter(steps, i, p)
         /\ \A p : StandsAfter(more, i, p) = StandsAfter(steps, i, p)
<1>1. \A j \in 1 .. Len(steps) : more[j] = steps[j]
  BY DEF IsExtended
<1>2. ASSUME NEW j \in 0 .. Len(steps) PROVE FootAfter(more, j) = FootAfter(steps, j)
  <2>1. j = 0 \/ j \in 1 .. Len(steps)
    OBVIOUS
  <2> QED BY <1>1, <2>1 DEF FootAfter
<1>3. ASSUME NEW j \in 1 .. Len(steps), NEW p PROVE Fills(more, j, p) <=> Fills(steps, j, p)
  <2>1. j - 1 \in 0 .. Len(steps)
    OBVIOUS
  <2> QED BY <1>1, <1>2, <2>1 DEF Fills
<1>4. ASSUME NEW p PROVE Touching(more, i, p) = Touching(steps, i, p)
  <2>1. \A j \in 1 .. i : j \in 1 .. Len(steps)
    OBVIOUS
  <2> QED BY <1>1, <1>3, <2>1 DEF Touching
<1>5. ASSUME NEW p PROVE CellAfter(more, i, p) = CellAfter(steps, i, p)
  <2>1. \A j \in Touching(steps, i, p) : j \in 1 .. Len(steps)
    BY DEF Touching
  <2>2. \A j \in Touching(steps, i, p) : Fills(more, j, p) <=> Fills(steps, j, p)
    BY <1>3, <2>1
  <2> QED BY <1>4, <2>2 DEF CellAfter
<1>6. ASSUME NEW p PROVE StandsAfter(more, i, p) = StandsAfter(steps, i, p)
  BY <1>5 DEF StandsAfter
<1> QED BY <1>2, <1>5, <1>6

(* Where the bot is and what a cell holds after one more action.           *)
LEMMA ReplayedLast ==
  ASSUME NEW steps \in Seq(Actions), NEW a \in Actions, NEW more, IsExtended(more, steps, a)
  PROVE  /\ FootAfter(more, Len(steps) + 1) = a.toFoot
         /\ \A p : CellAfter(more, Len(steps) + 1, p) =
                     IF a.kind = "placeUp1" /\ FootAfter(steps, Len(steps)) = p THEN "rock"
                     ELSE IF p \in ToSet(a.digs) THEN "air"
                     ELSE CellAfter(steps, Len(steps), p)
<1> DEFINE L == Len(steps) + 1
<1>1. /\ more[L] = a /\ L \in Nat \ {0} /\ L - 1 = Len(steps) /\ Len(steps) \in 0 .. Len(steps)
      /\ 1 .. L = (1 .. Len(steps)) \cup {L}
  BY DEF IsExtended
<1>2. FootAfter(more, L) = a.toFoot
  BY <1>1 DEF FootAfter
<1>3. FootAfter(more, L - 1) = FootAfter(steps, Len(steps))
  BY <1>1, ReplayedBefore
<1>4. ASSUME NEW p
      PROVE  CellAfter(more, L, p) =
               IF a.kind = "placeUp1" /\ FootAfter(steps, Len(steps)) = p THEN "rock"
               ELSE IF p \in ToSet(a.digs) THEN "air"
               ELSE CellAfter(steps, Len(steps), p)
  <2>1. Fills(more, L, p) <=> a.kind = "placeUp1" /\ FootAfter(steps, Len(steps)) = p
    BY <1>1, <1>3 DEF Fills
  <2>2. L \in Touching(more, L, p) <=> Fills(more, L, p) \/ p \in ToSet(a.digs)
    BY <1>1 DEF Touching
  <2>3. \A j \in Touching(more, L, p) : j \in Nat /\ j <= L
    BY DEF Touching
  <2>4. Touching(more, L, p) \ {L} = Touching(more, Len(steps), p)
    <3>1. ASSUME NEW j
          PROVE  j \in Touching(more, L, p) \ {L} <=> j \in Touching(more, Len(steps), p)
      <4>1. j \in 1 .. L /\ j # L <=> j \in 1 .. Len(steps)
        BY <1>1
      <4> QED BY <4>1 DEF Touching
    <3> QED BY <3>1
  <2>5. CellAfter(more, Len(steps), p) = CellAfter(steps, Len(steps), p)
    <3>1. \A i \in 0 .. Len(steps) : CellAfter(more, i, p) = CellAfter(steps, i, p)
      BY ReplayedBefore
    <3> QED BY <1>1, <3>1
  <2> HIDE DEF L
  <2>6. CASE Fills(more, L, p)
    <3>1. L \in Touching(more, L, p) /\ \A k \in Touching(more, L, p) : k <= L
      BY <2>2, <2>3, <2>6
    <3> QED BY <2>1, <2>6, <3>1 DEF CellAfter
  <2>7. CASE ~ Fills(more, L, p) /\ p \in ToSet(a.digs)
    <3>1. L \in Touching(more, L, p)
      BY <2>2, <2>7
    <3>2. \A j \in Touching(more, L, p) : ~ (Fills(more, j, p) /\ \A k \in Touching(more, L, p) : k <= j)
      <4>1. ASSUME NEW j \in Touching(more, L, p), \A k \in Touching(more, L, p) : k <= j
            PROVE  j = L
        BY <1>1, <2>3, <3>1, <4>1
      <4> QED BY <2>7, <4>1
    <3> QED BY <2>1, <2>7, <3>1, <3>2 DEF CellAfter
  <2>8. CASE ~ Fills(more, L, p) /\ p \notin ToSet(a.digs)
    <3>1. Touching(more, L, p) = Touching(more, Len(steps), p)
      BY <2>2, <2>4, <2>8
    <3>2. CellAfter(more, L, p) = CellAfter(more, Len(steps), p)
      BY <3>1 DEF CellAfter
    <3> QED BY <2>1, <2>5, <2>8, <3>2
  <2> QED BY <2>6, <2>7, <2>8
<1> QED BY <1>2, <1>4

(* What an action does to the cells of a node.                             *)
LEMMA SuccessorCells ==
  ASSUME NEW n, NEW a \in AllowedActions(n), NEW p
  PROVE  Cell(Successor(n, a), p) = CellThen(n, a, p)
<1> DEFINE filled == IF a.kind = "placeUp1" THEN {n.foot} ELSE {}
<1>1. /\ Successor(n, a).solid = n.solid \cup filled
      /\ Successor(n, a).air = (n.air \cup ToSet(a.digs)) \ filled
  BY DEF Successor
<1>2. \A q \in ToSet(a.digs) : q \notin n.solid
  BY DEF AllowedActions, Allowed, CanDigBlock
<1>3. p \in filled <=> a.kind = "placeUp1" /\ n.foot = p
  OBVIOUS
<1> HIDE DEF filled
<1>4. CASE p \in filled
  BY <1>1, <1>3, <1>4 DEF Cell, CellThen
<1>5. CASE p \notin filled /\ p \in ToSet(a.digs)
  BY <1>1, <1>2, <1>3, <1>5 DEF Cell, CellThen
<1>6. CASE p \notin filled /\ p \notin ToSet(a.digs)
  BY <1>1, <1>3, <1>6 DEF Cell, CellThen
<1> QED BY <1>4, <1>5, <1>6

(* The first node of a search.                                             *)
LEMMA StartIsOK ==
  ASSUME NEW p \in Positions, search.start = p
  PROVE  NodeOK(StartNode(p))
<1>1. /\ StartNode(p).actions = << >> /\ StartNode(p).foot = p
      /\ StartNode(p).air = {} /\ StartNode(p).solid = {}
  BY DEF StartNode
<1>2. << >> \in Seq(Actions) /\ Len(<< >>) = 0 /\ DOMAIN << >> = {} /\ 1 .. 0 = {}
  OBVIOUS
<1>3. FootAfter(<< >>, 0) = p
  BY DEF FootAfter
<1>4. \A q : CellAfter(<< >>, 0, q) = Block(q)
  BY <1>2 DEF CellAfter, Touching
<1>5. \A q : Cell(StartNode(p), q) = Block(q)
  BY <1>1 DEF Cell
<1>6. StepsAreExecutable(<< >>)
  BY <1>2 DEF StepsAreExecutable
<1> HIDE DEF StartNode
<1> QED BY <1>1, <1>2, <1>3, <1>4, <1>5, <1>6 DEF NodeOK

(* A node's successors by the actions allowed to it are like the node.     *)
LEMMA SuccessorIsOK ==
  ASSUME NEW n, NodeOK(n), NEW a \in AllowedActions(n)
  PROVE  NodeOK(Successor(n, a))
<1> DEFINE more == Append(n.actions, a)
           L == Len(n.actions) + 1
<1>1. a \in Actions /\ Allowed(n, a)
  BY DEF AllowedActions
<1>2. /\ n.actions \in Seq(Actions) /\ n.foot = FootAfter(n.actions, Len(n.actions))
      /\ \A p : CellAfter(n.actions, Len(n.actions), p) = Cell(n, p)
      /\ StepsAreExecutable(n.actions)
  BY DEF NodeOK
<1>3. IsExtended(more, n.actions, a)
  BY <1>2 DEF IsExtended
<1>4. Successor(n, a).actions = more /\ Successor(n, a).foot = a.toFoot
  BY DEF Successor
<1>5. more \in Seq(Actions) /\ Len(more) = L /\ L - 1 = Len(n.actions) /\ L # 0
  BY <1>1, <1>2
<1>6. a.toFoot \in Positions
  BY <1>1 DEF Actions
<1>7. /\ FootAfter(more, L) = a.toFoot
      /\ \A p : CellAfter(more, L, p) = CellThen(n, a, p)
  <2>1. /\ FootAfter(more, L) = a.toFoot
        /\ \A p : CellAfter(more, L, p) =
                    IF a.kind = "placeUp1" /\ FootAfter(n.actions, Len(n.actions)) = p THEN "rock"
                    ELSE IF p \in ToSet(a.digs) THEN "air"
                    ELSE CellAfter(n.actions, Len(n.actions), p)
    BY <1>1, <1>2, <1>3, ReplayedLast
  <2> QED BY <1>2, <2>1 DEF CellThen
<1>8. \A p : CellAfter(more, L, p) = Cell(Successor(n, a), p)
  BY <1>7, SuccessorCells
<1>9. ASSUME NEW i \in 0 .. Len(n.actions)
      PROVE  /\ FootAfter(more, i) = FootAfter(n.actions, i)
             /\ \A p : CellAfter(more, i, p) = CellAfter(n.actions, i, p)
             /\ \A p : StandsAfter(more, i, p) = StandsAfter(n.actions, i, p)
  BY <1>1, <1>2, <1>3, ReplayedBefore
<1>10. ASSUME NEW i \in 1 .. Len(n.actions) PROVE StepIsExecutable(more, i)
  <2>1. StepIsExecutable(n.actions, i) /\ more[i] = n.actions[i]
    BY <1>2 DEF StepsAreExecutable
  <2>2. i \in 0 .. Len(n.actions) /\ i - 1 \in 0 .. Len(n.actions)
    BY <1>2
  <2> HIDE DEF more
  <2> QED BY <2>1, <2>2, <1>9 DEF StepIsExecutable
<1>11. StepIsExecutable(more, L)
  <2>1. /\ FootAfter(more, L - 1) = n.foot /\ more[L] = a
        /\ \A p : CellAfter(more, L - 1, p) = Cell(n, p)
    <3>1. Len(n.actions) \in 0 .. Len(n.actions)
      BY <1>2
    <3> QED BY <1>2, <1>5, <1>9, <3>1
  <2>2. \A p : StandsAfter(more, L, p) <=> StandsThen(n, a, p)
    BY <1>7 DEF StandsAfter, StandsThen
  <2>3. \A p : StandsAfter(more, L - 1, p) <=> StandsNow(n, p)
    BY <2>1 DEF StandsAfter, StandsNow
  <2>4. \A p \in ToSet(a.digs) : IsDiggableBlock(Cell(n, p))
    BY <1>1, CellFacts DEF Allowed
  <2> HIDE DEF more, L
  <2> QED BY <1>1, <1>7, <2>1, <2>2, <2>3, <2>4 DEF StepIsExecutable, Allowed
<1>12. StepsAreExecutable(more)
  <2>1. \A i \in DOMAIN more : i \in 1 .. Len(n.actions) \/ i = L
    BY <1>2, <1>5
  <2> QED BY <1>10, <1>11, <2>1 DEF StepsAreExecutable
<1> HIDE DEF more, L
<1> QED BY <1>4, <1>5, <1>6, <1>7, <1>8, <1>12 DEF NodeOK

-----------------------------------------------------------------------------
(***************************************************************************)
(* The searches.                                                           *)
(***************************************************************************)

SearchFields ==
  {"status", "phase", "start", "open", "visited", "expanded", "total", "budgetExhausted", "plan"}
IsSearch(s) == s = [field \in SearchFields |-> s[field]]

(* A plan that can be carried out and leads where it says.                 *)
LeadsThere(plan) ==
  /\ plan.actions \in Seq(Actions) /\ plan.finalFoot \in Positions
  /\ StepsAreExecutable(plan.actions)
  /\ FootAfter(plan.actions, Len(plan.actions)) = plan.finalFoot

(* What a search for a way has found so far.                               *)
Finds ==
  /\ search.start \in Positions /\ \A n \in search.open : NodeOK(n)
  /\ search.status = "solved" => LeadsThere(search.plan) /\ IsGoal(search.plan.finalFoot)

(* Nothing of that changes while the world and the start stay.             *)
LEMMA SameReplay ==
  ASSUME world' = world, search'.start = search.start
  PROVE  /\ \A steps, i : FootAfter(steps, i)' = FootAfter(steps, i)
         /\ \A steps, i, p : CellAfter(steps, i, p)' = CellAfter(steps, i, p)
         /\ \A steps : StepsAreExecutable(steps)' = StepsAreExecutable(steps)
<1>1. \A p : Block(p)' = Block(p)
  BY DEF Block
<1>2. \A steps, i : FootAfter(steps, i)' = FootAfter(steps, i)
  BY DEF FootAfter
<1>3. \A steps, i, p : Fills(steps, i, p)' = Fills(steps, i, p)
  BY <1>2 DEF Fills
<1>4. \A steps, i, p : Touching(steps, i, p)' = Touching(steps, i, p)
  BY <1>3 DEF Touching
<1>5. \A steps, i, p : CellAfter(steps, i, p)' = CellAfter(steps, i, p)
  BY <1>1, <1>3, <1>4 DEF CellAfter
<1>6. \A steps, i, p : StandsAfter(steps, i, p)' = StandsAfter(steps, i, p)
  BY <1>5 DEF StandsAfter
<1>7. \A steps, i : StepIsExecutable(steps, i)' = StepIsExecutable(steps, i)
  BY <1>2, <1>5, <1>6 DEF StepIsExecutable
<1>8. \A steps : StepsAreExecutable(steps)' = StepsAreExecutable(steps)
  BY <1>7 DEF StepsAreExecutable
<1> QED BY <1>2, <1>5, <1>8

(* A node stands for the same while the world and the start stay.          *)
LEMMA SameNode ==
  ASSUME world' = world, search'.start = search.start, NEW n, NodeOK(n)
  PROVE  NodeOK(n)'
<1>1. \A p : Cell(n, p)' = Cell(n, p)
  BY DEF Cell, Block
<1> QED BY <1>1, SameReplay DEF NodeOK

(* The nodes a search of goTo goes on with.                                *)
LEMMA GrownNodes ==
  ASSUME NEW n, NodeOK(n)
  PROVE  \A m \in Grown(n).open : m \in search.open \/ NodeOK(m)
<1> DEFINE rest == [open |-> search.open \ {n}, visited |-> search.visited]
           next == ExpandSuccessors(n, CurrentPhase)
           parts == [i \in DOMAIN next |->
                       When(NoProgressSteps(n, next[i]) <= CurrentPhase.noProgress,
                            Successor(n, next[i]))]
           found == PushSuccessors(n)
           entries == [i \in DOMAIN found |-> Keyed(StateKey(found[i]), found[i])]
           S == {Successor(n, a) : a \in AllowedActions(n)}
           E == {Keyed(StateKey(m), m) : m \in S}
<1>1. next \in Seq(AllowedActions(n))
  <2>1. n.foot \in Positions /\ n.actions \in Seq(Actions)
    BY DEF NodeOK
  <2> QED BY <2>1, SuccessorsAreAllowed
<1>2. parts \in Seq(Seq(S))
  <2> HIDE DEF next
  <2>1. ASSUME NEW i \in DOMAIN next
        PROVE  When(NoProgressSteps(n, next[i]) <= CurrentPhase.noProgress, Successor(n, next[i]))
                 \in Seq(S)
    <3>1. next[i] \in AllowedActions(n)
      BY <1>1
    <3>2. Successor(n, next[i]) \in S
      BY <3>1
    <3> HIDE DEF S
    <3> QED BY <3>2 DEF When
  <2>2. DOMAIN next = 1 .. Len(next) /\ Len(next) \in Nat
    BY <1>1
  <2> HIDE DEF S
  <2> QED BY <2>1, <2>2
<1>3. found \in Seq(S)
  <2>1. found = FlattenSeq(parts)
    BY DEF PushSuccessors
  <2> HIDE DEF parts, S, found
  <2> QED BY <1>2, <2>1, FlattenTypes
<1> HIDE DEF found
<1>4. entries \in Seq(E) /\ \A i \in DOMAIN entries : entries[i].node \in S
  <2>1. ASSUME NEW i \in DOMAIN found PROVE found[i] \in S
    <3> HIDE DEF S
    <3> QED BY <1>3
  <2>2. ASSUME NEW i \in DOMAIN found
        PROVE  Keyed(StateKey(found[i]), found[i]) \in E
    <3> HIDE DEF S
    <3> QED BY <2>1
  <2>3. DOMAIN found = 1 .. Len(found) /\ Len(found) \in Nat
    <3> HIDE DEF S
    <3> QED BY <1>3
  <2>4. entries \in Seq(E)
    <3> HIDE DEF E
    <3> QED BY <2>2, <2>3
  <2>5. \A i \in DOMAIN found : entries[i].node = found[i]
    BY DEF Keyed
  <2> HIDE DEF S
  <2> QED BY <2>1, <2>4, <2>5
<1>5. FoldLeft(Push, rest, entries).open
        \subseteq rest.open \cup {entries[i].node : i \in DOMAIN entries}
  <2> HIDE DEF rest, entries, E
  <2> QED BY <1>4, PushedNodes
<1>6. rest.open \subseteq search.open
  OBVIOUS
<1>7. \A m \in S : NodeOK(m)
  BY SuccessorIsOK
<1>8. Grown(n) = rest \/ Grown(n) = FoldLeft(Push, rest, entries)
  BY DEF Grown, found
<1> HIDE DEF rest, entries, S
<1> QED BY <1>4, <1>5, <1>6, <1>7, <1>8

(* A search begins with its first node.                                    *)
LEMMA FirstSearch ==
  ASSUME NEW p \in Positions, NEW phase, NEW total
  PROVE  LET s == SearchFrom(p, phase, total)
         IN  /\ IsSearch(s) /\ s.start = p /\ s.status = "searching" /\ s.open = {StartNode(p)}
             /\ s.plan = NoPlan
BY DEF SearchFrom, IsSearch, SearchFields

(* A step of a search leaves its start.                                    *)
LEMMA SearchKeepsItsShape ==
  ASSUME IsSearch(search), SearchStep
  PROVE  IsSearch(search') /\ search'.start = search.start
<1>1. CASE ExpandNode
  BY <1>1 DEF ExpandNode, IsSearch, SearchFields
<1>2. ASSUME NEW l \in BOOLEAN, NEW overdue \in BOOLEAN, EndPhase(l, overdue)
      PROVE  IsSearch(search') /\ search'.start = search.start
  BY <1>2 DEF EndPhase, IsSearch, SearchFields, SearchFrom
<1> QED BY <1>1, <1>2 DEF SearchStep

(* A step of a search finds what can be carried out, if anything.          *)
LEMMA SearchStepFinds ==
  ASSUME IsSearch(search), Finds, SearchStep
  PROVE  Finds'
<1>1. /\ IsSearch(search') /\ search'.start = search.start
      /\ UNCHANGED <<world, targetFoot>>
  BY SearchKeepsItsShape DEF SearchStep, ExpandNode, EndPhase
<1>2. search'.start \in Positions
  BY <1>1 DEF Finds
<1>3. \A n : NodeOK(n) => NodeOK(n)'
  BY <1>1, SameNode
<1>4. ASSUME NEW n \in search.open, IsGoal(n.foot), search.status = "searching",
             search' = [search EXCEPT !.status = "solved", !.open = {}, !.visited = {},
                                !.expanded = @ + 1, !.total = @ + search.expanded + 1,
                                !.plan = [actions |-> n.actions, finalFoot |-> n.foot,
                                          cost |-> n.cost]]
      PROVE  Finds'
  <2>1. /\ search'.open = {} /\ search'.plan.actions = n.actions
        /\ search'.plan.finalFoot = n.foot
    BY <1>4 DEF IsSearch, SearchFields
  <2>2. NodeOK(n)'
    BY <1>3 DEF Finds
  <2>3. LeadsThere(search.plan)'
    BY <2>1, <2>2 DEF NodeOK, LeadsThere
  <2>4. \A p : IsGoal(p)' = IsGoal(p)
    BY <1>1 DEF IsGoal, HorizontalMiss, VerticalMiss
  <2>5. IsGoal(search.plan.finalFoot)'
    BY <1>4, <2>1, <2>4
  <2> QED BY <1>2, <2>1, <2>3, <2>5 DEF Finds
<1>5. ASSUME NEW n \in search.open, search.status = "searching",
             search' = [search EXCEPT !.expanded = @ + 1,
                                !.open = Grown(n).open, !.visited = Grown(n).visited]
      PROVE  Finds'
  <2>1. search'.open = Grown(n).open /\ search'.status = "searching"
    BY <1>5 DEF IsSearch, SearchFields
  <2>2. \A m \in search'.open : NodeOK(m)
    BY <2>1, GrownNodes DEF Finds
  <2>3. \A m \in search'.open : NodeOK(m)'
    BY <1>3, <2>2
  <2> QED BY <1>2, <2>1, <2>3 DEF Finds
<1>6. ASSUME NEW l \in BOOLEAN, NEW overdue \in BOOLEAN, EndPhase(l, overdue)
      PROVE  Finds'
  <2>1. \/ search'.status = "failed" /\ search'.open = {}
        \/ search'.status = "searching" /\ search'.open = {StartNode(search.start)}
    BY <1>6 DEF EndPhase, IsSearch, SearchFields, SearchFrom
  <2>2. NodeOK(StartNode(search.start))
    BY StartIsOK DEF Finds
  <2>3. \A m \in search'.open : NodeOK(m)'
    BY <1>3, <2>1, <2>2
  <2> QED BY <1>2, <2>1, <2>3 DEF Finds
<1> QED BY <1>4, <1>5, <1>6 DEF SearchStep, ExpandNode

(* The empty way of a search that begins at its goal.                      *)
LEMMA NoWayToGo ==
  ASSUME search.plan.actions = << >>, search.plan.finalFoot = search.start,
         search.start \in Positions
  PROVE  LeadsThere(search.plan)
<1>1. DOMAIN << >> = {} /\ Len(<< >>) = 0 /\ << >> \in Seq(Actions)
  OBVIOUS
<1> QED BY <1>1 DEF LeadsThere, StepsAreExecutable, FootAfter

(* So does the search a call begins with.                                  *)
LEMMA InitFinds ==
  ASSUME Init
  PROVE  IsSearch(search) /\ Finds /\ foot \in Positions
<1>1. PICK route \in Routes : foot = route[1] /\ search = PlanTerrainRoute(foot)
  BY DEF Init
<1>2. foot \in Positions
  <2>1. route \in Positions \X Positions
    BY NavigationAssumption
  <2> QED BY <1>1, <2>1
<1>3. \/ search = SearchFrom(foot, 1, 0)
      \/ /\ IsGoal(foot)
         /\ search = [SearchFrom(foot, 1, 0) EXCEPT !.status = "solved", !.open = {},
                                      !.visited = {}, !.plan.finalFoot = foot]
  BY <1>1 DEF PlanTerrainRoute
<1>4. CASE search = SearchFrom(foot, 1, 0)
  <2>1. /\ IsSearch(search) /\ search.start = foot /\ search.status = "searching"
        /\ search.open = {StartNode(foot)}
    BY <1>2, <1>4, FirstSearch
  <2>2. NodeOK(StartNode(foot))
    BY <1>2, <2>1, StartIsOK
  <2> QED BY <1>2, <2>1, <2>2 DEF Finds
<1>5. CASE /\ IsGoal(foot)
           /\ search = [SearchFrom(foot, 1, 0) EXCEPT !.status = "solved", !.open = {},
                                      !.visited = {}, !.plan.finalFoot = foot]
  <2>1. /\ IsSearch(search) /\ search.start = foot /\ search.open = {}
        /\ search.plan.actions = << >> /\ search.plan.finalFoot = foot
    BY <1>5 DEF SearchFrom, IsSearch, SearchFields, NoPlan
  <2>2. LeadsThere(search.plan)
    BY <1>2, <2>1, NoWayToGo
  <2> QED BY <1>2, <1>5, <2>1, <2>2 DEF Finds
<1> QED BY <1>2, <1>3, <1>4, <1>5

-----------------------------------------------------------------------------
(* The inductive invariant.                                                *)

Fields == {"status", "ops", "pc", "seen", "at", "tries", "alone"}
IsNavigation(n) == n = [field \in Fields |-> n[field]]

(* The places from which the server is asked without another look at the   *)
(* abort.                                                                  *)
Committed(n) == n.status = "acting" /\ n.pc \in {"aim", "placing", "clear"}

(* What is asked after the abort is asked from such a place, and nothing   *)
(* leads to one after the abort; a navigation begins at none.              *)
AbortInv ==
  /\ IsNavigation(nav) /\ aborted \in BOOLEAN /\ late \in {0, 1}
  /\ late = 1 => aborted /\ ~ Committed(nav)
  /\ nav.status = "planning" => nav.pc = "start"

-----------------------------------------------------------------------------
(***************************************************************************)
(* The navigation.                                                         *)
(***************************************************************************)

(* A step that asks the server nothing and, after the abort, stays away    *)
(* from the places from which it is asked.                                 *)
LEMMA QuietStep ==
  ASSUME AbortInv, late' = late, aborted' \in BOOLEAN, aborted => aborted',
         IsNavigation(nav'), Committed(nav') => Committed(nav) \/ ~ aborted',
         nav'.status = "planning" => nav'.pc = "start"
  PROVE  AbortInv'
BY DEF AbortInv

(* A dig or a placement is asked for from one of those places, and left it. *)
LEMMA AskStep ==
  ASSUME AbortInv, NEW kind, NEW at, Committed(nav), Ask(kind, at), aborted' = aborted,
         IsNavigation(nav'), ~ Committed(nav'), nav'.status = "acting"
  PROVE  AbortInv'
BY DEF AbortInv, Ask

(* Every step of an execution keeps the invariant.                         *)
LEMMA ExecuteStep ==
  ASSUME AbortInv, Execute
  PROVE  AbortInv'
<1> USE DEF AsksNothing, In, Acting, Committed, IsNavigation, Fields
<1>1. IsNavigation(nav) /\ aborted \in BOOLEAN /\ (nav.status = "planning" => nav.pc = "start")
  BY DEF AbortInv
<1>2. CASE StartActing
  <2>1. IsNavigation(nav') /\ nav'.status = "acting" /\ nav'.pc = "start"
    BY <1>1, <1>2 DEF StartActing
  <2> QED BY <1>1, <1>2, <2>1, QuietStep DEF StartActing
<1>3. CASE RouteNotFound
  <2>1. IsNavigation(nav') /\ nav'.status = "failed"
    BY <1>1, <1>3 DEF RouteNotFound
  <2> QED BY <1>1, <1>3, <2>1, QuietStep DEF RouteNotFound
<1>4. CASE DigStarts
  <2>1. /\ Committed(nav) /\ IsNavigation(nav') /\ ~ Committed(nav') /\ aborted' = aborted
        /\ \/ AsksNothing /\ nav'.status # "planning"
           \/ Ask("dig", CurrentOp.to) /\ nav'.status = "acting"
    BY <1>1, <1>4 DEF DigStarts, Throw
  <2> QED BY <1>1, <2>1, QuietStep, AskStep
<1>5. CASE PlaceAsks
  <2>1. /\ Committed(nav) /\ IsNavigation(nav') /\ ~ Committed(nav') /\ aborted' = aborted
        /\ \/ AsksNothing /\ nav'.status # "planning"
           \/ Ask("place", nav.at) /\ nav'.status = "acting"
    BY <1>1, <1>5 DEF PlaceAsks, Throw
  <2> QED BY <1>1, <2>1, QuietStep, AskStep
<1>6. CASE PlaceClears
  <2>1. /\ Committed(nav) /\ IsNavigation(nav') /\ ~ Committed(nav') /\ aborted' = aborted
        /\ \/ AsksNothing /\ nav'.status # "planning"
           \/ Ask("dig", nav.at) /\ nav'.status = "acting"
    BY <1>1, <1>6 DEF PlaceClears, Throw
  <2> QED BY <1>1, <2>1, QuietStep, AskStep
<1>7. CASE Finish
  <2>1. /\ IsNavigation(nav') /\ (Committed(nav') => Committed(nav) \/ ~ aborted)
        /\ nav'.status # "planning" /\ late' = late /\ aborted' = aborted
    BY <1>1, <1>7 DEF Finish, Throw, OpDone
  <2> QED BY <1>1, <2>1, QuietStep
<1>8. CASE SeesAbort
  <2>1. /\ IsNavigation(nav') /\ (Committed(nav') => Committed(nav) \/ ~ aborted)
        /\ nav'.status # "planning" /\ late' = late /\ aborted' = aborted
    BY <1>1, <1>8 DEF SeesAbort, Throw, OpDone
  <2> QED BY <1>1, <2>1, QuietStep
<1>9. CASE DigReads
  <2>1. /\ IsNavigation(nav') /\ (Committed(nav') => Committed(nav) \/ ~ aborted)
        /\ nav'.status # "planning" /\ late' = late /\ aborted' = aborted
    BY <1>1, <1>9 DEF DigReads, Throw, OpDone
  <2> QED BY <1>1, <2>1, QuietStep
<1>10. CASE MoveStarts
  <2>1. /\ IsNavigation(nav') /\ (Committed(nav') => Committed(nav) \/ ~ aborted)
        /\ nav'.status # "planning" /\ late' = late /\ aborted' = aborted
    BY <1>1, <1>10 DEF MoveStarts, Throw, OpDone
  <2> QED BY <1>1, <2>1, QuietStep
<1>11. CASE PathfinderEnds
  <2>1. /\ IsNavigation(nav') /\ (Committed(nav') => Committed(nav) \/ ~ aborted)
        /\ nav'.status # "planning" /\ late' = late /\ aborted' = aborted
    BY <1>1, <1>11 DEF PathfinderEnds, Throw, OpDone
  <2> QED BY <1>1, <2>1, QuietStep
<1>12. CASE StepToFoot
  <2>1. /\ IsNavigation(nav') /\ (Committed(nav') => Committed(nav) \/ ~ aborted)
        /\ nav'.status # "planning" /\ late' = late /\ aborted' = aborted
    BY <1>1, <1>12 DEF StepToFoot, Throw, OpDone
  <2> QED BY <1>1, <2>1, QuietStep
<1>13. CASE DropStarts
  <2>1. /\ IsNavigation(nav') /\ (Committed(nav') => Committed(nav) \/ ~ aborted)
        /\ nav'.status # "planning" /\ late' = late /\ aborted' = aborted
    BY <1>1, <1>13 DEF DropStarts, Throw, OpDone
  <2> QED BY <1>1, <2>1, QuietStep
<1>14. CASE HeightReached
  <2>1. /\ IsNavigation(nav') /\ (Committed(nav') => Committed(nav) \/ ~ aborted)
        /\ nav'.status # "planning" /\ late' = late /\ aborted' = aborted
    BY <1>1, <1>14 DEF HeightReached, Throw, OpDone
  <2> QED BY <1>1, <2>1, QuietStep
<1>15. CASE Centre
  <2>1. /\ IsNavigation(nav') /\ (Committed(nav') => Committed(nav) \/ ~ aborted)
        /\ nav'.status # "planning" /\ late' = late /\ aborted' = aborted
    BY <1>1, <1>15 DEF Centre, Throw, OpDone
  <2> QED BY <1>1, <2>1, QuietStep
<1>16. CASE PlaceStarts
  <2>1. /\ IsNavigation(nav') /\ (Committed(nav') => Committed(nav) \/ ~ aborted)
        /\ nav'.status # "planning" /\ late' = late /\ aborted' = aborted
    BY <1>1, <1>16 DEF PlaceStarts, Throw, OpDone
  <2> QED BY <1>1, <2>1, QuietStep
<1>17. CASE PlaceSucceeds
  <2>1. /\ IsNavigation(nav') /\ (Committed(nav') => Committed(nav) \/ ~ aborted)
        /\ nav'.status # "planning" /\ late' = late /\ aborted' = aborted
    BY <1>1, <1>17 DEF PlaceSucceeds, Throw, OpDone
  <2> QED BY <1>1, <2>1, QuietStep
<1>18. CASE PlaceFails
  <2>1. /\ IsNavigation(nav') /\ (Committed(nav') => Committed(nav) \/ ~ aborted)
        /\ nav'.status # "planning" /\ late' = late /\ aborted' = aborted
    BY <1>1, <1>18 DEF PlaceFails, Throw, OpDone
  <2> QED BY <1>1, <2>1, QuietStep
<1>19. CASE PlaceMissed
  <2>1. /\ IsNavigation(nav') /\ (Committed(nav') => Committed(nav) \/ ~ aborted)
        /\ nav'.status # "planning" /\ late' = late /\ aborted' = aborted
    BY <1>1, <1>19 DEF PlaceMissed, Throw, OpDone
  <2> QED BY <1>1, <2>1, QuietStep
<1>20. CASE PlaceTries
  <2>1. /\ IsNavigation(nav') /\ (Committed(nav') => Committed(nav) \/ ~ aborted)
        /\ nav'.status # "planning" /\ late' = late /\ aborted' = aborted
    BY <1>1, <1>20 DEF PlaceTries, Throw, OpDone
  <2> QED BY <1>1, <2>1, QuietStep
<1>21. CASE PlaceCleared
  <2>1. /\ IsNavigation(nav') /\ (Committed(nav') => Committed(nav) \/ ~ aborted)
        /\ nav'.status # "planning" /\ late' = late /\ aborted' = aborted
    BY <1>1, <1>21 DEF PlaceCleared, Throw, OpDone
  <2> QED BY <1>1, <2>1, QuietStep
<1>22. CASE DigWatches
  <2>1. /\ IsNavigation(nav') /\ (Committed(nav') => Committed(nav) \/ ~ aborted)
        /\ nav'.status # "planning" /\ late' = late /\ aborted' = aborted
    BY <1>1, <1>22 DEF DigWatches, Throw, OpDone
  <2> QED BY <1>1, <2>1, QuietStep
<1> QED BY <1>2, <1>3, <1>4, <1>5, <1>6, <1>7, <1>8, <1>9, <1>10, <1>11, <1>12, <1>13, <1>14, <1>15, <1>16, <1>17, <1>18, <1>19, <1>20, <1>21, <1>22 DEF Execute

(* What the server, the others and the abort do while it runs.             *)
LEMMA AroundStep ==
  ASSUME AbortInv,
         \/ BotMoves \/ Falls \/ DigLands \/ PlaceLands \/ PendingLost
         \/ OthersChangeBlock \/ OthersPush \/ Abort
  PROVE  AbortInv'
<1>1. nav' = nav /\ late' = late /\ aborted' \in {aborted, TRUE}
  BY DEF BotMoves, Falls, DigLands, PlaceLands, PendingLost, OthersChangeBlock, OthersPush, Abort
<1> QED BY <1>1 DEF AbortInv

(* An idle navigation is one that is planned.                              *)
LEMMA IdleFacts ==
  /\ IsNavigation(Idle) /\ Idle.status = "planning" /\ Idle.pc = "start" /\ Idle.ops = << >>
  /\ IsNavigation(Begun) /\ Begun.status = "planning" /\ Begun.pc = "start" /\ Begun.ops = << >>
  /\ Idle.alone /\ Begun.alone = (pending = Nothing)
BY DEF Idle, Begun, IsNavigation, Fields

(* A call begins with nothing asked.                                       *)
LEMMA Initially == Init => AbortInv
<1>1. Init => nav = Idle /\ aborted = FALSE /\ late = 0
  BY DEF Init
<1>2. ASSUME nav = Idle, aborted = FALSE, late = 0 PROVE AbortInv
  <2>1. IsNavigation(nav) /\ nav.status = "planning" /\ nav.pc = "start"
    BY <1>2, IdleFacts
  <2>2. aborted \in BOOLEAN
    BY <1>2
  <2>3. late \in {0, 1} /\ late # 1
    BY <1>2
  <2> QED BY <2>1, <2>2, <2>3 DEF AbortInv
<1> QED BY <1>1, <1>2

(* The steps of goTo keep the invariant.                                   *)
LEMMA GoToStep == AbortInv /\ [Next]_vars => AbortInv'
<1> SUFFICES ASSUME AbortInv, [Next]_vars PROVE AbortInv'
  OBVIOUS
<1>1. CASE Plan \/ UNCHANGED vars
  BY <1>1 DEF Plan, vars, navVars, AbortInv
<1>2. CASE Execute
  BY <1>2, ExecuteStep
<1>3. CASE Around
  BY <1>3, AroundStep DEF Around, Server
<1> QED BY <1>1, <1>2, <1>3 DEF Next

-----------------------------------------------------------------------------
(***************************************************************************)
(* The miner, whose walks go by the same rules.                            *)
(***************************************************************************)
LEMMA MineActsStep ==
  ASSUME AbortInv, MineActs
  PROVE  AbortInv'
<1> USE DEF AsksNothing, In, Acting, Committed, IsNavigation, Fields
<1>1. IsNavigation(nav) /\ aborted \in BOOLEAN /\ (nav.status = "planning" => nav.pc = "start")
  BY DEF AbortInv
<1>2. CASE \/ MineScan \/ MineStepFails \/ MineSettles \/ ApproachBegins \/ ApproachEnds
           \/ NoApproach
  <2>1. UNCHANGED <<nav, aborted, late>>
    BY <1>2 DEF MineScan, MineStepFails, MineSettles, ApproachBegins, ApproachEnds, NoApproach,
                vars, navVars
  <2> QED BY <1>1, <2>1, QuietStep
<1>3. CASE MineStarts
  <2> DEFINE ops == FlattenSeq([i \in DOMAIN search.plan.actions |->
                                     MineScript(search.plan.actions[i])])
                      \o <<Op("check", search.plan.finalFoot), Op("finalDig", search.plan.target)>>
  <2>1. nav' = [Begun EXCEPT !.status = "acting", !.ops = ops]
    BY <1>3 DEF MineStarts
  <2> HIDE DEF ops
  <2>2. IsNavigation(nav') /\ nav'.status = "acting" /\ nav'.pc = "start"
    BY <2>1, IdleFacts
  <2> QED BY <1>1, <1>3, <2>2, QuietStep DEF MineStarts
<1>4. CASE MineRoundEnds \/ Approach
  BY <1>1, <1>4, IdleFacts, QuietStep DEF MineRoundEnds, Approach
<1>5. CASE Navigates
  BY <1>5, ExecuteStep DEF Navigates
<1>6. CASE MineWalks
  BY <1>6, ExecuteStep DEF MineWalks, Execute
<1>7. CASE MineBegins
  <2>1. /\ IsNavigation(nav') /\ (Committed(nav') => Committed(nav) \/ ~ aborted)
        /\ nav'.status # "planning" /\ late' = late /\ aborted' = aborted
    BY <1>1, <1>7 DEF MineBegins, Throw, OpDone
  <2> QED BY <1>1, <2>1, QuietStep
<1>8. CASE MineEnds
  <2>1. /\ IsNavigation(nav') /\ (Committed(nav') => Committed(nav) \/ ~ aborted)
        /\ nav'.status # "planning" /\ late' = late /\ aborted' = aborted
    BY <1>1, <1>8 DEF MineEnds, Throw, OpDone
  <2> QED BY <1>1, <2>1, QuietStep
<1>9. CASE MineChecks
  <2>1. /\ IsNavigation(nav') /\ (Committed(nav') => Committed(nav) \/ ~ aborted)
        /\ nav'.status # "planning" /\ late' = late /\ aborted' = aborted
    BY <1>1, <1>9 DEF MineChecks, Throw, OpDone
  <2> QED BY <1>1, <2>1, QuietStep
<1>10. CASE MineDigReads
  <2>1. /\ IsNavigation(nav') /\ (Committed(nav') => Committed(nav) \/ ~ aborted)
        /\ nav'.status # "planning" /\ late' = late /\ aborted' = aborted
    BY <1>1, <1>10 DEF MineDigReads, Throw, OpDone
  <2> QED BY <1>1, <2>1, QuietStep
<1>11. CASE FinalReads
  <2>1. /\ IsNavigation(nav') /\ (Committed(nav') => Committed(nav) \/ ~ aborted)
        /\ nav'.status # "planning" /\ late' = late /\ aborted' = aborted
    BY <1>1, <1>11 DEF FinalReads, Throw, OpDone
  <2> QED BY <1>1, <2>1, QuietStep
<1>12. CASE MineWatches
  <2>1. /\ IsNavigation(nav') /\ (Committed(nav') => Committed(nav) \/ ~ aborted)
        /\ nav'.status # "planning" /\ late' = late /\ aborted' = aborted
    BY <1>1, <1>12 DEF MineWatches, Throw, OpDone
  <2> QED BY <1>1, <2>1, QuietStep
<1> QED BY <1>2, <1>3, <1>4, <1>5, <1>6, <1>7, <1>8, <1>9, <1>10, <1>11, <1>12 DEF MineActs

(* So do those of mine.                                                    *)
LEMMA MineStep == AbortInv /\ [MineNext]_allVars => AbortInv'
<1> SUFFICES ASSUME AbortInv, [MineNext]_allVars PROVE AbortInv'
  OBVIOUS
<1>1. CASE Searches \/ UNCHANGED allVars
  BY <1>1 DEF Searches, MinePlans, RoutePlans, Plan, allVars, vars, navVars, AbortInv
<1>2. CASE MineActs
  BY <1>2, MineActsStep
<1>3. CASE MineAround
  <2>1. CASE PicksUp
    BY <2>1 DEF PicksUp, vars, navVars, AbortInv
  <2> QED BY <1>3, <2>1, AroundStep DEF MineAround, MineDigLands
<1> QED BY <1>1, <1>2, <1>3 DEF MineNext

-----------------------------------------------------------------------------
(* After an abort a navigation asks the server for one dig or placement at *)
(* most, whatever the world, the way and the others are.                   *)
THEOREM OneChangeInGoTo == Spec => []OneChangeAfterAbort
<1>1. AbortInv => OneChangeAfterAbort
  BY DEF AbortInv, OneChangeAfterAbort
<1>2. Spec => []AbortInv
  BY Initially, GoToStep, PTL DEF Spec
<1> QED BY <1>1, <1>2, PTL

(* So does a miner in all its rounds: its walks, its digs and the          *)
(* approaches that swallow the abort.                                      *)
THEOREM OneChangeInMine == MineSpec => []OneChangeAfterAbort
<1>1. AbortInv => OneChangeAfterAbort
  BY DEF AbortInv, OneChangeAfterAbort
<1>2. MineInit => AbortInv
  BY Initially DEF MineInit
<1>3. MineSpec => []AbortInv
  BY <1>2, MineStep, PTL DEF MineSpec
<1> QED BY <1>1, <1>3, PTL

-----------------------------------------------------------------------------
(***************************************************************************)
(* goTo: while it plans, what its search found can be carried out.         *)
(***************************************************************************)

(* An execution leaves the world, the search and its goal.                 *)
LEMMA ExecuteKeeps ==
  ASSUME IsNavigation(nav), Execute
  PROVE  nav'.status # "planning" /\ UNCHANGED <<world, targetFoot, search, disturbances>>
<1>1. UNCHANGED <<world, targetFoot, search, disturbances>>
  BY DEF Execute, StartActing, RouteNotFound, SeesAbort, Finish, DigReads, DigStarts, DigWatches,
         MoveStarts, PathfinderEnds, StepToFoot, DropStarts, HeightReached, Centre, PlaceStarts,
         PlaceTries, PlaceAsks, PlaceSucceeds, PlaceFails, PlaceMissed, PlaceClears, PlaceCleared,
         routeVars
<1> USE DEF IsNavigation, Fields, In, Acting
<1>2. StartActing => nav'.status # "planning"
  BY DEF StartActing, Throw, OpDone
<1>3. RouteNotFound => nav'.status # "planning"
  BY DEF RouteNotFound, Throw, OpDone
<1>4. SeesAbort => nav'.status # "planning"
  BY DEF SeesAbort, Throw, OpDone
<1>5. Finish => nav'.status # "planning"
  BY DEF Finish, Throw, OpDone
<1>6. DigReads => nav'.status # "planning"
  BY DEF DigReads, Throw, OpDone
<1>7. DigStarts => nav'.status # "planning"
  BY DEF DigStarts, Throw, OpDone
<1>8. DigWatches => nav'.status # "planning"
  BY DEF DigWatches, Throw, OpDone
<1>9. MoveStarts => nav'.status # "planning"
  BY DEF MoveStarts, Throw, OpDone
<1>10. PathfinderEnds => nav'.status # "planning"
  BY DEF PathfinderEnds, Throw, OpDone
<1>11. StepToFoot => nav'.status # "planning"
  BY DEF StepToFoot, Throw, OpDone
<1>12. DropStarts => nav'.status # "planning"
  BY DEF DropStarts, Throw, OpDone
<1>13. HeightReached => nav'.status # "planning"
  BY DEF HeightReached, Throw, OpDone
<1>14. Centre => nav'.status # "planning"
  BY DEF Centre, Throw, OpDone
<1>15. PlaceStarts => nav'.status # "planning"
  BY DEF PlaceStarts, Throw, OpDone
<1>16. PlaceTries => nav'.status # "planning"
  BY DEF PlaceTries, Throw, OpDone
<1>17. PlaceAsks => nav'.status # "planning"
  BY DEF PlaceAsks, Throw, OpDone
<1>18. PlaceSucceeds => nav'.status # "planning"
  BY DEF PlaceSucceeds, Throw, OpDone
<1>19. PlaceFails => nav'.status # "planning"
  BY DEF PlaceFails, Throw, OpDone
<1>20. PlaceMissed => nav'.status # "planning"
  BY DEF PlaceMissed, Throw, OpDone
<1>21. PlaceClears => nav'.status # "planning"
  BY DEF PlaceClears, Throw, OpDone
<1>22. PlaceCleared => nav'.status # "planning"
  BY DEF PlaceCleared, Throw, OpDone
<1> QED BY <1>1, <1>2, <1>3, <1>4, <1>5, <1>6, <1>7, <1>8, <1>9, <1>10, <1>11, <1>12, <1>13, <1>14, <1>15, <1>16, <1>17, <1>18, <1>19, <1>20, <1>21, <1>22 DEF Execute

(* It moves neither the bot nor what the others do.                        *)
LEMMA ExecuteStands == Execute => foot' = foot
BY DEF Execute, StartActing, RouteNotFound, SeesAbort, Finish, DigReads, DigStarts, DigWatches,
       MoveStarts, PathfinderEnds, StepToFoot, DropStarts, HeightReached, Centre, PlaceStarts,
       PlaceTries, PlaceAsks, PlaceSucceeds, PlaceFails, PlaceMissed, PlaceClears, PlaceCleared

RouteInv == AbortInv /\ IsSearch(search) /\ (Planning => Finds)

(* What a search found, it keeps while the world and the goal stay.        *)
LEMMA StillFinds ==
  ASSUME Finds, UNCHANGED <<world, targetFoot, search>>
  PROVE  Finds'
<1>1. \A n : NodeOK(n) => NodeOK(n)'
  BY SameNode
<1>2. \A p : IsGoal(p)' = IsGoal(p)
  BY DEF IsGoal, HorizontalMiss, VerticalMiss
<1>3. LeadsThere(search.plan) => LeadsThere(search.plan)'
  BY SameReplay DEF LeadsThere
<1> QED BY <1>1, <1>2, <1>3 DEF Finds

(* The steps of goTo keep what was found.                                  *)
LEMMA RouteStep == RouteInv /\ [Next]_vars => RouteInv'
<1> SUFFICES ASSUME RouteInv, [Next]_vars PROVE RouteInv'
  OBVIOUS
<1>5. AbortInv'
  BY GoToStep DEF RouteInv
<1>1. CASE Plan
  BY <1>1, <1>5, SearchStepFinds, SearchKeepsItsShape DEF Plan, navVars, RouteInv, Planning
<1>2. CASE Execute
  <2>1. nav'.status # "planning" /\ search' = search
    BY <1>2, ExecuteKeeps DEF RouteInv, AbortInv
  <2> QED BY <1>5, <2>1 DEF RouteInv, Planning
<1>3. CASE Around
  <2>1. ~ Planning /\ UNCHANGED <<nav, search>>
    BY <1>3 DEF Around, Server, BotMoves, Falls, DigLands, PlaceLands, PendingLost,
                OthersChangeBlock, OthersPush, Abort, routeVars
  <2> QED BY <1>5, <2>1 DEF RouteInv, Planning
<1>4. CASE UNCHANGED vars
  <2>1. UNCHANGED <<nav, search, world, targetFoot>>
    BY <1>4 DEF vars, routeVars, navVars
  <2> QED BY <1>5, <2>1, StillFinds DEF RouteInv, Planning
<1> QED BY <1>1, <1>2, <1>3, <1>4 DEF Next

(* The ways of planTerrainRoute can be carried out (goTo): each action is  *)
(* a step the bot can take from where the one before left it, digs what is *)
(* there and can be dug, leaves it on a solid block with room for its      *)
(* body, and the last one leaves it at the goal.                           *)
THEOREM WaysOfGoTo == Spec => []WayIsExecutable
<1>1. Init => RouteInv
  BY Initially, InitFinds DEF RouteInv
<1>2. RouteInv => WayIsExecutable
  BY DEF RouteInv, Finds, LeadsThere, WayIsExecutable
<1>3. Spec => []RouteInv
  BY <1>1, RouteStep, PTL DEF Spec
<1> QED BY <1>2, <1>3, PTL

-----------------------------------------------------------------------------
(***************************************************************************)
(* The search of a miner.                                                  *)
(***************************************************************************)

MineNodeOK(n) == NodeOK(n) /\ \A i \in DOMAIN n.actions : n.actions[i].kind \in MineKinds

(* A plan of a miner: its target is dug at its end, or within reach.       *)
LeadsToTarget(plan) ==
  /\ "target" \in DOMAIN plan /\ plan.target \in Positions
  /\ \A i \in DOMAIN plan.actions : plan.actions[i].kind \in MineKinds
  /\ LeadsThere(plan)
  /\ \/ CellAfter(plan.actions, Len(plan.actions), plan.target) = "air"
     \/ InReach(plan.finalFoot, plan.target)

MineFinds ==
  /\ search.start \in Positions /\ \A n \in search.open : MineNodeOK(n)
  /\ search.status = "solved" => LeadsToTarget(search.plan)

(* A miner's nodes keep to its actions.                                    *)
LEMMA MineSuccessorIsOK ==
  ASSUME NEW n, MineNodeOK(n), NEW a \in MinesActions(n)
  PROVE  MineNodeOK(Successor(n, a))
<1>1. a \in AllowedActions(n) /\ a.kind \in MineKinds /\ NodeOK(n) /\ n.actions \in Seq(Actions)
  BY DEF MinesActions, MineNodeOK, NodeOK
<1>2. a \in Actions
  BY <1>1 DEF AllowedActions
<1>3. NodeOK(Successor(n, a)) /\ Successor(n, a).actions = Append(n.actions, a)
  BY <1>1, SuccessorIsOK DEF Successor
<1>4. \A i \in DOMAIN Append(n.actions, a) : Append(n.actions, a)[i].kind \in MineKinds
  BY <1>1, <1>2 DEF MineNodeOK
<1> QED BY <1>3, <1>4 DEF MineNodeOK

(* The nodes a search of a miner goes on with.                             *)
LEMMA MineGrownNodes ==
  ASSUME NEW n, MineNodeOK(n), NEW targets
  PROVE  \A m \in MineGrown(n, targets).open : m \in search.open \/ MineNodeOK(m)
<1> DEFINE rest == [open |-> search.open \ {n}, visited |-> search.visited]
           found == MineSuccessors(n)
           next == [i \in DOMAIN found |-> Successor(n, found[i])]
           entries == [i \in DOMAIN next |-> Keyed(MineStateKey(next[i]), next[i])]
           S == {Successor(n, a) : a \in MinesActions(n)}
           E == {Keyed(MineStateKey(m), m) : m \in S}
<1>1. found \in Seq(MinesActions(n))
  <2>1. n.foot \in Positions
    BY DEF MineNodeOK, NodeOK
  <2> QED BY <2>1, MineSuccessorsAreAllowed
<1> HIDE DEF found
<1>2. next \in Seq(S)
  <2>1. ASSUME NEW i \in DOMAIN found PROVE Successor(n, found[i]) \in S
    <3>1. found[i] \in MinesActions(n)
      BY <1>1
    <3> QED BY <3>1
  <2>2. DOMAIN found = 1 .. Len(found) /\ Len(found) \in Nat
    BY <1>1
  <2> HIDE DEF S
  <2> QED BY <2>1, <2>2
<1> HIDE DEF next
<1>3. entries \in Seq(E) /\ \A i \in DOMAIN entries : entries[i].node \in S
  <2>1. ASSUME NEW i \in DOMAIN next PROVE next[i] \in S
    <3> HIDE DEF S
    <3> QED BY <1>2
  <2>2. ASSUME NEW i \in DOMAIN next
        PROVE  Keyed(MineStateKey(next[i]), next[i]) \in E
    <3> HIDE DEF S
    <3> QED BY <2>1
  <2>3. DOMAIN next = 1 .. Len(next) /\ Len(next) \in Nat
    <3> HIDE DEF S
    <3> QED BY <1>2
  <2>4. entries \in Seq(E)
    <3> HIDE DEF E
    <3> QED BY <2>2, <2>3
  <2>5. \A i \in DOMAIN next : entries[i].node = next[i]
    BY DEF Keyed
  <2> HIDE DEF S
  <2> QED BY <2>1, <2>4, <2>5
<1>4. FoldLeft(Push, rest, entries).open
        \subseteq rest.open \cup {entries[i].node : i \in DOMAIN entries}
  <2> HIDE DEF rest, entries, E
  <2> QED BY <1>3, PushedNodes
<1>5. rest.open \subseteq search.open
  OBVIOUS
<1>6. \A m \in S : MineNodeOK(m)
  BY MineSuccessorIsOK
<1>7. MineGrown(n, targets) = rest \/ MineGrown(n, targets) = FoldLeft(Push, rest, entries)
  BY DEF MineGrown, found, next
<1> HIDE DEF rest, entries, S
<1> QED BY <1>3, <1>4, <1>5, <1>6, <1>7

(* The target is one of those looked for, and is dug by the last action or *)
(* is within reach.                                                        *)
LEMMA PlannedTargetFacts ==
  ASSUME NEW n, MineNodeOK(n), NEW targets, targets \subseteq Positions,
         NEW t \in PlannedTargets(n, targets)
  PROVE  /\ t \in Positions
         /\ CellAfter(n.actions, Len(n.actions), t) = "air" \/ InReach(n.foot, t)
<1>1. n.actions \in Seq(Actions)
  BY DEF MineNodeOK, NodeOK
<1>2. CASE DugTarget(n, targets) = 0
  <2>1. t \in Nearest(n.foot, Reachable(n, targets))
    BY <1>2 DEF PlannedTargets
  <2> QED BY <2>1 DEF Nearest, Reachable
<1>3. CASE DugTarget(n, targets) # 0
  <2> DEFINE a == LastAction(n)
             I == {i \in 1 .. Len(a.digs) : a.digs[i] \in targets}
  <2>1. n.actions # << >>
    BY <1>3 DEF DugTarget
  <2>2. a \in Actions /\ a = n.actions[Len(n.actions)] /\ Len(n.actions) \in Nat \ {0}
    BY <1>1, <2>1, LastDirs DEF LastAction, Last
  <2>3. a.digs \in Seq(Positions)
    BY <2>2 DEF Actions
  <2>4. DugTarget(n, targets) = IF I # {} THEN Min(I) ELSE 0
    BY <2>1 DEF DugTarget, SelectInSeq
  <2>5. I # {} /\ DugTarget(n, targets) = Min(I)
    BY <1>3, <2>4
  <2>6. Min(I) \in I
    <3>1. I \in SUBSET Nat
      OBVIOUS
    <3>2. \E x \in I : \A y \in I : x <= y
      <4> HIDE DEF I
      <4> QED BY <2>5, <3>1, LeastNatural
    <3> HIDE DEF I
    <3> QED BY <3>2 DEF Min
  <2>7. t = a.digs[DugTarget(n, targets)]
    BY <1>3 DEF PlannedTargets
  <2>8. t = a.digs[Min(I)] /\ Min(I) \in DOMAIN a.digs
    BY <2>3, <2>5, <2>6, <2>7
  <2>9. t \in ToSet(a.digs) /\ t \in Positions
    <3> HIDE DEF I, a
    <3> QED BY <2>3, <2>8 DEF ToSet
  <2>10. Len(n.actions) \in Touching(n.actions, Len(n.actions), t)
    BY <2>2, <2>9 DEF Touching
  <2>11. \A j \in Touching(n.actions, Len(n.actions), t) : ~ Fills(n.actions, j, t)
    <3>1. ASSUME NEW j \in 1 .. Len(n.actions) PROVE ~ Fills(n.actions, j, t)
      <4>1. n.actions[j].kind \in MineKinds
        BY <1>1 DEF MineNodeOK
      <4> QED BY <4>1 DEF Fills, MineKinds
    <3> QED BY <3>1 DEF Touching
  <2>12. CellAfter(n.actions, Len(n.actions), t) = "air"
    BY <2>10, <2>11 DEF CellAfter
  <2> QED BY <2>9, <2>12
<1> QED BY <1>2, <1>3

(* A step of a search of a miner leaves its start.                         *)
LEMMA MineSearchKeepsItsShape ==
  ASSUME IsSearch(search), NEW targets, MineExpandNode(targets) \/ MineNoPath
  PROVE  IsSearch(search') /\ search'.start = search.start
BY DEF MineExpandNode, MineNoPath, IsSearch, SearchFields

(* It finds what can be carried out and leads to a target, if anything.    *)
LEMMA MineSearchFinds ==
  ASSUME IsSearch(search), MineFinds, world' = world, NEW targets, targets \subseteq Positions,
         MineExpandNode(targets) \/ MineNoPath
  PROVE  MineFinds'
<1>1. IsSearch(search') /\ search'.start = search.start
  BY MineSearchKeepsItsShape
<1>2. search'.start \in Positions
  BY <1>1 DEF MineFinds
<1>3. \A n : NodeOK(n) => NodeOK(n)'
  BY <1>1, SameNode
<1>4. \A n : MineNodeOK(n) => MineNodeOK(n)'
  BY <1>3 DEF MineNodeOK
<1>5. ASSUME NEW n \in search.open, NEW t \in PlannedTargets(n, targets),
             search' = [search EXCEPT !.status = "solved", !.open = {}, !.visited = {},
                                      !.plan = MinePlan(n, t)]
      PROVE  MineFinds'
  <2>1. search'.open = {} /\ search'.plan = MinePlan(n, t)
    BY <1>5 DEF IsSearch, SearchFields
  <2>2. /\ "target" \in DOMAIN search'.plan /\ search'.plan.target = t
        /\ search'.plan.actions = n.actions /\ search'.plan.finalFoot = n.foot
    BY <2>1 DEF MinePlan
  <2>3. MineNodeOK(n)
    BY DEF MineFinds
  <2>4. NodeOK(n)' /\ MineNodeOK(n)'
    BY <1>3, <1>4, <2>3 DEF MineNodeOK
  <2>5. LeadsThere(search.plan)'
    BY <2>2, <2>4 DEF NodeOK, LeadsThere
  <2>6. \A i \in DOMAIN n.actions : n.actions[i].kind \in MineKinds
    BY <2>3 DEF MineNodeOK
  <2>7. /\ t \in Positions
        /\ CellAfter(n.actions, Len(n.actions), t) = "air" \/ InReach(n.foot, t)
    BY <2>3, PlannedTargetFacts
  <2>8. CellAfter(n.actions, Len(n.actions), t)' = CellAfter(n.actions, Len(n.actions), t)
    <3>1. Cell(n, t)' = Cell(n, t)
      BY DEF Cell, Block
    <3> QED BY <2>3, <2>4, <3>1 DEF NodeOK, MineNodeOK
  <2>9. LeadsToTarget(search.plan)'
    BY <2>2, <2>5, <2>6, <2>7, <2>8 DEF LeadsToTarget
  <2> QED BY <1>2, <2>1, <2>9 DEF MineFinds
<1>6. ASSUME NEW n \in search.open, search.status = "searching",
             search' = [search EXCEPT !.expanded = @ + 1,
                                         !.open = MineGrown(n, targets).open,
                                         !.visited = MineGrown(n, targets).visited]
      PROVE  MineFinds'
  <2>1. search'.open = MineGrown(n, targets).open /\ search'.status = "searching"
    BY <1>6 DEF IsSearch, SearchFields
  <2>2. \A m \in search'.open : MineNodeOK(m)
    BY <2>1, MineGrownNodes DEF MineFinds
  <2>3. \A m \in search'.open : MineNodeOK(m)'
    BY <1>4, <2>2
  <2> QED BY <1>2, <2>1, <2>3 DEF MineFinds
<1>7. CASE MineNoPath
  <2>1. search'.open = {} /\ search'.status = "failed"
    BY <1>7 DEF MineNoPath, IsSearch, SearchFields
  <2> QED BY <1>2, <2>1 DEF MineFinds
<1> QED BY <1>5, <1>6, <1>7 DEF MineExpandNode

(* Its first node.                                                         *)
LEMMA FirstMineSearch ==
  ASSUME NEW p \in Positions, search' = MineSearchFrom(p)
  PROVE  IsSearch(search') /\ search'.status = "searching" /\ MineFinds'
<1>1. /\ IsSearch(search') /\ search'.start = p /\ search'.status = "searching"
      /\ search'.open = {StartNode(p)}
  BY DEF MineSearchFrom, SearchFrom, IsSearch, SearchFields
<1>2. NodeOK(StartNode(p))'
  <2>1. (search.start = p)'
    BY <1>1
  <2> QED BY <2>1, StartIsOK, PTL
<1>3. MineNodeOK(StartNode(p))'
  <2>1. StartNode(p).actions = << >> /\ DOMAIN << >> = {}
    BY DEF StartNode
  <2> QED BY <1>2, <2>1 DEF MineNodeOK
<1> QED BY <1>1, <1>3 DEF MineFinds

-----------------------------------------------------------------------------
(***************************************************************************)
(* What a navigation executes.                                             *)
(***************************************************************************)

WalkKinds == {"centre", "dig", "move", "drop", "place", "settle"}
MinerKinds == {"begin", "mineDig", "move", "drop", "end", "check", "finalDig"}
WalkOps == [kind : WalkKinds, to : Positions]
MinerOps ==
  {op \in [kind : MinerKinds, to : Positions \cup Seq(Positions)] :
     IF op.kind \in {"begin", "end"} THEN op.to \in Seq(Positions) ELSE op.to \in Positions}

(* Where the execution of an operation can be.                             *)
PcFits(kind, pc) ==
  \/ pc = "start"
  \/ kind \in DIGS /\ pc \in {"aim", "watch"}
  \/ kind = "move" /\ pc \in {"path", "keys"}
  \/ kind \in {"drop", "settle"} /\ pc \in {"height", "keys"}
  \/ kind = "place" /\ pc \in {"try", "placing", "placed", "missed", "clear", "clearing"}
NavFits(n) ==
  n.status = "acting" /\ n.ops # << >> =>
    /\ PcFits(Head(n.ops).kind, n.pc)
    /\ Head(n.ops).kind = "place" /\ n.pc # "start" => n.at \in Positions

(* A step of an execution ends it, ends an operation of a walk or goes on  *)
(* with the operation.                                                     *)
EndsOp == Acting /\ nav.ops # << >> /\ CurrentOp.kind \in WalkKinds /\ nav' = OpDone(nav)
GoesOnWithOp ==
  /\ Acting /\ nav.ops # << >> /\ nav'.status = "acting" /\ nav'.ops = nav.ops
  /\ PcFits(CurrentOp.kind, nav'.pc) /\ (CurrentOp.kind = "place" => nav'.at \in Positions)
  /\ CurrentOp.kind \in WalkKinds
       \/ (nav.pc = "aim" /\ nav'.pc = "watch" /\ nav'.seen = nav.seen)

(* What each step of goTo's execution does to the operation.               *)
LEMMA ExecuteMoves ==
  ASSUME IsNavigation(nav), NavFits(nav), foot \in Positions, Execute
  PROVE  \/ StartActing
         \/ foot' = foot /\ (nav'.status # "acting" \/ EndsOp \/ GoesOnWithOp)
<1> DEFINE Moves == foot' = foot /\ (nav'.status # "acting" \/ EndsOp \/ GoesOnWithOp)
<1> USE DEF IsNavigation, Fields, In, Acting, EndsOp, GoesOnWithOp, CurrentOp, PcFits, WalkKinds
<1>1. SeesAbort => Moves
  BY DEF SeesAbort, Throw, OpDone
<1>2. Finish => Moves
  BY DEF Finish, Throw, OpDone
<1>3. RouteNotFound => Moves
  BY DEF RouteNotFound, Throw, OpDone
<1>4. DigReads => Moves
  BY DEF DigReads, Throw, OpDone, DIGS, NavFits
<1>5. DigStarts => Moves
  BY DEF DigStarts, Throw, OpDone, DIGS, NavFits
<1>6. DigWatches => Moves
  BY DEF DigWatches, Throw, OpDone, DIGS, NavFits
<1>7. MoveStarts => Moves
  BY DEF MoveStarts, Throw, OpDone
<1>8. PathfinderEnds => Moves
  BY DEF PathfinderEnds, Throw, OpDone
<1>9. StepToFoot => Moves
  BY DEF StepToFoot, Throw, OpDone, NavFits
<1>10. DropStarts => Moves
  BY DEF DropStarts, Throw, OpDone, NavFits
<1>11. HeightReached => Moves
  BY DEF HeightReached, Throw, OpDone, NavFits
<1>12. Centre => Moves
  BY DEF Centre, Throw, OpDone
<1>13. PlaceStarts => Moves
  BY DEF PlaceStarts, Throw, OpDone, NavFits
<1>14. PlaceTries => Moves
  BY DEF PlaceTries, Throw, OpDone, NavFits
<1>15. PlaceAsks => Moves
  BY DEF PlaceAsks, Throw, OpDone, NavFits
<1>16. PlaceSucceeds => Moves
  BY DEF PlaceSucceeds, Throw, OpDone, NavFits
<1>17. PlaceFails => Moves
  BY DEF PlaceFails, Throw, OpDone, NavFits
<1>18. PlaceMissed => Moves
  BY DEF PlaceMissed, Throw, OpDone, NavFits
<1>19. PlaceClears => Moves
  BY DEF PlaceClears, Throw, OpDone, NavFits
<1>20. PlaceCleared => Moves
  BY DEF PlaceCleared, Throw, OpDone, NavFits
<1> QED BY <1>1, <1>2, <1>3, <1>4, <1>5, <1>6, <1>7, <1>8, <1>9, <1>10, <1>11, <1>12, <1>13, <1>14, <1>15, <1>16, <1>17, <1>18, <1>19, <1>20 DEF Execute

-----------------------------------------------------------------------------
(***************************************************************************)
(* The miner's plans.                                                      *)
(***************************************************************************)

MineFields ==
  {"pc", "supplied", "attempts", "minedCount", "lastCollected", "stagnant", "targets", "planned",
   "feet", "left", "from", "error"}
IsMine(m) == m = [field \in MineFields |-> m[field]]

MineShape == AbortInv /\ IsSearch(search) /\ IsMine(mine)
Places == foot \in Positions /\ DOMAIN world \subseteq Positions

(* A miner walks its own plan or, going nearer, a way of goTo.             *)
Walking ==
  /\ NavFits(nav)
  /\ Acting => \/ mine.pc = "act" /\ nav.ops \in Seq(MinerOps)
               \/ mine.pc = "navigate" /\ nav.ops \in Seq(WalkOps)

(* What its searches found.  Between them `search` is the miner's last, or *)
(* the one the call found, which ended where it began.                     *)
AtTheGoal ==
  /\ search.start \in Positions /\ search.plan.actions = << >>
  /\ search.plan.finalFoot = search.start /\ IsGoal(search.plan.finalFoot)
Found ==
  /\ mine.pc = "plan" => MineFinds /\ mine.targets \subseteq Positions
  /\ mine.pc = "act" => "target" \in DOMAIN search.plan
  /\ mine.pc = "navigate" /\ Planning => Finds
  /\ Planning /\ mine.pc # "navigate" /\ search.status = "solved"
       /\ "target" \notin DOMAIN search.plan => AtTheGoal

MinerInv == MineShape /\ Places /\ Walking /\ Found

(* The search of a miner or of goTo takes a step.                          *)
LEMMA SearchesKeep ==
  ASSUME MinerInv, AbortInv', Searches
  PROVE  MinerInv'
<1> USE DEF MinerInv
<1>1. CASE MinePlans
  <2>1. /\ mine.pc = "plan" /\ UNCHANGED <<world, foot, nav, mine, targetFoot>>
        /\ MineExpandNode(mine.targets) \/ MineNoPath
    BY <1>1 DEF MinePlans, navVars, mineVars
  <2>2. IsSearch(search')
    BY <2>1, MineSearchKeepsItsShape DEF MineShape
  <2>3. MineFinds'
    BY <2>1, MineSearchFinds DEF MineShape, Found
  <2>4. MineShape' /\ Places' /\ Walking'
    BY <2>1, <2>2 DEF MineShape, Places, Walking, Acting
  <2>5. Found'
    BY <2>1, <2>3 DEF Found, MineFinds, LeadsToTarget
  <2> QED BY <2>4, <2>5
<1>2. CASE RoutePlans
  <2>1. /\ mine.pc = "navigate" /\ Planning /\ SearchStep /\ UNCHANGED <<foot, nav, mine>>
        /\ world' = world
    BY <1>2 DEF RoutePlans, Plan, navVars, mineVars, SearchStep, ExpandNode, EndPhase
  <2>2. IsSearch(search') /\ Finds'
    BY <2>1, SearchKeepsItsShape, SearchStepFinds DEF MineShape, Found
  <2>3. MineShape' /\ Places' /\ Walking'
    BY <2>1, <2>2 DEF MineShape, Places, Walking, Acting
  <2>4. Found'
    BY <2>1, <2>2 DEF Found
  <2> QED BY <2>3, <2>4
<1> QED BY <1>1, <1>2 DEF Searches

(* The miner looks for targets and begins a search.                        *)
LEMMA ScanKeeps ==
  ASSUME MinerInv, AbortInv', MineScan
  PROVE  MinerInv'
<1> USE DEF MinerInv
<1>1. mine.pc = "scan" /\ UNCHANGED <<world, foot, nav, targetFoot>>
  BY DEF MineScan
<1>2. ~ Acting /\ Places' /\ Walking'
  BY <1>1 DEF Places, Walking, Acting
<1>3. Candidates \subseteq Positions
  <2>1. \A p : Block(p) = "ore" => p \in DOMAIN world
    BY DEF Block, ReadBlockAt
  <2> QED BY <2>1 DEF Candidates, IsTarget, Places
<1>4. \/ search' = search /\ IsMine(mine') /\ mine'.pc = "failed"
      \/ /\ search' = MineSearchFrom(foot) /\ IsMine(mine')
         /\ mine'.pc = "failed" \/ (mine'.pc = "plan" /\ mine'.targets = Candidates)
  BY DEF MineScan, Fails, MineShape, IsMine, MineFields
<1>5. CASE search' = search /\ IsMine(mine') /\ mine'.pc = "failed"
  <2>1. AtTheGoal' <=> AtTheGoal
    BY <1>1, <1>5 DEF AtTheGoal, IsGoal, HorizontalMiss, VerticalMiss
  <2>2. Found'
    BY <1>1, <1>5, <2>1 DEF Found, Planning
  <2> QED BY <1>2, <1>5, <2>2 DEF MineShape
<1>6. CASE /\ search' = MineSearchFrom(foot) /\ IsMine(mine')
           /\ mine'.pc = "failed" \/ (mine'.pc = "plan" /\ mine'.targets = Candidates)
  <2>1. IsSearch(search') /\ search'.status = "searching" /\ MineFinds'
    BY <1>6, FirstMineSearch DEF Places
  <2>2. Found'
    BY <1>3, <1>6, <2>1 DEF Found
  <2> QED BY <1>2, <1>6, <2>1, <2>2 DEF MineShape
<1> QED BY <1>4, <1>5, <1>6

(* The operations of a plan.                                               *)
LEMMA OpsOfAMiner ==
  ASSUME NEW actions \in Seq(Actions), NEW end \in Positions, NEW target \in Positions
  PROVE  /\ \A i \in DOMAIN actions : MineScript(actions[i]) \in Seq(MinerOps)
         /\ FlattenSeq([i \in DOMAIN actions |-> MineScript(actions[i])]) \in Seq(MinerOps)
         /\ <<Op("check", end), Op("finalDig", target)>> \in Seq(MinerOps)
<1>1. ASSUME NEW a \in Actions PROVE MineScript(a) \in Seq(MinerOps)
  <2>1. a.digs \in Seq(Positions) /\ a.toFoot \in Positions
    BY DEF Actions
  <2>2. Op("begin", a.digs) \in MinerOps
    BY <2>1 DEF Op, MinerOps, MinerKinds
  <2>3. ASSUME NEW i \in DOMAIN a.digs PROVE Op("mineDig", a.digs[i]) \in MinerOps
    <3>1. a.digs[i] \in Positions
      BY <2>1
    <3> QED BY <3>1 DEF Op, MinerOps, MinerKinds
  <2>4. [i \in DOMAIN a.digs |-> Op("mineDig", a.digs[i])] \in Seq(MinerOps)
    <3>1. DOMAIN a.digs = 1 .. Len(a.digs) /\ Len(a.digs) \in Nat
      BY <2>1
    <3> QED BY <2>3, <3>1
  <2>5. ASSUME NEW kind \in {"drop", "move"} PROVE Op(kind, a.toFoot) \in MinerOps
    BY <2>1 DEF Op, MinerOps, MinerKinds
  <2>6. Op("end", << >>) \in MinerOps
    <3>1. << >> \in Seq(Positions)
      OBVIOUS
    <3> QED BY <3>1 DEF Op, MinerOps, MinerKinds
  <2> HIDE DEF MinerOps, Op
  <2>7. <<Op("begin", a.digs)>> \in Seq(MinerOps)
    BY <2>2
  <2>8. \A kind \in {"drop", "move"} : <<Op(kind, a.toFoot), Op("end", << >>)>> \in Seq(MinerOps)
    BY <2>5, <2>6
  <2> QED BY <2>4, <2>7, <2>8 DEF MineScript
<1>2. ASSUME NEW i \in DOMAIN actions PROVE MineScript(actions[i]) \in Seq(MinerOps)
  <2>1. actions[i] \in Actions
    OBVIOUS
  <2> QED BY <1>1, <2>1
<1>3. [i \in DOMAIN actions |-> MineScript(actions[i])] \in Seq(Seq(MinerOps))
  <2>1. DOMAIN actions = 1 .. Len(actions) /\ Len(actions) \in Nat
    OBVIOUS
  <2> QED BY <1>2, <2>1
<1>4. FlattenSeq([i \in DOMAIN actions |-> MineScript(actions[i])]) \in Seq(MinerOps)
  BY <1>3, FlattenTypes
<1>5. Op("check", end) \in MinerOps /\ Op("finalDig", target) \in MinerOps
  BY DEF Op, MinerOps, MinerKinds
<1>6. <<Op("check", end), Op("finalDig", target)>> \in Seq(MinerOps)
  <2> HIDE DEF MinerOps, Op
  <2> QED BY <1>5
<1> QED BY <1>2, <1>4, <1>6

(* The operations of an action.                                            *)
LEMMA ScriptTypes ==
  ASSUME NEW a \in Actions, foot \in Positions
  PROVE  Script(a) \in Seq(WalkOps)
<1> DEFINE last == CASE a.kind \in {"walk", "jumpUp", "digWalk", "digStepUp"} -> "move"
                     [] a.kind \in {"drop1", "digStepDown"} -> "drop"
                     [] a.kind = "placeUp1" -> "place"
                     [] a.kind = "digDropSelfPlaced" -> "settle"
           digs == [i \in DOMAIN a.digs |-> Op("dig", a.digs[i])]
           first == IF a.kind = "digDropSelfPlaced" THEN <<Op("centre", foot)>> ELSE << >>
<1>1. a.digs \in Seq(Positions) /\ a.toFoot \in Positions /\ a.kind \in Kinds
  BY DEF Actions
<1>2. last \in WalkKinds
  BY <1>1 DEF Kinds, WalkKinds
<1>3. ASSUME NEW i \in DOMAIN a.digs PROVE Op("dig", a.digs[i]) \in WalkOps
  <2>1. a.digs[i] \in Positions
    BY <1>1
  <2> QED BY <2>1 DEF Op, WalkOps, WalkKinds
<1>4. digs \in Seq(WalkOps)
  <2>1. DOMAIN a.digs = 1 .. Len(a.digs) /\ Len(a.digs) \in Nat
    BY <1>1
  <2> QED BY <1>3, <2>1
<1>5. Op("centre", foot) \in WalkOps
  BY DEF Op, WalkOps, WalkKinds
<1>6. first \in Seq(WalkOps)
  <2> HIDE DEF Op, WalkOps
  <2> QED BY <1>5
<1>7. Op(last, a.toFoot) \in WalkOps
  <2> HIDE DEF last
  <2> QED BY <1>1, <1>2 DEF Op, WalkOps
<1>8. <<Op(last, a.toFoot)>> \in Seq(WalkOps)
  <2> HIDE DEF Op, WalkOps, last
  <2> QED BY <1>7
<1>9. Script(a) = first \o digs \o <<Op(last, a.toFoot)>>
  BY DEF Script
<1> HIDE DEF first, digs, last
<1> QED BY <1>4, <1>6, <1>8, <1>9

(* The operations of a way of goTo.                                        *)
LEMMA OpsOfAWalk ==
  ASSUME NEW actions \in Seq(Actions), foot \in Positions
  PROVE  FlattenSeq([i \in DOMAIN actions |-> Script(actions[i])]) \in Seq(WalkOps)
<1>1. ASSUME NEW i \in DOMAIN actions PROVE Script(actions[i]) \in Seq(WalkOps)
  <2>1. actions[i] \in Actions
    OBVIOUS
  <2> QED BY <2>1, ScriptTypes
<1>2. [i \in DOMAIN actions |-> Script(actions[i])] \in Seq(Seq(WalkOps))
  <2>1. DOMAIN actions = 1 .. Len(actions) /\ Len(actions) \in Nat
    OBVIOUS
  <2> QED BY <1>1, <2>1
<1> QED BY <1>2, FlattenTypes

(* The steps of a walk under way: what is left of it is left.              *)
LEMMA SequencesLeft ==
  ASSUME NEW S, NEW s \in Seq(S), s # << >>
  PROVE  Tail(s) \in Seq(S) /\ Head(s) \in S
OBVIOUS

(* What a navigation is after an operation, and after an error.            *)
LEMMA ShapesLeft ==
  ASSUME IsNavigation(nav)
  PROVE  /\ OpDone(nav).ops = Tail(nav.ops) /\ OpDone(nav).pc = "start"
         /\ OpDone(nav).status = nav.status
         /\ Throw(nav).status = "failed"
BY DEF OpDone, Throw, IsNavigation, Fields

(* A step that ends the walk or goes on with it changes nothing of what    *)
(* was found.                                                              *)
LEMMA WalkKeeps ==
  ASSUME MinerInv, AbortInv', UNCHANGED <<world, foot, search, targetFoot>>,
         mine.pc \in {"act", "navigate"}, mine'.pc = mine.pc, IsMine(mine'), Acting,
         \/ nav'.status \notin {"acting", "planning"}
         \/ nav.ops # << >> /\ nav' = OpDone(nav)
         \/ nav.ops # << >> /\ nav'.status = "acting" /\ nav'.ops = nav.ops /\ NavFits(nav')
  PROVE  MinerInv'
<1> USE DEF MinerInv
<1>1. MineShape' /\ Places'
  BY DEF MineShape, Places
<1>2. Found'
  <2>1. nav'.status # "planning"
    BY ShapesLeft DEF MineShape, AbortInv, Acting
  <2>2. mine'.pc # "plan" /\ ~ Planning' /\ (mine.pc = "act" => "target" \in DOMAIN search.plan)
    BY <2>1 DEF Planning, Found
  <2> QED BY <2>2 DEF Found
<1>3. Walking'
  <2>1. CASE nav'.status \notin {"acting", "planning"}
    BY <2>1 DEF Walking, Acting, NavFits
  <2>2. CASE nav.ops # << >> /\ nav' = OpDone(nav)
    <3>1. nav'.ops = Tail(nav.ops) /\ nav'.pc = "start"
      BY <2>2, ShapesLeft DEF MineShape, AbortInv
    <3>2. NavFits(nav')
      BY <3>1 DEF NavFits, PcFits
    <3>3. \/ mine.pc = "act" /\ nav'.ops \in Seq(MinerOps)
          \/ mine.pc = "navigate" /\ nav'.ops \in Seq(WalkOps)
      BY <2>2, <3>1, SequencesLeft DEF Walking
    <3> QED BY <3>2, <3>3 DEF Walking, NavFits
  <2>3. CASE nav.ops # << >> /\ nav'.status = "acting" /\ nav'.ops = nav.ops /\ NavFits(nav')
    BY <2>3 DEF Walking, NavFits
  <2> QED BY <2>1, <2>2, <2>3
<1> QED BY <1>1, <1>2, <1>3

(* The steps of goTo's execution, in a walk of the miner's or nearer to    *)
(* its targets.                                                            *)
LEMMA ExecuteOfMine ==
  ASSUME MinerInv, AbortInv', Execute, ~ StartActing, ~ RouteNotFound,
         mine.pc \in {"act", "navigate"}, UNCHANGED mineVars
  PROVE  MinerInv'
<1> USE DEF MinerInv
<1>1. UNCHANGED <<world, search, targetFoot>> /\ nav'.status # "planning"
  BY ExecuteKeeps DEF MineShape, AbortInv
<1>2. foot' = foot /\ (nav'.status # "acting" \/ EndsOp \/ GoesOnWithOp)
  BY ExecuteMoves DEF MineShape, AbortInv, Walking, Places
<1>3. Acting
  BY DEF Execute, SeesAbort, Finish, DigReads, DigStarts, DigWatches, MoveStarts, PathfinderEnds,
         StepToFoot, DropStarts, HeightReached, Centre, PlaceStarts, PlaceTries, PlaceAsks,
         PlaceSucceeds, PlaceFails, PlaceMissed, PlaceClears, PlaceCleared, In
<1>4. mine' = mine
  BY DEF mineVars
<1>5. IsMine(mine') /\ mine'.pc = mine.pc
  BY <1>4 DEF MineShape
<1>6. GoesOnWithOp => /\ nav.ops # << >> /\ nav'.status = "acting" /\ nav'.ops = nav.ops
                      /\ NavFits(nav')
  BY DEF GoesOnWithOp, NavFits, CurrentOp
<1>7. EndsOp => nav.ops # << >> /\ nav' = OpDone(nav)
  BY DEF EndsOp
<1> QED BY <1>1, <1>2, <1>3, <1>5, <1>6, <1>7, WalkKeeps

(* The operations of a plan of the miner, which only it executes.          *)
LEMMA ActsOfMine ==
  ASSUME MinerInv, AbortInv',
         MineBegins \/ MineEnds \/ MineChecks \/ MineDigReads \/ FinalReads \/ MineWatches
  PROVE  MinerInv' /\ mine.pc = "act"
<1> USE DEF MinerInv
<1>1. UNCHANGED <<world, foot, search, targetFoot>>
  BY DEF MineBegins, MineEnds, MineChecks, MineDigReads, FinalReads, MineWatches, routeVars
<1>2. /\ Acting /\ nav.ops # << >>
      /\ CurrentOp.kind \in {"begin", "end", "check", "mineDig", "finalDig"}
  BY DEF MineBegins, MineEnds, MineChecks, MineDigReads, FinalReads, MineWatches, In
<1>3. mine.pc = "act"
  <2>1. ASSUME nav.ops \in Seq(WalkOps) PROVE FALSE
    <3>1. CurrentOp \in WalkOps
      BY <1>2, <2>1, SequencesLeft DEF CurrentOp
    <3> QED BY <1>2, <3>1 DEF WalkOps, WalkKinds
  <2> QED BY <1>2, <2>1 DEF Walking
<1>4. IsMine(mine') /\ mine'.pc = mine.pc
  BY DEF MineBegins, MineEnds, MineChecks, MineDigReads, FinalReads, MineWatches, MineShape,
         IsMine, MineFields, mineVars
<1>5. \/ nav'.status = "failed"
      \/ nav' = OpDone(nav)
      \/ nav'.status = "acting" /\ nav'.ops = nav.ops /\ NavFits(nav')
  <2> USE <1>2 DEF Acting
  <2>1. IsNavigation(nav)
    BY DEF MineShape, AbortInv
  <2>2. Throw(nav).status = "failed"
    BY <2>1, ShapesLeft
  <2>3. CASE MineBegins \/ MineEnds \/ MineChecks
    BY <2>2, <2>3 DEF MineBegins, MineEnds, MineChecks
  <2>4. CASE MineWatches
    BY <2>2, <2>4 DEF MineWatches
  <2>5. ASSUME NEW seen, nav' = [nav EXCEPT !.pc = "aim", !.seen = seen],
               CurrentOp.kind \in {"mineDig", "finalDig"}
        PROVE  nav'.status = "acting" /\ nav'.ops = nav.ops /\ NavFits(nav')
    <3>1. nav'.status = "acting" /\ nav'.ops = nav.ops /\ nav'.pc = "aim"
      BY <2>1, <2>5 DEF IsNavigation, Fields
    <3> QED BY <2>5, <3>1 DEF NavFits, PcFits, DIGS, CurrentOp
  <2>6. CASE MineDigReads
    BY <2>2, <2>5, <2>6 DEF MineDigReads, In
  <2>7. CASE FinalReads
    BY <2>2, <2>5, <2>7 DEF FinalReads, In
  <2> QED BY <2>3, <2>4, <2>6, <2>7
<1>6. MinerInv'
  BY <1>1, <1>2, <1>3, <1>4, <1>5, WalkKeeps
<1> QED BY <1>3, <1>6

(* The execution of a plan begins.                                         *)
LEMMA StartsKeep ==
  ASSUME MinerInv, AbortInv', MineStarts
  PROVE  MinerInv'
<1> USE DEF MinerInv
<1> DEFINE plan == search.plan
           ops == FlattenSeq([i \in DOMAIN search.plan.actions |->
                                     MineScript(search.plan.actions[i])])
                         \o <<Op("check", search.plan.finalFoot),
                              Op("finalDig", search.plan.target)>>
<1>1. LeadsToTarget(search.plan)
  BY DEF MineStarts, Found, MineFinds
<1>2. ops \in Seq(MinerOps)
  BY <1>1, OpsOfAMiner DEF LeadsToTarget, LeadsThere
<1>3. /\ nav' = [Begun EXCEPT !.status = "acting", !.ops = ops]
      /\ mine' = [mine EXCEPT !.pc = "act"]
      /\ UNCHANGED <<world, foot, search, targetFoot>>
  BY DEF MineStarts, routeVars
<1> HIDE DEF ops
<1>4. nav'.status = "acting" /\ nav'.ops = ops /\ nav'.pc = "start"
  BY <1>3 DEF Idle, Begun
<1>5. IsMine(mine') /\ mine'.pc = "act"
  BY <1>3 DEF MineShape, IsMine, MineFields
<1>6. MineShape' /\ Places'
  BY <1>3, <1>5 DEF MineShape, Places
<1>7. Walking'
  BY <1>2, <1>4, <1>5 DEF Walking, NavFits, PcFits
<1>8. Found'
  BY <1>1, <1>3, <1>4, <1>5 DEF Found, Planning, LeadsToTarget
<1> QED BY <1>6, <1>7, <1>8

(* The ends of rounds and calls, and what comes between the approaches.    *)
LEMMA RoundsKeep ==
  ASSUME MinerInv, AbortInv',
         \/ MineStepFails \/ MineRoundEnds \/ MineSettles \/ ApproachBegins \/ Approach
         \/ ApproachEnds \/ NoApproach
  PROVE  MinerInv'
<1> USE DEF MinerInv
<1>1. CASE MineStepFails \/ MineSettles \/ ApproachBegins \/ ApproachEnds \/ NoApproach
  <2>1. UNCHANGED <<world, foot, search, targetFoot, nav>>
    BY <1>1 DEF MineStepFails, MineSettles, ApproachBegins, ApproachEnds, NoApproach, vars,
                navVars, routeVars
  <2>2. IsMine(mine')
    BY <1>1 DEF MineStepFails, MineSettles, ApproachBegins, ApproachEnds, NoApproach, Fails,
                MineShape, IsMine, MineFields
  <2>3. mine'.pc \notin {"plan", "act", "navigate"}
    BY <1>1 DEF MineStepFails, MineSettles, ApproachBegins, ApproachEnds, NoApproach, Fails,
                MineShape, IsMine, MineFields
  <2>4. ~ Acting
    BY <1>1 DEF MineStepFails, MineSettles, ApproachBegins, ApproachEnds, NoApproach, Walking,
                Acting
  <2>5. Planning /\ search.status = "solved" => mine.pc # "navigate"
    BY <1>1 DEF MineStepFails, MineSettles, ApproachBegins, ApproachEnds, NoApproach, Planning
  <2>6. MineShape' /\ Places' /\ Walking'
    BY <2>1, <2>2, <2>4 DEF MineShape, Places, Walking, Acting
  <2>7. AtTheGoal' <=> AtTheGoal
    BY <2>1 DEF AtTheGoal, IsGoal, HorizontalMiss, VerticalMiss
  <2>8. Found'
    BY <2>1, <2>3, <2>5, <2>7 DEF Found, Planning
  <2> QED BY <2>6, <2>8
<1>2. CASE MineRoundEnds
  <2>1. UNCHANGED <<world, foot, search, targetFoot>> /\ nav' = Begun /\ mine.pc = "act"
    BY <1>2 DEF MineRoundEnds, routeVars
  <2>2. IsMine(mine') /\ mine'.pc \in {"settle", "scan"}
    BY <1>2 DEF MineRoundEnds, MineShape, IsMine, MineFields
  <2>3. MineShape' /\ Places' /\ Walking'
    BY <2>1, <2>2, IdleFacts DEF MineShape, Places, Walking, Acting, NavFits
  <2>4. Found'
    BY <2>1, <2>2 DEF Found
  <2> QED BY <2>3, <2>4
<1>3. CASE Approach
  <2>1. /\ UNCHANGED <<world, foot>> /\ nav' = Begun /\ search' = SearchFrom(foot, 1, 0)
    BY <1>3 DEF Approach
  <2>2. IsMine(mine') /\ mine'.pc \in {"approach", "navigate"}
    BY <1>3 DEF Approach, MineShape, IsMine, MineFields
  <2>3. /\ IsSearch(search') /\ search'.start = foot /\ search'.status = "searching"
        /\ search'.open = {StartNode(foot)}
    BY <2>1, FirstSearch DEF Places
  <2>4. \A n \in search'.open : NodeOK(n)'
    <3>1. PICK p \in Positions : p = foot
      BY DEF Places
    <3>2. (search.start = p)'
      BY <2>3, <3>1
    <3>3. NodeOK(StartNode(p))'
      BY <3>2, StartIsOK, PTL
    <3>4. \A n \in search'.open : n = StartNode(p)
      BY <2>3, <3>1
    <3> QED BY <3>3, <3>4
  <2>5. Finds'
    BY <2>3, <2>4 DEF Finds, Places
  <2>6. MineShape' /\ Places' /\ Walking'
    BY <2>1, <2>2, <2>3, IdleFacts DEF MineShape, Places, Walking, Acting, NavFits
  <2>7. Found'
    BY <2>2, <2>3, <2>5 DEF Found
  <2> QED BY <2>6, <2>7
<1> QED BY <1>1, <1>2, <1>3

(* The miner goes nearer to its targets.                                   *)
LEMMA NavigatesKeep ==
  ASSUME MinerInv, AbortInv', Navigates
  PROVE  MinerInv'
<1> USE DEF MinerInv
<1>1. mine.pc = "navigate" /\ Execute /\ UNCHANGED mineVars
  BY DEF Navigates
<1>2. UNCHANGED <<world, search, targetFoot>> /\ nav'.status # "planning"
  BY <1>1, ExecuteKeeps DEF MineShape, AbortInv
<1>3. mine' = mine
  BY <1>1 DEF mineVars
<1>4. CASE StartActing
  <2> DEFINE ops == FlattenSeq([i \in DOMAIN search.plan.actions |-> Script(search.plan.actions[i])])
  <2>1. Planning /\ search.status = "solved" /\ foot' = foot
        /\ nav' = [nav EXCEPT !.status = "acting", !.ops = ops]
    BY <1>4 DEF StartActing, Planning
  <2>2. search.plan.actions \in Seq(Actions)
    BY <1>1, <2>1 DEF Found, Finds, LeadsThere
  <2>3. ops \in Seq(WalkOps)
    BY <2>2, OpsOfAWalk DEF Places
  <2> HIDE DEF ops
  <2>4. nav'.status = "acting" /\ nav'.ops = ops /\ nav'.pc = "start"
    BY <2>1 DEF MineShape, AbortInv, IsNavigation, Fields, Planning
  <2>5. MineShape' /\ Places'
    BY <1>2, <1>3, <2>1 DEF MineShape, Places
  <2>6. Walking'
    BY <1>1, <1>3, <2>3, <2>4 DEF Walking, NavFits, PcFits
  <2>7. Found'
    BY <1>1, <1>2, <1>3 DEF Found, Planning
  <2> QED BY <2>5, <2>6, <2>7
<1>5. CASE RouteNotFound
  <2>1. nav'.status = "failed" /\ foot' = foot
    BY <1>5 DEF RouteNotFound, MineShape, AbortInv, IsNavigation, Fields
  <2>2. MineShape' /\ Places' /\ Walking'
    BY <1>2, <1>3, <2>1 DEF MineShape, Places, Walking, Acting, NavFits
  <2>3. Found'
    BY <1>1, <1>2, <1>3 DEF Found, Planning
  <2> QED BY <2>2, <2>3
<1>6. CASE ~ StartActing /\ ~ RouteNotFound
  BY <1>1, <1>6, ExecuteOfMine
<1> QED BY <1>4, <1>5, <1>6

(* The steps of its walk that goTo has too.                                *)
LEMMA WalksKeep ==
  ASSUME MinerInv, AbortInv', MineWalks
  PROVE  MinerInv'
<1>1. mine.pc = "act" /\ Execute /\ UNCHANGED mineVars
  BY DEF MineWalks, Execute
<1>2. Acting
  BY DEF MineWalks, DigStarts, MoveStarts, PathfinderEnds, StepToFoot, DropStarts, HeightReached,
         SeesAbort, In
<1>3. ~ StartActing /\ ~ RouteNotFound
  BY <1>2 DEF StartActing, RouteNotFound, Acting
<1> QED BY <1>1, <1>3, ExecuteOfMine

(* The server, the others and the abort.                                   *)
LEMMA AroundKeeps ==
  ASSUME MinerInv, AbortInv', MineAround
  PROVE  MinerInv'
<1> USE DEF MinerInv
<1>1. UNCHANGED <<search, nav, mine, targetFoot>>
  BY DEF MineAround, MineDigLands, DigLands, PicksUp, BotMoves, Falls, PlaceLands, PendingLost,
         Abort, OthersChangeBlock, OthersPush, mineVars, vars, routeVars, navVars
<1>2. DOMAIN world' = DOMAIN world
  BY DEF MineAround, MineDigLands, DigLands, PicksUp, BotMoves, Falls, PlaceLands, PendingLost,
         Abort, OthersChangeBlock, OthersPush, vars, routeVars
<1>3. foot' \in Positions
  <2>1. CASE BotMoves
    <3>1. foot' = Heading /\ Acting /\ nav.ops # << >> /\ nav.pc # "start"
      BY <2>1 DEF BotMoves, HeadsSomewhere
    <3>2. CASE CurrentOp.kind = "place"
      <4>1. nav.at \in Positions
        BY <3>1, <3>2 DEF Walking, NavFits, CurrentOp, Acting
      <4> QED BY <3>1, <3>2, <4>1, AboveFacts DEF Heading
    <3>3. CASE CurrentOp.kind # "place"
      <4>1. PcFits(CurrentOp.kind, nav.pc) /\ nav.pc \notin {"start", "aim", "watch"}
        BY <2>1, <3>1 DEF Walking, NavFits, CurrentOp, Acting, BotMoves, HeadsSomewhere
      <4>2. CurrentOp.kind \in {"move", "drop", "settle"}
        BY <3>3, <4>1 DEF PcFits
      <4>3. CurrentOp \in MinerOps \/ CurrentOp \in WalkOps
        BY <3>1, SequencesLeft DEF Walking, CurrentOp
      <4>4. CurrentOp.to \in Positions
        BY <4>2, <4>3 DEF MinerOps, WalkOps
      <4> QED BY <3>1, <3>3, <4>4 DEF Heading
    <3> QED BY <3>2, <3>3
  <2>2. CASE Falls
    <3>1. foot \in Positions /\ -1 \in Int
      BY DEF Places
    <3> QED BY <2>2, <3>1, AboveFacts DEF Falls
  <2>3. CASE PlaceLands
    <3>1. foot \in Positions /\ 1 \in Int
      BY DEF Places
    <3> QED BY <2>3, <3>1, AboveFacts DEF PlaceLands
  <2>4. CASE OthersPush
    <3>1. PICK i \in DOMAIN DIRECTIONS : foot' = Beside(foot, DIR_VEC[DIRECTIONS[i]])
      BY <2>4 DEF OthersPush
    <3>2. DIRECTIONS[i] \in Dirs
      BY Directions
    <3> QED BY <3>1, <3>2, BesideFacts DEF Places
  <2>5. CASE PicksUp \/ MineDigLands \/ PendingLost \/ Abort \/ OthersChangeBlock
    <3>1. foot' = foot
      BY <2>5 DEF MineDigLands, DigLands, PicksUp, PendingLost, Abort, OthersChangeBlock, vars,
                  navVars
    <3> QED BY <3>1 DEF Places
  <2> QED BY <2>1, <2>2, <2>3, <2>4, <2>5 DEF MineAround
<1>4. MineShape' /\ Places' /\ Walking'
  BY <1>1, <1>2, <1>3 DEF MineShape, Places, Walking, Acting
<1>5. AtTheGoal' <=> AtTheGoal
  BY <1>1 DEF AtTheGoal, IsGoal, HorizontalMiss, VerticalMiss
<1>6. mine.pc # "plan" /\ ~ (mine.pc = "navigate" /\ Planning)
  BY DEF MineAround, Waits
<1>7. Found'
  BY <1>1, <1>5, <1>6 DEF Found, Planning
<1> QED BY <1>4, <1>7

(* Every step keeps the invariant.                                         *)
LEMMA MinerStep == MinerInv /\ [MineNext]_allVars => MinerInv'
<1> SUFFICES ASSUME MinerInv, [MineNext]_allVars PROVE MinerInv'
  OBVIOUS
<1>1. AbortInv'
  BY MineStep DEF MinerInv, MineShape
<1>2. CASE Searches
  BY <1>1, <1>2, SearchesKeep
<1>3. CASE MineActs
  BY <1>1, <1>3, ScanKeeps, StartsKeep, ActsOfMine, WalksKeep, RoundsKeep, NavigatesKeep
     DEF MineActs
<1>4. CASE MineAround
  BY <1>1, <1>4, AroundKeeps
<1>5. CASE UNCHANGED allVars
  <2>1. UNCHANGED <<world, targetFoot, search, foot, nav, mine>>
    BY <1>5 DEF allVars, vars, routeVars, navVars, mineVars
  <2>2. MineFinds => MineFinds'
    <3>1. \A n : NodeOK(n) => NodeOK(n)'
      BY <2>1, SameNode
    <3>2. \A n : MineNodeOK(n) => MineNodeOK(n)'
      BY <3>1 DEF MineNodeOK
    <3>3. LeadsToTarget(search.plan) => LeadsToTarget(search.plan)'
      BY <2>1, SameReplay DEF LeadsToTarget, LeadsThere, InReach, SquareOf, EyeDelta
    <3> QED BY <2>1, <3>2, <3>3 DEF MineFinds
  <2>3. Finds => Finds'
    BY <2>1, StillFinds
  <2>4. AtTheGoal' <=> AtTheGoal
    BY <2>1 DEF AtTheGoal, IsGoal, HorizontalMiss, VerticalMiss
  <2>5. MineShape' /\ Places' /\ Walking'
    BY <1>1, <2>1 DEF MinerInv, MineShape, Places, Walking, Acting
  <2>6. Found'
    BY <2>1, <2>2, <2>3, <2>4 DEF MinerInv, Found, Planning
  <2> QED BY <2>5, <2>6 DEF MinerInv
<1> QED BY <1>2, <1>3, <1>4, <1>5 DEF MineNext

(* A call begins in it.                                                    *)
LEMMA MinerInitially == MineInit => MinerInv
<1> SUFFICES ASSUME MineInit PROVE MinerInv
  OBVIOUS
<1>1. Init /\ nav = Idle
  BY DEF MineInit, Init
<1>2. AbortInv /\ IsSearch(search) /\ Finds /\ foot \in Positions
  BY <1>1, Initially, InitFinds
<1>3. IsMine(mine) /\ mine.pc = "scan"
  BY DEF MineInit, IsMine, MineFields
<1>4. DOMAIN world \subseteq Positions
  BY <1>1, NavigationAssumption DEF Init
<1>5. Walking
  BY <1>1, IdleFacts DEF Walking, NavFits, Acting
<1>6. search.status = "solved" => AtTheGoal
  <2>1. \/ search = SearchFrom(foot, 1, 0)
        \/ /\ IsGoal(foot)
           /\ search = [SearchFrom(foot, 1, 0) EXCEPT !.status = "solved", !.open = {},
                                        !.visited = {}, !.plan.finalFoot = foot]
    BY <1>1 DEF Init, PlanTerrainRoute
  <2>2. CASE search = SearchFrom(foot, 1, 0)
    BY <2>2 DEF SearchFrom
  <2>3. CASE /\ IsGoal(foot)
             /\ search = [SearchFrom(foot, 1, 0) EXCEPT !.status = "solved", !.open = {},
                                        !.visited = {}, !.plan.finalFoot = foot]
    <3>1. /\ search.start = foot /\ search.plan.actions = << >> /\ search.plan.finalFoot = foot
      BY <2>3 DEF SearchFrom, NoPlan
    <3> QED BY <1>2, <2>3, <3>1 DEF AtTheGoal
  <2> QED BY <2>1, <2>2, <2>3
<1> QED BY <1>2, <1>3, <1>4, <1>5, <1>6 DEF MinerInv, MineShape, Places, Found

(* The invariant of the miner.                                             *)
LEMMA MinersInvariant == MineSpec => []MinerInv
BY MinerInitially, MinerStep, PTL DEF MineSpec

(* And so can the ways by which a miner goes nearer to its targets         *)
(* (navigateTowardMineTargets).                                            *)
THEOREM WaysOfMine == MineSpec => []WayIsExecutable
<1>1. ASSUME MinerInv PROVE WayIsExecutable
  <2>1. CASE mine.pc = "navigate"
    BY <1>1, <2>1 DEF MinerInv, Found, Finds, LeadsThere, WayIsExecutable
  <2>2. CASE mine.pc # "navigate"
    <3> SUFFICES ASSUME Planning, search.status = "solved", "target" \notin DOMAIN search.plan
                 PROVE  LeadsThere(search.plan) /\ IsGoal(search.plan.finalFoot)
      BY DEF WayIsExecutable, LeadsThere
    <3>1. AtTheGoal
      BY <1>1, <2>2 DEF MinerInv, Found
    <3> QED BY <3>1, NoWayToGo DEF AtTheGoal
  <2> QED BY <2>1, <2>2
<1> QED BY <1>1, MinersInvariant, PTL

(* A plan of planMiningRoute can be carried out when it is made, and at    *)
(* its end the target is dug or within reach.                              *)
THEOREM PlansOfMine == MineSpec => []MinePlanIsExecutable
<1>1. MinerInv => MinePlanIsExecutable
  BY DEF MinerInv, Found, MineFinds, LeadsToTarget, LeadsThere, MinePlanIsExecutable
<1> QED BY <1>1, MinersInvariant, PTL

-----------------------------------------------------------------------------
(***************************************************************************)
(* What a miner counts.                                                    *)
(***************************************************************************)

(* The operations within an action of a plan, and the digs next to be done *)
(* in it.                                                                  *)
Inner == {"mineDig", "move", "drop", "end"}
Ahead(ops) == {ops[i].to : i \in {j \in DOMAIN ops : \A k \in 1 .. j : ops[k].kind = "mineDig"}}

(* An action begins with all the digs it announces, and ends before what   *)
(* comes next.                                                             *)
WellFormed(ops) ==
  \A i \in DOMAIN ops :
    /\ ops[i].kind \in {"end", "check", "finalDig"} /\ i + 1 \in DOMAIN ops
         => ops[i + 1].kind \notin Inner
    /\ ops[i].kind = "begin" =>
         \A k \in DOMAIN ops[i].to :
           i + k \in DOMAIN ops /\ ops[i + k] = Op("mineDig", ops[i].to[k])
Scripts == {s \in Seq(MinerOps) : WellFormed(s) /\ (s # << >> => s[1].kind \notin Inner)}

(* Two scripts, one after the other, are a script.                         *)
LEMMA ScriptsJoin ==
  ASSUME NEW s \in Scripts, NEW t \in Scripts
  PROVE  s \o t \in Scripts
<1> DEFINE st == s \o t
           n == Len(s)
<1>1. /\ s \in Seq(MinerOps) /\ t \in Seq(MinerOps) /\ WellFormed(s) /\ WellFormed(t)
      /\ t # << >> => t[1].kind \notin Inner
      /\ s # << >> => s[1].kind \notin Inner
  BY DEF Scripts
<1>2. /\ st \in Seq(MinerOps) /\ DOMAIN s = 1 .. n /\ n \in Nat
      /\ DOMAIN t = 1 .. Len(t) /\ Len(t) \in Nat /\ DOMAIN st = 1 .. n + Len(t)
  BY <1>1
<1>3. /\ \A k \in DOMAIN s : st[k] = s[k] /\ k \in DOMAIN st
      /\ \A k \in DOMAIN t : st[n + k] = t[k] /\ n + k \in DOMAIN st
  BY <1>1
<1>4. \A k \in DOMAIN st : k \in DOMAIN s \/ (k - n \in DOMAIN t /\ k = n + (k - n))
  BY <1>2
<1> HIDE DEF st, n
<1>5. ASSUME NEW i \in DOMAIN st, i + 1 \in DOMAIN st,
             st[i].kind \in {"end", "check", "finalDig"}
      PROVE  st[i + 1].kind \notin Inner
  <2>1. CASE i \in DOMAIN s /\ i + 1 \in DOMAIN s
    BY <1>1, <1>3, <1>5, <2>1 DEF WellFormed
  <2>2. CASE i \in DOMAIN s /\ i + 1 \notin DOMAIN s
    <3>1. i + 1 = n + 1 /\ 1 \in DOMAIN t
      BY <1>2, <1>5, <2>2
    <3>2. t # << >>
      BY <1>2, <3>1
    <3> QED BY <1>1, <1>3, <3>1, <3>2
  <2>3. CASE i \notin DOMAIN s
    <3>1. PICK k \in DOMAIN t : i = n + k
      BY <1>4, <2>3
    <3>2. k + 1 \in DOMAIN t /\ i + 1 = n + (k + 1)
      BY <1>2, <1>5, <3>1
    <3>3. st[i] = t[k] /\ st[i + 1] = t[k + 1]
      BY <1>3, <3>1, <3>2
    <3> QED BY <1>1, <1>5, <3>2, <3>3 DEF WellFormed
  <2> QED BY <2>1, <2>2, <2>3
<1>6. ASSUME NEW i \in DOMAIN st, st[i].kind = "begin", NEW k \in DOMAIN st[i].to
      PROVE  i + k \in DOMAIN st /\ st[i + k] = Op("mineDig", st[i].to[k])
  <2>1. CASE i \in DOMAIN s
    BY <1>1, <1>3, <1>6, <2>1 DEF WellFormed
  <2>2. CASE i \notin DOMAIN s
    <3>1. PICK j \in DOMAIN t : i = n + j
      BY <1>4, <2>2
    <3>2. st[i] = t[j]
      BY <1>3, <3>1
    <3>3. j + k \in DOMAIN t /\ t[j + k] = Op("mineDig", t[j].to[k])
      BY <1>1, <1>6, <3>2 DEF WellFormed
    <3>4. i + k = n + (j + k)
      <4>1. t[j].to \in Seq(Positions)
        BY <1>1, <1>6, <3>2 DEF MinerOps
      <4>2. k \in Int
        BY <1>6, <3>2, <4>1
      <4> QED BY <1>2, <3>1, <4>2
    <3> QED BY <1>3, <3>2, <3>3, <3>4
  <2> QED BY <2>1, <2>2
<1>7. WellFormed(st)
  BY <1>5, <1>6 DEF WellFormed
<1>8. st # << >> => st[1].kind \notin Inner
  <2>1. CASE s # << >>
    <3>1. 1 \in DOMAIN s
      BY <1>1, <2>1
    <3> QED BY <1>1, <1>3, <2>1, <3>1
  <2>2. CASE s = << >>
    <3>1. n = 0
      BY <2>2 DEF n
    <3>2. st # << >> => 1 \in DOMAIN t
      BY <1>2, <3>1
    <3>3. 1 \in DOMAIN t => st[1] = t[1] /\ t # << >>
      BY <1>1, <1>2, <1>3, <3>1
    <3> QED BY <1>1, <3>2, <3>3
  <2> QED BY <2>1, <2>2
<1>9. st \in Scripts
  BY <1>2, <1>7, <1>8 DEF Scripts
<1> QED BY <1>9 DEF st

(* Scripts are flattened to a script.                                      *)
LEMMA FlattenScripts ==
  ASSUME NEW seqs \in Seq(Scripts)
  PROVE  FlattenSeq(seqs) \in Scripts
<1>1. Scripts \subseteq Seq(MinerOps)
  BY DEF Scripts
<1>2. seqs \in Seq(Seq(MinerOps)) /\ \A i \in 1 .. Len(seqs) : seqs[i] \in Scripts
  BY <1>1
<1>3. CASE seqs = << >>
  <2>1. FlattenSeq(seqs) = << >>
    BY <1>3 DEF FlattenSeq
  <2>2. << >> \in Seq(MinerOps) /\ DOMAIN << >> = {}
    OBVIOUS
  <2> QED BY <2>1, <2>2 DEF Scripts, WellFormed
<1>4. CASE seqs # << >>
  <2>1. PICK g : /\ g[1] = seqs[1]
                 /\ \A i \in 2 .. Len(seqs) : g[i] = g[i - 1] \o seqs[i]
                 /\ FlattenSeq(seqs) = g[Len(seqs)]
    BY <1>2, <1>4, FlattenSteps
  <2> DEFINE Good == {m \in Nat : g[m] \in Scripts}
  <2>2. Len(seqs) \in Int /\ Len(seqs) \in 1 .. Len(seqs)
    BY <1>4
  <2>3. 1 \in Good
    BY <1>2, <2>1, <2>2
  <2>4. ASSUME NEW m \in 2 .. Len(seqs), m - 1 \in Good PROVE m \in Good
    <3>1. m \in 1 .. Len(seqs) /\ m \in Nat
      BY <2>2
    <3>2. g[m] = g[m - 1] \o seqs[m] /\ seqs[m] \in Scripts
      BY <1>2, <2>1, <3>1
    <3>3. g[m - 1] \in Scripts
      BY <2>4
    <3>4. g[m] \in Scripts
      BY <3>2, <3>3, ScriptsJoin
    <3> QED BY <3>1, <3>4
  <2>5. \A m \in 1 .. Len(seqs) : m \in Good
    <3> HIDE DEF Good
    <3> QED BY <2>2, <2>3, <2>4, ClimbsFromOne
  <2> QED BY <2>1, <2>2, <2>5
<1> QED BY <1>3, <1>4

(* The script of a plan.                                                   *)
LEMMA PlansAreScripts ==
  ASSUME NEW actions \in Seq(Actions), NEW end \in Positions, NEW target \in Positions
  PROVE  FlattenSeq([i \in DOMAIN actions |-> MineScript(actions[i])])
           \o <<Op("check", end), Op("finalDig", target)>> \in Scripts
<1>1. ASSUME NEW a \in Actions PROVE MineScript(a) \in Scripts
  <2> DEFINE n == Len(a.digs)
             last == IF a.kind \in {"drop1", "digStepDown"} THEN "drop" ELSE "move"
             s == MineScript(a)
             first == <<Op("begin", a.digs)>>
             digs == [i \in DOMAIN a.digs |-> Op("mineDig", a.digs[i])]
             rest == <<Op(last, a.toFoot), Op("end", << >>)>>
  <2>1. a.digs \in Seq(Positions) /\ n \in Nat /\ DOMAIN a.digs = 1 .. n
    BY DEF Actions
  <2>2. s \in Seq(MinerOps)
    <3>1. <<a>> \in Seq(Actions) /\ 1 \in DOMAIN <<a>> /\ <<a>>[1] = a
      OBVIOUS
    <3> HIDE DEF s
    <3>2. \A i \in DOMAIN <<a>> : MineScript(<<a>>[i]) \in Seq(MinerOps)
      BY <3>1, OpsOfAMiner
    <3> QED BY <3>1, <3>2 DEF s
  <2>3. s = first \o digs \o rest
    BY DEF MineScript
  <2>4. Len(first) = 1 /\ Len(rest) = 2 /\ Len(digs) = n
    BY <2>1
  <2>5. /\ DOMAIN s = 1 .. n + 3 /\ s[1] = Op("begin", a.digs)
        /\ \A k \in 1 .. n : s[1 + k] = Op("mineDig", a.digs[k])
        /\ s[n + 2] = Op(last, a.toFoot) /\ s[n + 3] = Op("end", << >>)
    <3>1. first \in Seq({first[1]}) /\ rest \in Seq({rest[1], rest[2]})
      OBVIOUS
    <3> QED BY <2>1, <2>3, <2>4, <3>1, SMTT(30)
  <2> HIDE DEF s, n, first, digs, rest
  <2>6. /\ s[1].kind = "begin" /\ s[1].to = a.digs
        /\ \A k \in 1 .. n : s[1 + k].kind = "mineDig"
        /\ s[n + 2].kind \in {"move", "drop"} /\ s[n + 3].kind = "end"
    <3>1. last \in {"move", "drop"}
      OBVIOUS
    <3> HIDE DEF last
    <3>2. ASSUME NEW kind, NEW to PROVE Op(kind, to).kind = kind /\ Op(kind, to).to = to
      BY DEF Op
    <3>3. ASSUME NEW k \in 1 .. n PROVE s[1 + k].kind = "mineDig"
      BY <2>5, <3>2
    <3> QED BY <2>5, <3>1, <3>2, <3>3
  <2> HIDE DEF last
  <2>7. \A i \in DOMAIN s : i = 1 \/ (i - 1 \in 1 .. n /\ i = 1 + (i - 1)) \/ i = n + 2 \/ i = n + 3
    BY <2>1, <2>5
  <2>8. ASSUME NEW i \in DOMAIN s
        PROVE  /\ s[i].kind = "begin" => i = 1
               /\ s[i].kind \in {"end", "check", "finalDig"} => i = n + 3
    <3>1. CASE i = 1
      BY <2>6, <3>1
    <3>2. CASE i - 1 \in 1 .. n /\ i = 1 + (i - 1)
      BY <2>6, <3>2
    <3>3. CASE i = n + 2 \/ i = n + 3
      BY <2>6, <3>3
    <3> QED BY <2>7, <3>1, <3>2, <3>3
  <2>9. WellFormed(s)
    <3>1. ASSUME NEW i \in DOMAIN s, s[i].kind \in {"end", "check", "finalDig"}
          PROVE  i + 1 \notin DOMAIN s
      BY <2>1, <2>5, <2>8, <3>1
    <3>2. ASSUME NEW i \in DOMAIN s, s[i].kind = "begin", NEW k \in DOMAIN s[i].to
          PROVE  i + k \in DOMAIN s /\ s[i + k] = Op("mineDig", s[i].to[k])
      <4>1. i = 1 /\ k \in 1 .. n
        BY <2>1, <2>6, <2>8, <3>2
      <4>2. 1 + k \in DOMAIN s
        BY <2>1, <2>5, <4>1
      <4> QED BY <2>5, <2>6, <4>1, <4>2
    <3> QED BY <3>1, <3>2 DEF WellFormed
  <2>10. s[1].kind \notin Inner
    BY <2>6 DEF Inner
  <2> QED BY <2>2, <2>9, <2>10 DEF Scripts, s
<1>2. [i \in DOMAIN actions |-> MineScript(actions[i])] \in Seq(Scripts)
  <2>1. DOMAIN actions = 1 .. Len(actions) /\ Len(actions) \in Nat
    OBVIOUS
  <2>2. \A i \in DOMAIN actions : actions[i] \in Actions
    OBVIOUS
  <2>3. \A i \in DOMAIN actions : MineScript(actions[i]) \in Scripts
    BY <1>1, <2>2
  <2> QED BY <2>1, <2>3
<1>3. <<Op("check", end), Op("finalDig", target)>> \in Scripts
  <2> DEFINE t == <<Op("check", end), Op("finalDig", target)>>
  <2>1. /\ t \in Seq(MinerOps) /\ DOMAIN t = {1, 2} /\ t # << >>
        /\ t[1].kind = "check" /\ t[2].kind = "finalDig"
    <3>1. << >> \in Seq(Actions)
      OBVIOUS
    <3>2. t \in Seq(MinerOps)
      BY <3>1, OpsOfAMiner
    <3>3. DOMAIN t = {1, 2} /\ t # << >> /\ t[1] = Op("check", end) /\ t[2] = Op("finalDig", target)
      OBVIOUS
    <3> HIDE DEF t
    <3> QED BY <3>2, <3>3 DEF Op
  <2> HIDE DEF t
  <2>2. WellFormed(t)
    BY <2>1 DEF WellFormed, Inner
  <2>3. t \in Scripts
    BY <2>1, <2>2 DEF Scripts, Inner
  <2> QED BY <2>3 DEF t
<1> QED BY <1>2, <1>3, FlattenScripts, ScriptsJoin

(* What is left of a script.                                               *)
LEMMA TailIsWellFormed ==
  ASSUME NEW s \in Seq(MinerOps), s # << >>, WellFormed(s)
  PROVE  /\ WellFormed(Tail(s))
         /\ s[1].kind \in {"end", "check", "finalDig"} /\ Tail(s) # << >>
              => Head(Tail(s)).kind \notin Inner
<1> DEFINE t == Tail(s)
<1>1. /\ t \in Seq(MinerOps) /\ DOMAIN t = 1 .. Len(s) - 1 /\ DOMAIN s = 1 .. Len(s)
      /\ Len(s) \in Nat \ {0}
  OBVIOUS
<1>2. \A i \in DOMAIN t : t[i] = s[i + 1] /\ i + 1 \in DOMAIN s
  OBVIOUS
<1>3. t # << >> => 1 \in DOMAIN t /\ Head(t) = t[1]
  BY <1>1
<1> HIDE DEF t
<1>4. ASSUME NEW i \in DOMAIN t
      PROVE  /\ t[i].kind \in {"end", "check", "finalDig"} /\ i + 1 \in DOMAIN t
                  => t[i + 1].kind \notin Inner
             /\ t[i].kind = "begin" =>
                  \A k \in DOMAIN t[i].to :
                    i + k \in DOMAIN t /\ t[i + k] = Op("mineDig", t[i].to[k])
  <2>1. i \in Int
    BY <1>1
  <2>2. i + 1 \in DOMAIN t => t[i + 1] = s[(i + 1) + 1] /\ (i + 1) + 1 \in DOMAIN s
    BY <1>2
  <2>3. t[i].kind \in {"end", "check", "finalDig"} /\ i + 1 \in DOMAIN t
          => t[i + 1].kind \notin Inner
    BY <1>2, <2>2 DEF WellFormed
  <2>4. ASSUME t[i].kind = "begin", NEW k \in DOMAIN t[i].to
        PROVE  i + k \in DOMAIN t /\ t[i + k] = Op("mineDig", t[i].to[k])
    <3>1. (i + 1) + k \in DOMAIN s /\ s[(i + 1) + k] = Op("mineDig", t[i].to[k])
      BY <1>2, <2>4 DEF WellFormed
    <3>2. k \in Nat \ {0}
      <4>1. t[i] \in MinerOps
        BY <1>1
      <4>2. t[i].to \in Seq(Positions)
        BY <2>4, <4>1 DEF MinerOps
      <4> QED BY <2>4, <4>2
    <3>3. (i + 1) + k = (i + k) + 1 /\ i + k \in DOMAIN t
      BY <1>1, <2>1, <3>1, <3>2
    <3> QED BY <1>2, <3>1, <3>3
  <2> QED BY <2>3, <2>4
<1>5. WellFormed(t)
  BY <1>4 DEF WellFormed
<1>6. s[1].kind \in {"end", "check", "finalDig"} /\ t # << >> => Head(t).kind \notin Inner
  <2>1. 1 \in DOMAIN s /\ (t # << >> => t[1] = s[1 + 1] /\ 1 + 1 \in DOMAIN s)
    BY <1>1, <1>2, <1>3
  <2> QED BY <1>3, <2>1 DEF WellFormed
<1> QED BY <1>5, <1>6 DEF t

(* The digs ahead.                                                         *)
LEMMA AheadFacts ==
  ASSUME NEW s \in Seq(MinerOps), s # << >>
  PROVE  /\ Head(s) = s[1]
         /\ s[1].kind = "mineDig" => Ahead(s) \subseteq Ahead(Tail(s)) \cup {s[1].to}
         /\ s[1].kind # "mineDig" => Ahead(s) = {}
<1> DEFINE t == Tail(s)
<1>1. /\ t \in Seq(MinerOps) /\ DOMAIN t = 1 .. Len(s) - 1 /\ DOMAIN s = 1 .. Len(s)
      /\ Len(s) \in Nat \ {0} /\ Head(s) = s[1]
  OBVIOUS
<1>2. \A i \in DOMAIN t : t[i] = s[i + 1] /\ i + 1 \in DOMAIN s
  OBVIOUS
<1> HIDE DEF t
<1>3. ASSUME NEW i \in DOMAIN s, \A k \in 1 .. i : s[k].kind = "mineDig", i # 1
      PROVE  s[i].to \in Ahead(t)
  <2>1. i - 1 \in DOMAIN t /\ i \in Int
    BY <1>1, <1>3
  <2>2. t[i - 1] = s[i]
    <3>1. t[i - 1] = s[(i - 1) + 1]
      BY <1>2, <2>1
    <3> QED BY <2>1, <3>1
  <2>3. ASSUME NEW k \in 1 .. i - 1 PROVE t[k].kind = "mineDig"
    <3>1. k \in DOMAIN t /\ k + 1 \in 1 .. i
      BY <1>1, <2>1, <2>3
    <3> QED BY <1>2, <1>3, <3>1
  <2> QED BY <2>1, <2>2, <2>3 DEF Ahead
<1>4. Ahead(s) \subseteq Ahead(t) \cup {s[1].to}
  BY <1>3 DEF Ahead
<1>5. s[1].kind # "mineDig" => Ahead(s) = {}
  BY <1>1 DEF Ahead
<1> QED BY <1>1, <1>4, <1>5 DEF t

(* They are finitely many.                                                 *)
LEMMA AheadIsFinite ==
  ASSUME NEW s \in Seq(MinerOps)
  PROVE  IsFiniteSet(Ahead(s))
<1> DEFINE I == {j \in DOMAIN s : \A k \in 1 .. j : s[k].kind = "mineDig"}
           f == [i \in I |-> s[i].to]
<1>1. DOMAIN s = 1 .. Len(s) /\ Len(s) \in Int
  OBVIOUS
<1>2. IsFiniteSet(DOMAIN s)
  BY <1>1, FS_Interval
<1>3. IsFiniteSet(I)
  BY <1>2, FS_Subset
<1>4. f \in Surjection(I, Ahead(s))
  BY DEF Surjection, Ahead
<1> QED BY <1>3, <1>4, FS_Surjection

(* When an action begins, all it announces is ahead.                       *)
LEMMA DigsAreAhead ==
  ASSUME NEW s \in Seq(MinerOps), s # << >>, WellFormed(s), s[1].kind = "begin"
  PROVE  ToSet(s[1].to) \subseteq Ahead(Tail(s))
<1> DEFINE t == Tail(s)
<1>1. /\ t \in Seq(MinerOps) /\ DOMAIN t = 1 .. Len(s) - 1 /\ DOMAIN s = 1 .. Len(s)
      /\ Len(s) \in Nat \ {0} /\ 1 \in DOMAIN s /\ s[1] \in MinerOps
  OBVIOUS
<1>2. \A i \in DOMAIN t : t[i] = s[i + 1] /\ i + 1 \in DOMAIN s
  OBVIOUS
<1> HIDE DEF t
<1>3. s[1].to \in Seq(Positions)
  BY <1>1 DEF MinerOps
<1>4. ASSUME NEW k \in DOMAIN s[1].to
      PROVE  k \in DOMAIN t /\ t[k].kind = "mineDig" /\ t[k].to = s[1].to[k]
  <2>1. 1 + k \in DOMAIN s /\ s[1 + k] = Op("mineDig", s[1].to[k])
    BY <1>1 DEF WellFormed
  <2>2. k \in Nat \ {0}
    BY <1>3
  <2>3. k \in DOMAIN t /\ 1 + k = k + 1
    BY <1>1, <2>1, <2>2
  <2>4. t[k] = Op("mineDig", s[1].to[k])
    BY <1>2, <2>1, <2>3
  <2> QED BY <2>3, <2>4 DEF Op
<1>5. ASSUME NEW k \in DOMAIN s[1].to PROVE s[1].to[k] \in Ahead(t)
  <2>1. \A j \in 1 .. k : j \in DOMAIN s[1].to
    BY <1>3
  <2>2. \A j \in 1 .. k : t[j].kind = "mineDig"
    BY <1>4, <2>1
  <2> QED BY <1>4, <2>2 DEF Ahead
<1> QED BY <1>5 DEF ToSet, t

(* Within an action, what was counted at its beginning is dug or ahead; a  *)
(* block that is dug was seen for what it is; and while the last one is    *)
(* dug, it is an ore or dug already.                                       *)
OresIn(S) == {p \in S : IsTarget(p)}
Inside ==
  CurrentOp.kind \in Inner =>
    mine.minedCount + mine.planned <= dugOres + Cardinality(OresIn(Ahead(nav.ops)))
Seeing ==
  CurrentOp.kind \in {"mineDig", "finalDig"} /\ nav.pc # "start" /\ nav.seen # "ore"
    => ~ IsTarget(CurrentOp.to)
AtLast ==
  CurrentOp.kind = "finalDig" /\ nav.pc # "start" =>
    /\ nav.seen = "ore" /\ (IsTarget(CurrentOp.to) => mine.minedCount <= dugOres)
    /\ ~ IsTarget(CurrentOp.to) => mine.minedCount + 1 <= dugOres

Numbers == {mine.minedCount, mine.planned, dugOres, disturbances} \subseteq Nat
UnderWay == mine.pc = "act" /\ Acting
CountInv ==
  /\ Numbers
  /\ UnderWay => WellFormed(nav.ops)
  /\ disturbances = 0 =>
       /\ mine.minedCount <= dugOres
       /\ UnderWay /\ nav.ops # << >> => Inside /\ Seeing /\ AtLast

(* So are the ores among them.                                             *)
LEMMA OresAreFinite ==
  ASSUME NEW s \in Seq(MinerOps)
  PROVE  IsFiniteSet(OresIn(Ahead(s))) /\ Cardinality(OresIn(Ahead(s))) \in Nat
<1>1. IsFiniteSet(Ahead(s)) /\ OresIn(Ahead(s)) \in SUBSET Ahead(s)
  BY AheadIsFinite DEF OresIn
<1> HIDE DEF OresIn
<1> QED BY <1>1, FS_Subset, FS_CardinalityType

(* An operation is done: what is ahead then is what matters.               *)
LEMMA DoneCounts ==
  ASSUME MinerInv, CountInv, UnderWay, nav.ops # << >>, nav' = OpDone(nav), Numbers',
         UNCHANGED <<world, dugOres, disturbances>>,
         disturbances = 0 =>
           /\ mine'.minedCount <= dugOres
           /\ Tail(nav.ops) # << >> /\ Head(Tail(nav.ops)).kind \in Inner =>
                mine'.minedCount + mine'.planned <= dugOres + Cardinality(OresIn(Ahead(Tail(nav.ops))))
  PROVE  CountInv'
<1>1. nav'.ops = Tail(nav.ops) /\ nav'.pc = "start"
  BY ShapesLeft DEF MinerInv, MineShape, AbortInv
<1>2. WellFormed(nav'.ops)
  BY <1>1, TailIsWellFormed DEF CountInv, UnderWay, MinerInv, Walking
<1>3. (OresIn(Ahead(nav.ops)))' = OresIn(Ahead(Tail(nav.ops)))
  BY <1>1 DEF OresIn, IsTarget, Block
<1>4. (disturbances' = 0 /\ nav'.ops # << >>) => Inside' /\ Seeing' /\ AtLast'
  BY <1>1, <1>3 DEF Inside, Seeing, AtLast, CurrentOp
<1> QED BY <1>1, <1>2, <1>4 DEF CountInv

(* The operation goes on.                                                  *)
LEMMA StillCounts ==
  ASSUME MinerInv, CountInv, UnderWay, nav.ops # << >>, nav'.ops = nav.ops,
         UNCHANGED <<world, mine, dugOres, disturbances>>,
         disturbances = 0 => Seeing' /\ AtLast'
  PROVE  CountInv'
<1>1. (OresIn(Ahead(nav.ops)))' = OresIn(Ahead(nav.ops))
  BY DEF OresIn, IsTarget, Block
<1>2. disturbances = 0 => Inside'
  BY <1>1 DEF CountInv, Inside, CurrentOp
<1> QED BY <1>2 DEF CountInv, Numbers

(* Nothing is counted when no action is under way.                         *)
LEMMA RestCounts ==
  ASSUME CountInv, Numbers', ~ UnderWay', disturbances' = 0 => mine'.minedCount <= dugOres'
  PROVE  CountInv'
BY DEF CountInv

(* A plan begins with nothing counted.                                     *)
LEMMA StartsCount ==
  ASSUME MinerInv, CountInv, MineStarts
  PROVE  CountInv'
<1> DEFINE ops == FlattenSeq([i \in DOMAIN search.plan.actions |->
                                     MineScript(search.plan.actions[i])])
                         \o <<Op("check", search.plan.finalFoot),
                              Op("finalDig", search.plan.target)>>
<1>1. LeadsToTarget(search.plan)
  BY DEF MineStarts, MinerInv, Found, MineFinds
<1>2. ops \in Scripts
  BY <1>1, PlansAreScripts DEF LeadsToTarget, LeadsThere
<1>3. /\ nav' = [Begun EXCEPT !.status = "acting", !.ops = ops]
      /\ mine' = [mine EXCEPT !.pc = "act"] /\ UNCHANGED <<disturbances, dugOres>>
  BY DEF MineStarts
<1> HIDE DEF ops
<1>4. nav'.ops = ops /\ nav'.pc = "start"
  BY <1>3 DEF Idle, Begun
<1>5. mine'.minedCount = mine.minedCount /\ mine'.planned = mine.planned
  BY <1>3 DEF MinerInv, MineShape, IsMine, MineFields
<1>6. WellFormed(ops) /\ (ops # << >> => Head(ops).kind \notin Inner)
  <2>1. ops \in Seq(MinerOps)
    BY <1>2 DEF Scripts
  <2>2. ops # << >> => Head(ops) = ops[1]
    BY <2>1
  <2> QED BY <1>2, <2>2 DEF Scripts
<1>7. nav'.ops # << >> => Inside' /\ Seeing' /\ AtLast'
  BY <1>4, <1>6 DEF Inside, Seeing, AtLast, CurrentOp
<1> QED BY <1>3, <1>4, <1>5, <1>6, <1>7 DEF CountInv, Numbers

(* The steps of the walk, as they are counted.                             *)
LEMMA ActsCount ==
  ASSUME MinerInv, AbortInv', CountInv,
         MineBegins \/ MineEnds \/ MineChecks \/ MineDigReads \/ FinalReads \/ MineWatches
  PROVE  CountInv'
<1> DEFINE rest == Tail(nav.ops)
           op == Head(nav.ops)
<1>1. UNCHANGED <<world, dugOres, disturbances>>
  BY DEF MineBegins, MineEnds, MineChecks, MineDigReads, FinalReads, MineWatches, routeVars,
         mineVars
<1>2. Acting /\ nav.ops # << >>
  BY DEF MineBegins, MineEnds, MineChecks, MineDigReads, FinalReads, MineWatches, In
<1>3. mine.pc = "act" /\ nav.ops \in Seq(MinerOps) /\ UnderWay
  BY <1>2, ActsOfMine DEF MinerInv, Walking, UnderWay
<1>4. /\ op = nav.ops[1] /\ op \in MinerOps /\ rest \in Seq(MinerOps)
      /\ WellFormed(nav.ops)
  BY <1>2, <1>3 DEF CountInv
<1>5. /\ op.kind \in {"end", "check", "finalDig"} /\ rest # << >> => Head(rest).kind \notin Inner
      /\ op.kind = "mineDig" => Ahead(nav.ops) \subseteq Ahead(rest) \cup {op.to}
      /\ op.kind # "mineDig" => Ahead(nav.ops) = {}
      /\ op.kind = "begin" => ToSet(op.to) \subseteq Ahead(rest)
  BY <1>2, <1>3, <1>4, TailIsWellFormed, AheadFacts, DigsAreAhead
<1>6. /\ IsFiniteSet(OresIn(Ahead(rest))) /\ Cardinality(OresIn(Ahead(rest))) \in Nat
      /\ Cardinality(OresIn(Ahead(nav.ops))) \in Nat
  BY <1>3, <1>4, OresAreFinite
<1>7. /\ disturbances = 0 => mine.minedCount <= dugOres /\ Inside /\ Seeing /\ AtLast
      /\ mine.minedCount \in Nat /\ mine.planned \in Nat /\ dugOres \in Nat /\ disturbances \in Nat
      /\ CurrentOp = op
  BY <1>2, <1>3 DEF CountInv, Numbers, CurrentOp
<1> HIDE DEF op, rest
<1>8. ASSUME nav' = Throw(nav), mine' = mine PROVE CountInv'
  <2>1. ~ UnderWay'
    BY <1>8, ShapesLeft DEF MinerInv, MineShape, AbortInv, UnderWay, Acting
  <2> QED BY <1>1, <1>7, <1>8, <2>1, RestCounts DEF Numbers
<1>9. ASSUME nav' = OpDone(nav), mine' = mine,
             disturbances = 0 /\ rest # << >> /\ Head(rest).kind \in Inner =>
               mine.minedCount + mine.planned <= dugOres + Cardinality(OresIn(Ahead(rest)))
      PROVE  CountInv'
  BY <1>1, <1>2, <1>3, <1>7, <1>9, DoneCounts DEF Numbers, rest
<1>10. ASSUME NEW seen, nav' = [nav EXCEPT !.pc = "aim", !.seen = seen], mine' = mine,
              op.kind = "mineDig" \/ op.kind = "finalDig",
              seen = Block(op.to), op.kind = "finalDig" => seen = "ore"
       PROVE  CountInv'
  <2>1. nav'.ops = nav.ops /\ nav'.seen = seen
    BY <1>10 DEF MinerInv, MineShape, AbortInv, IsNavigation, Fields
  <2>2. CurrentOp' = op /\ (IsTarget(op.to) <=> IsTarget(op.to)') /\ (IsTarget(op.to) <=> seen = "ore")
    BY <1>1, <1>10, <2>1 DEF CurrentOp, op, IsTarget, Block
  <2>3. disturbances = 0 => Seeing' /\ AtLast'
    BY <1>1, <1>7, <1>10, <2>1, <2>2 DEF Seeing, AtLast, IsTarget, Block, CurrentOp
  <2> QED BY <1>1, <1>2, <1>3, <1>10, <2>1, <2>3, StillCounts
<1>11. CASE MineBegins
  <2> DEFINE ores == {p \in ToSet(op.to) : IsTarget(p)}
  <2>1. op.kind = "begin" /\ nav' = OpDone(nav) /\ mine' = [mine EXCEPT !.planned = Cardinality(ores)]
    BY <1>7, <1>11 DEF MineBegins, In
  <2>2. Cardinality(ores) \in Nat /\ Cardinality(ores) <= Cardinality(OresIn(Ahead(rest)))
    <3>1. ores \in SUBSET OresIn(Ahead(rest))
      BY <1>5, <2>1 DEF OresIn
    <3> HIDE DEF ores
    <3> QED BY <1>6, <3>1, FS_Subset, FS_CardinalityType
  <2> HIDE DEF ores
  <2>3. mine'.minedCount = mine.minedCount /\ mine'.planned = Cardinality(ores)
    BY <2>1 DEF MinerInv, MineShape, IsMine, MineFields
  <2>4. Numbers'
    BY <1>1, <1>7, <2>2, <2>3 DEF Numbers
  <2>5. disturbances = 0 =>
          /\ mine'.minedCount <= dugOres
          /\ mine'.minedCount + mine'.planned <= dugOres + Cardinality(OresIn(Ahead(rest)))
    BY <1>6, <1>7, <2>2, <2>3
  <2> QED BY <1>1, <1>2, <1>3, <2>1, <2>4, <2>5, DoneCounts DEF rest
<1>12. CASE MineEnds
  <2>1. op.kind = "end" /\ nav' = OpDone(nav)
        /\ mine' = [mine EXCEPT !.minedCount = @ + mine.planned]
    BY <1>7, <1>12 DEF MineEnds, In
  <2>2. mine'.minedCount = mine.minedCount + mine.planned /\ mine'.planned = mine.planned
    BY <2>1 DEF MinerInv, MineShape, IsMine, MineFields
  <2>3. Cardinality(OresIn(Ahead(nav.ops))) = 0
    <3>1. OresIn(Ahead(nav.ops)) = {}
      BY <1>5, <2>1 DEF OresIn
    <3> QED BY <3>1, FS_EmptySet
  <2>4. disturbances = 0 => mine'.minedCount <= dugOres
    BY <1>7, <2>1, <2>2, <2>3 DEF Inside, Inner
  <2>5. Numbers'
    BY <1>1, <1>7, <2>2 DEF Numbers
  <2>6. rest # << >> => Head(rest).kind \notin Inner
    BY <1>5, <2>1
  <2> QED BY <1>1, <1>2, <1>3, <2>1, <2>4, <2>5, <2>6, DoneCounts DEF rest
<1>13. CASE MineChecks
  <2>1. op.kind = "check" /\ mine' = mine /\ (nav' = OpDone(nav) \/ nav' = Throw(nav))
    BY <1>7, <1>13 DEF MineChecks, In, mineVars
  <2> QED BY <1>5, <1>8, <1>9, <2>1
<1>14. CASE MineDigReads
  <2>1. op.kind = "mineDig" /\ mine' = mine
    BY <1>7, <1>14 DEF MineDigReads, In, mineVars
  <2>2. \/ nav' = OpDone(nav) /\ Block(op.to) # "ore"
        \/ nav' = Throw(nav)
        \/ nav' = [nav EXCEPT !.pc = "aim", !.seen = Block(op.to)]
    BY <1>7, <1>14 DEF MineDigReads, IsAirBlock
  <2>3. CASE nav' = OpDone(nav) /\ Block(op.to) # "ore"
    <3>1. OresIn(Ahead(nav.ops)) \in SUBSET OresIn(Ahead(rest))
      BY <1>5, <2>1, <2>3 DEF OresIn, IsTarget
    <3>2. Cardinality(OresIn(Ahead(nav.ops))) <= Cardinality(OresIn(Ahead(rest)))
      BY <1>6, <3>1, FS_Subset
    <3>3. disturbances = 0 =>
            mine.minedCount + mine.planned <= dugOres + Cardinality(OresIn(Ahead(rest)))
      BY <1>6, <1>7, <2>1, <3>2 DEF Inside, Inner
    <3> QED BY <1>9, <2>1, <2>3, <3>3
  <2> QED BY <1>8, <1>10, <2>1, <2>2, <2>3
<1>15. CASE FinalReads
  <2>1. op.kind = "finalDig" /\ mine' = mine
    BY <1>7, <1>15 DEF FinalReads, In, mineVars
  <2>2. \/ nav' = OpDone(nav)
        \/ nav' = Throw(nav)
        \/ nav' = [nav EXCEPT !.pc = "aim", !.seen = "ore"] /\ Block(op.to) = "ore"
    BY <1>7, <1>15 DEF FinalReads, IsTarget
  <2> QED BY <1>5, <1>8, <1>9, <1>10, <2>1, <2>2
<1>16. CASE MineWatches
  <2>1. PICK kind \in {"mineDig", "finalDig"} :
          /\ op.kind = kind /\ nav.pc = "watch"
          /\ \/ /\ Changed(kind, op.to) /\ nav' = OpDone(nav)
                /\ mine' = IF kind = "finalDig" THEN [mine EXCEPT !.minedCount = @ + 1] ELSE mine
             \/ nav' = Throw(nav) /\ mine' = mine
    BY <1>7, <1>16 DEF MineWatches, In
  <2>2. CASE nav' = Throw(nav) /\ mine' = mine
    BY <1>8, <2>2
  <2>3. CASE kind = "mineDig" /\ Changed(kind, op.to) /\ nav' = OpDone(nav) /\ mine' = mine
    <3>1. disturbances = 0 => Block(op.to) # "ore"
      BY <1>7, <2>1, <2>3 DEF Changed, IsBlockChanged, IsAirBlock, Seeing, IsTarget
    <3>2. ASSUME disturbances = 0
          PROVE  mine.minedCount + mine.planned <= dugOres + Cardinality(OresIn(Ahead(rest)))
      <4>1. OresIn(Ahead(nav.ops)) \in SUBSET OresIn(Ahead(rest))
        BY <1>5, <2>1, <2>3, <3>1, <3>2 DEF OresIn, IsTarget
      <4>2. Cardinality(OresIn(Ahead(nav.ops))) <= Cardinality(OresIn(Ahead(rest)))
        BY <1>6, <4>1, FS_Subset
      <4> QED BY <1>6, <1>7, <2>1, <2>3, <3>2, <4>2 DEF Inside, Inner
    <3> QED BY <1>9, <2>3, <3>2
  <2>4. CASE /\ kind = "finalDig" /\ Changed(kind, op.to) /\ nav' = OpDone(nav)
             /\ mine' = [mine EXCEPT !.minedCount = @ + 1]
    <3>1. mine'.minedCount = mine.minedCount + 1 /\ mine'.planned = mine.planned
      BY <2>4 DEF MinerInv, MineShape, IsMine, MineFields
    <3>2. disturbances = 0 => ~ IsTarget(op.to)
      BY <1>7, <2>1, <2>4 DEF Changed, IsBlockChanged, IsTarget, Seeing, AtLast
    <3>3. disturbances = 0 => mine'.minedCount <= dugOres
      BY <1>7, <2>1, <2>4, <3>1, <3>2 DEF AtLast
    <3>4. Numbers'
      BY <1>1, <1>7, <3>1 DEF Numbers
    <3>5. rest # << >> => Head(rest).kind \notin Inner
      BY <1>5, <2>1, <2>4
    <3> QED BY <1>1, <1>2, <1>3, <2>4, <3>3, <3>4, <3>5, DoneCounts DEF rest
  <2> QED BY <2>1, <2>2, <2>3, <2>4
<1> QED BY <1>11, <1>12, <1>13, <1>14, <1>15, <1>16

(* The steps of the walk that goTo has too.                                *)
LEMMA WalksCount ==
  ASSUME MinerInv, CountInv, MineWalks
  PROVE  CountInv'
<1> DEFINE rest == Tail(nav.ops)
           op == Head(nav.ops)
<1>1. mine.pc = "act" /\ Execute /\ mine' = mine /\ dugOres' = dugOres
  BY DEF MineWalks, Execute, mineVars
<1>2. Acting /\ nav.ops # << >> /\ UNCHANGED <<world, disturbances>>
  BY DEF MineWalks, DigStarts, MoveStarts, PathfinderEnds, StepToFoot, DropStarts, HeightReached,
         SeesAbort, In, routeVars
<1>3. nav'.status # "acting" \/ EndsOp \/ GoesOnWithOp
  <2>1. ~ StartActing
    BY <1>2 DEF StartActing, Acting
  <2> QED BY <1>1, <2>1, ExecuteMoves DEF MinerInv, MineShape, AbortInv, Walking, Places
<1>4. UnderWay /\ nav.ops \in Seq(MinerOps) /\ op = nav.ops[1] /\ op \in MinerOps /\ CurrentOp = op
  BY <1>1, <1>2 DEF MinerInv, Walking, UnderWay, CurrentOp
<1>5. /\ disturbances = 0 => mine.minedCount <= dugOres /\ Inside /\ Seeing /\ AtLast
      /\ mine.minedCount \in Nat /\ mine.planned \in Nat /\ dugOres \in Nat /\ Numbers'
  BY <1>1, <1>2, <1>4 DEF CountInv, Numbers
<1> HIDE DEF op
<1>6. CASE nav'.status # "acting"
  <2>1. ~ UnderWay'
    BY <1>6 DEF UnderWay, Acting
  <2> QED BY <1>1, <1>2, <1>5, <2>1, RestCounts
<1>7. CASE EndsOp
  <2>1. nav' = OpDone(nav) /\ op.kind \in {"move", "drop"}
    BY <1>4, <1>7 DEF EndsOp, WalkKinds, MinerOps, MinerKinds
  <2>2. Ahead(nav.ops) = {}
    BY <1>2, <1>4, <2>1, AheadFacts
  <2>3. Cardinality(OresIn(Ahead(nav.ops))) = 0
    <3>1. OresIn(Ahead(nav.ops)) = {}
      BY <2>2 DEF OresIn
    <3> QED BY <3>1, FS_EmptySet
  <2>4. disturbances = 0 => mine.minedCount + mine.planned <= dugOres
    BY <1>4, <1>5, <2>1, <2>3 DEF Inside, Inner
  <2>5. Cardinality(OresIn(Ahead(rest))) \in Nat
    <3>1. rest \in Seq(MinerOps)
      BY <1>2, <1>4
    <3> HIDE DEF rest
    <3> QED BY <3>1, OresAreFinite
  <2>6. disturbances = 0 =>
          mine.minedCount + mine.planned <= dugOres + Cardinality(OresIn(Ahead(rest)))
    <3> HIDE DEF rest
    <3> QED BY <1>5, <2>4, <2>5
  <2> QED BY <1>1, <1>2, <1>4, <1>5, <2>1, <2>6, DoneCounts
<1>8. CASE GoesOnWithOp
  <2>1. nav'.ops = nav.ops /\ CurrentOp' = op
    BY <1>8 DEF GoesOnWithOp, CurrentOp, op
  <2>2. \/ op.kind \notin {"mineDig", "finalDig"}
        \/ nav.pc = "aim" /\ nav'.seen = nav.seen
    BY <1>4, <1>8 DEF GoesOnWithOp, WalkKinds
  <2>3. IsTarget(op.to)' <=> IsTarget(op.to)
    <3>1. CurrentOp.to' = CurrentOp.to
      BY <1>4, <2>1
    <3> QED BY <1>2, <1>4, <2>1, <3>1 DEF IsTarget, Block, op
  <2>4. disturbances = 0 => Seeing' /\ AtLast'
    BY <1>1, <1>2, <1>4, <1>5, <2>1, <2>2, <2>3 DEF Seeing, AtLast, IsTarget, Block
  <2> QED BY <1>1, <1>2, <1>4, <2>1, <2>4, StillCounts
<1> QED BY <1>3, <1>6, <1>7, <1>8

(* Looking, planning, the ends of rounds and calls, and going nearer.      *)
LEMMA RoundsCount ==
  ASSUME MinerInv, CountInv,
         \/ Searches \/ MineScan
         \/ MineStepFails \/ MineRoundEnds \/ MineSettles \/ ApproachBegins \/ Approach
         \/ Navigates \/ ApproachEnds \/ NoApproach
  PROVE  CountInv'
<1>1. UNCHANGED <<dugOres, disturbances>>
  <2>1. CASE Searches
    BY <2>1 DEF Searches, MinePlans, RoutePlans, Plan, navVars, mineVars
  <2>2. CASE Navigates
    <3>1. dugOres' = dugOres
      BY <2>2 DEF Navigates, mineVars
    <3>2. Execute => disturbances' = disturbances
      BY DEF Execute, StartActing, RouteNotFound, SeesAbort, Finish, DigReads, DigStarts,
             DigWatches, MoveStarts, PathfinderEnds, StepToFoot, DropStarts, HeightReached, Centre,
             PlaceStarts, PlaceTries, PlaceAsks, PlaceSucceeds, PlaceFails, PlaceMissed,
             PlaceClears, PlaceCleared
    <3> QED BY <2>2, <3>1, <3>2 DEF Navigates
  <2>3. CASE MineScan \/ MineRoundEnds \/ Approach
    BY <2>3 DEF MineScan, MineRoundEnds, Approach
  <2>4. CASE MineStepFails \/ MineSettles \/ ApproachBegins \/ ApproachEnds \/ NoApproach
    BY <2>4 DEF MineStepFails, MineSettles, ApproachBegins, ApproachEnds, NoApproach, vars, navVars
  <2> QED BY <2>1, <2>2, <2>3, <2>4
<1>2. mine'.minedCount = mine.minedCount /\ mine'.planned = mine.planned
  <2>1. CASE Searches \/ Navigates
    BY <2>1 DEF Searches, MinePlans, RoutePlans, Navigates, mineVars
  <2>2. CASE MineScan
    BY <2>2 DEF MineScan, Fails, MinerInv, MineShape, IsMine, MineFields
  <2>3. CASE MineRoundEnds
    BY <2>3 DEF MineRoundEnds, MinerInv, MineShape, IsMine, MineFields
  <2>4. CASE MineStepFails \/ MineSettles \/ ApproachBegins \/ Approach \/ ApproachEnds \/ NoApproach
    BY <2>4 DEF MineStepFails, MineSettles, ApproachBegins, Approach, ApproachEnds, NoApproach,
                Fails, MinerInv, MineShape, IsMine, MineFields
  <2> QED BY <2>1, <2>2, <2>3, <2>4
<1>3. mine'.pc # "act"
  <2>1. CASE Searches \/ Navigates
    BY <2>1 DEF Searches, MinePlans, RoutePlans, Navigates, mineVars
  <2>2. CASE MineScan
    BY <2>2 DEF MineScan, Fails, MinerInv, MineShape, IsMine, MineFields
  <2>3. CASE MineRoundEnds
    BY <2>3 DEF MineRoundEnds, MinerInv, MineShape, IsMine, MineFields
  <2>4. CASE MineStepFails \/ MineSettles \/ ApproachBegins \/ Approach \/ ApproachEnds \/ NoApproach
    BY <2>4 DEF MineStepFails, MineSettles, ApproachBegins, Approach, ApproachEnds, NoApproach,
                Fails, MinerInv, MineShape, IsMine, MineFields
  <2> QED BY <2>1, <2>2, <2>3, <2>4
<1> QED BY <1>1, <1>2, <1>3, RestCounts DEF CountInv, Numbers, UnderWay

(* The server digs an ore, which is counted as dug; unless others put one  *)
(* there, no block turns into an ore.                                      *)
LEMMA AroundCounts ==
  ASSUME MinerInv, CountInv, MineAround
  PROVE  CountInv'
<1>1. mine' = mine /\ nav' = nav
  BY DEF MineAround, MineDigLands, DigLands, PicksUp, BotMoves, Falls, PlaceLands, PendingLost,
         Abort, OthersChangeBlock, OthersPush, mineVars, vars, routeVars, navVars
<1>2. CASE MineDigLands
  <2> DEFINE at == pending.at
             got == IF IsTarget(at) THEN 1 ELSE 0
  <2>1. /\ IsDiggableBlock(Block(at)) /\ world' = [world EXCEPT ![at] = "air"]
        /\ dugOres' = dugOres + got /\ disturbances' = disturbances
    BY <1>2 DEF MineDigLands, DigLands
  <2>2. \A p : IsTarget(p)' <=> IsTarget(p) /\ p # at
    <3>1. at \in DOMAIN world
      BY <2>1 DEF Block, ReadBlockAt, IsDiggableBlock
    <3> QED BY <2>1, <3>1 DEF IsTarget, Block, ReadBlockAt
  <2>3. got \in {0, 1} /\ (IsTarget(at) => got = 1)
    OBVIOUS
  <2> HIDE DEF at, got
  <2>4. Numbers' /\ (disturbances = 0 => mine.minedCount <= dugOres') /\ dugOres' \in Nat
    BY <1>1, <2>1, <2>3 DEF CountInv, Numbers
  <2>5. ASSUME UnderWay, nav.ops # << >>, disturbances = 0
        PROVE  Inside' /\ Seeing' /\ AtLast'
    <3>1. /\ mine.minedCount \in Nat /\ mine.planned \in Nat /\ dugOres \in Nat
          /\ mine.minedCount <= dugOres /\ Inside /\ Seeing /\ AtLast
      BY <2>5 DEF CountInv, Numbers
    <3>2. nav.ops \in Seq(MinerOps)
      BY <2>5 DEF MinerInv, Walking, UnderWay
    <3> DEFINE ores == OresIn(Ahead(nav.ops))
    <3>3. IsFiniteSet(ores) /\ Cardinality(ores) \in Nat
      BY <3>2, OresAreFinite
    <3>4. ores' = ores \ {at} /\ (at \in ores => IsTarget(at))
      BY <1>1, <2>2 DEF OresIn
    <3> HIDE DEF ores
    <3>5. Cardinality(ores \ {at}) = IF at \in ores THEN Cardinality(ores) - 1 ELSE Cardinality(ores)
      BY <3>3, FS_RemoveElement
    <3>6. dugOres + Cardinality(ores) <= dugOres' + Cardinality(ores')
      BY <2>1, <2>3, <3>1, <3>3, <3>4, <3>5
    <3>7. Cardinality(ores') \in Nat
      BY <3>3, <3>4, FS_RemoveElement, FS_CardinalityType
    <3>8. Inside'
      <4>1. CurrentOp' = CurrentOp
        BY <1>1 DEF CurrentOp
      <4>2. CurrentOp.kind \in Inner => mine.minedCount + mine.planned <= dugOres + Cardinality(ores)
        BY <3>1 DEF Inside, ores
      <4>3. CurrentOp.kind \in Inner => mine.minedCount + mine.planned <= dugOres' + Cardinality(ores')
        BY <2>4, <3>1, <3>3, <3>6, <3>7, <4>2
      <4> QED BY <1>1, <4>1, <4>3 DEF Inside, ores
    <3>9. Seeing'
      BY <1>1, <2>2, <3>1 DEF Seeing, CurrentOp
    <3>10. AtLast'
      <4> DEFINE to == CurrentOp.to
      <4>1. IsTarget(to)' <=> IsTarget(to) /\ to # at
        <5>1. PICK p : p = to
          OBVIOUS
        <5>2. p = to'
          BY <1>1, <5>1 DEF CurrentOp
        <5> QED BY <2>2, <5>1, <5>2
      <4>2. ~ IsTarget(to)' => IF IsTarget(to) THEN dugOres' = dugOres + 1 ELSE dugOres' >= dugOres
        BY <2>1, <2>3, <3>1, <4>1
      <4>3. to' = to /\ CurrentOp' = CurrentOp
        BY <1>1 DEF CurrentOp
      <4> HIDE DEF to
      <4>4. CurrentOp.kind = "finalDig" /\ nav.pc # "start" =>
              /\ nav.seen = "ore"
              /\ ~ IsTarget(to) => mine.minedCount + 1 <= dugOres
        BY <3>1 DEF AtLast, to
      <4>5. CurrentOp.kind = "finalDig" /\ nav.pc # "start" =>
              /\ nav.seen = "ore" /\ mine.minedCount <= dugOres'
              /\ ~ IsTarget(to)' => mine.minedCount + 1 <= dugOres'
        BY <2>4, <2>5, <3>1, <4>2, <4>4
      <4> QED BY <1>1, <4>3, <4>5 DEF AtLast, to
    <3> QED BY <3>8, <3>9, <3>10
  <2> QED BY <1>1, <2>1, <2>4, <2>5 DEF CountInv, UnderWay, Acting
<1>3. ASSUME UNCHANGED <<dugOres, disturbances>>, \A p : IsTarget(p)' <=> IsTarget(p)
      PROVE  CountInv'
  <2>1. OresIn(Ahead(nav.ops))' = OresIn(Ahead(nav.ops))
    BY <1>1, <1>3 DEF OresIn
  <2>2. Inside' <=> Inside
    BY <1>1, <1>3, <2>1 DEF Inside, CurrentOp
  <2>3. CurrentOp' = CurrentOp /\ (IsTarget(CurrentOp.to)' <=> IsTarget(CurrentOp.to))
    <3>1. PICK p : p = CurrentOp.to
      OBVIOUS
    <3>2. CurrentOp' = CurrentOp
      BY <1>1 DEF CurrentOp
    <3> QED BY <1>3, <3>1, <3>2
  <2>4. (Seeing' <=> Seeing) /\ (AtLast' <=> AtLast)
    BY <1>1, <1>3, <2>3 DEF Seeing, AtLast
  <2> QED BY <1>1, <1>3, <2>2, <2>4 DEF CountInv, Numbers, UnderWay, Acting
<1>4. CASE PlaceLands /\ UNCHANGED mineVars
  <2>1. /\ IsEmptyBlock(Block(pending.at)) \/ IsReplaceable(Block(pending.at))
        /\ world' = [world EXCEPT ![pending.at] = "rock"] /\ disturbances' = disturbances
    BY <1>4 DEF PlaceLands
  <2>2. dugOres' = dugOres
    BY <1>4 DEF mineVars
  <2>3. \A p : IsTarget(p)' <=> IsTarget(p)
    BY <2>1 DEF IsTarget, Block, ReadBlockAt, IsEmptyBlock, IsReplaceable
  <2> QED BY <1>3, <2>1, <2>2, <2>3
<1>5. CASE \/ PicksUp
           \/ (BotMoves \/ Falls \/ PendingLost \/ Abort) /\ UNCHANGED mineVars
  <2>1. UNCHANGED <<world, disturbances>>
    BY <1>5 DEF PicksUp, BotMoves, Falls, PendingLost, Abort, vars, routeVars, navVars
  <2>2. dugOres' = dugOres
    BY <1>5 DEF PicksUp, mineVars
  <2>3. \A p : IsTarget(p)' <=> IsTarget(p)
    BY <2>1 DEF IsTarget, Block
  <2> QED BY <1>3, <2>1, <2>2, <2>3
<1>6. CASE (OthersChangeBlock \/ OthersPush) /\ UNCHANGED mineVars
  <2>1. disturbances' = disturbances + 1 /\ dugOres' = dugOres
    BY <1>6 DEF OthersChangeBlock, OthersPush, mineVars
  <2> QED BY <1>1, <2>1 DEF CountInv, Numbers, UnderWay, Acting
<1> QED BY <1>2, <1>4, <1>5, <1>6 DEF MineAround

(* Every step keeps the count right.                                       *)
LEMMA CountStep == MinerInv /\ CountInv /\ [MineNext]_allVars => CountInv'
<1> SUFFICES ASSUME MinerInv, CountInv, [MineNext]_allVars PROVE CountInv'
  OBVIOUS
<1>1. AbortInv'
  BY MineStep DEF MinerInv, MineShape
<1>2. CASE Searches
  BY <1>2, RoundsCount
<1>3. CASE MineActs
  BY <1>1, <1>3, StartsCount, ActsCount, WalksCount, RoundsCount DEF MineActs
<1>4. CASE MineAround
  BY <1>4, AroundCounts
<1>5. CASE UNCHANGED allVars
  <2>1. UNCHANGED <<world, nav, mine, dugOres, disturbances>>
    BY <1>5 DEF allVars, vars, routeVars, navVars, mineVars
  <2>2. OresIn(Ahead(nav.ops))' = OresIn(Ahead(nav.ops))
    BY <2>1 DEF OresIn, IsTarget, Block
  <2>3. (Inside' <=> Inside) /\ (Seeing' <=> Seeing) /\ (AtLast' <=> AtLast)
    BY <2>1, <2>2 DEF Inside, Seeing, AtLast, CurrentOp, IsTarget, Block
  <2> QED BY <2>1, <2>3 DEF CountInv, Numbers, UnderWay, Acting
<1> QED BY <1>2, <1>3, <1>4, <1>5 DEF MineNext

(* A miner never claims a block that was not dug for it: what it counts at *)
(* the end of an action was an ore when the action began, and was dug in   *)
(* it; what it counts for its target, it saw there (unless others change   *)
(* blocks).                                                                *)
THEOREM MinesAreDigs == MineSpec => []MinedIsDug
<1>1. MineInit => CountInv
  BY DEF MineInit, Init, CountInv, Numbers, UnderWay
<1>2. MinerInv /\ CountInv => MinedIsDug
  BY DEF CountInv, MinedIsDug
<1> QED BY <1>1, <1>2, CountStep, MinersInvariant, PTL DEF MineSpec

-----------------------------------------------------------------------------
(***************************************************************************)
(* A walk: the plan of goTo while it is executed, seen from the world it   *)
(* was made in.  at[i] is where the bot stands after the first i actions,  *)
(* cell[i] what the cells hold then, scripts[i] the operations of action i *)
(* and later[i] those of the actions after it.                             *)
(***************************************************************************)

StandsIn(cells, p) ==
  /\ IsSupportBlock(cells[Above(p, -1)])
  /\ IsAirBlock(cells[p]) /\ IsAirBlock(cells[Above(p, 1)])

KindOf(walk, i) == walk.steps[i].kind
DigsOf(walk, i) == ToSet(walk.steps[i].digs)
From(walk, i) == walk.at[i - 1]
To(walk, i) == walk.at[i]
Before(walk, i) == walk.cell[i - 1]
Steps(walk) == 1 .. Len(walk.steps)

EndKind(kind) ==
  CASE kind \in {"walk", "jumpUp", "digWalk", "digStepUp"} -> "move"
    [] kind \in {"drop1", "digStepDown"} -> "drop"
    [] kind = "placeUp1" -> "place"
    [] kind = "digDropSelfPlaced" -> "settle"

(* The operations of an action: its digs, then one that takes the bot on.  *)
IsScript(script, action) ==
  /\ script \in Seq(WalkOps) /\ script # << >>
  /\ script[Len(script)] = Op(EndKind(action.kind), action.toFoot)
  /\ \A m \in 1 .. Len(script) - 1 :
       \/ script[m].kind = "centre"
       \/ script[m].kind = "dig" /\ script[m].to \in ToSet(action.digs)
  /\ \A p \in ToSet(action.digs) : \E m \in 1 .. Len(script) - 1 : script[m] = Op("dig", p)

(* What an action does to the cells.                                       *)
CellsFollow(walk, i) ==
  \A p \in Positions :
    walk.cell[i][p] = IF KindOf(walk, i) = "placeUp1" /\ p = From(walk, i) THEN "rock"
                      ELSE IF p \in DigsOf(walk, i) THEN "air" ELSE Before(walk, i)[p]

(* Whether the bot stands where an action begins: a way may begin while it *)
(* falls, and then its first action neither places a block nor digs the    *)
(* bot's own.                                                              *)
Firm(walk, i) == StandsIn(Before(walk, i), From(walk, i))

IsAction(walk, i) ==
  /\ KindOf(walk, i) \in Kinds
  /\ walk.at[i] = walk.steps[i].toFoot /\ To(walk, i) \in Positions /\ From(walk, i) \in Positions
  /\ DigsOf(walk, i) \subseteq Positions
  /\ CellsFollow(walk, i) /\ StandsIn(walk.cell[i], To(walk, i))
  /\ \A p \in DigsOf(walk, i) : IsDiggableBlock(Before(walk, i)[p])
  /\ KindOf(walk, i) = "placeUp1" =>
       To(walk, i) = Above(From(walk, i), 1) /\ From(walk, i) \notin DigsOf(walk, i)
  /\ KindOf(walk, i) = "digDropSelfPlaced" => To(walk, i) = Above(From(walk, i), -1)
  /\ KindOf(walk, i) \in {"placeUp1", "digDropSelfPlaced"} => Firm(walk, i)
  /\ KindOf(walk, i) # "digDropSelfPlaced" =>
       \A p \in DigsOf(walk, i) : ~ IsUnder(p, From(walk, i))

IsRoute(walk) == Len(walk.steps) \in Nat /\ \A i \in Steps(walk) : IsAction(walk, i)
IsWalk(walk) ==
  /\ IsRoute(walk) /\ \A i \in Steps(walk) : IsScript(walk.scripts[i], walk.steps[i])
  /\ walk.later[Len(walk.steps)] = << >>
  /\ \A i \in Steps(walk) : /\ walk.later[i] \in Seq(WalkOps)
                            /\ walk.later[i - 1] = walk.scripts[i] \o walk.later[i]

(* In the middle of an action: some of its digs are done, and the block it *)
(* places may be there; the bot is where the action began or where it ends,*)
(* or has fallen from where it began.                                      *)
Between(walk, i) ==
  \/ foot \in {From(walk, i), To(walk, i)}
  \/ ~ Firm(walk, i) /\ foot \in Positions /\ IsUnder(foot, From(walk, i))
Mid(walk, i) ==
  /\ \A p \in Positions :
       \/ Block(p) = Before(walk, i)[p]
       \/ p \in DigsOf(walk, i) /\ Block(p) = "air"
       \/ KindOf(walk, i) = "placeUp1" /\ p = From(walk, i) /\ Block(p) \in {"rock", "air"}
  /\ Between(walk, i)

(* A miner does not dig what its body can pass.                            *)
Alike(b, c) == b = c \/ (IsAirBlock(b) /\ IsAirBlock(c))
Partly(walk, i) ==
  \A p \in Positions :
    \/ Alike(Block(p), Before(walk, i)[p])
    \/ p \in DigsOf(walk, i) /\ IsAirBlock(Block(p))
    \/ KindOf(walk, i) = "placeUp1" /\ p = From(walk, i) /\ Block(p) \in {"rock", "air"}

(* What may still land.                                                    *)
Owed(walk, i) ==
  /\ pending.kind = "dig" =>
       pending.at \in DigsOf(walk, i) \/ (KindOf(walk, i) = "placeUp1" /\ pending.at = From(walk, i))
  /\ pending.kind = "place" =>
       \/ Block(pending.at) = "rock"
       \/ KindOf(walk, i) = "placeUp1" /\ pending.at = From(walk, i)

(* A navigation that ended in the middle of an action.                     *)
Stopped(walk, i) ==
  /\ i \in Steps(walk) /\ nav.status = "failed" /\ nav.ops = << >>
  /\ Mid(walk, i) /\ Owed(walk, i)

(* Nothing is owed: the bot keeps its footing, if it has one.              *)
Quiet ==
  /\ pending.kind # "dig"
  /\ pending.kind = "place" => Block(pending.at) = "rock"
Still == ~ Planning /\ nav.ops = << >> /\ Quiet
Ready ==
  /\ Planning /\ nav.ops = << >> /\ nav.pc = "start" /\ pending = Nothing
  /\ foot = search.start /\ foot \in Positions

(* The operation j of action i is under way.                               *)
Digging(op) ==
  op.kind = "dig" /\ nav.pc \in {"aim", "watch"} =>
    /\ nav.seen \notin {"air", "unknown"}
    /\ Block(op.to) = nav.seen \/ (Block(op.to) = "air" /\ nav.pc = "watch")
Placing(walk, i, op) ==
  op.kind = "place" /\ nav.pc # "start" =>
    /\ nav.at = From(walk, i) /\ nav.seen = Before(walk, i)[From(walk, i)]
    /\ nav.pc = "clear" => Block(nav.at) # "air"
(* Until it places its block, the bot is where the action began.           *)
Lifting(walk, i, op) ==
  KindOf(walk, i) = "placeUp1" /\ (op.kind # "place" \/ nav.pc = "start") =>
    foot = From(walk, i) /\ Block(foot) = Before(walk, i)[foot]
Asked(walk, i, op) ==
  /\ pending.kind = "dig" =>
       /\ Block(pending.at) # "air"
       /\ \/ op.kind = "dig" /\ nav.pc = "watch" /\ pending.at = op.to
          \/ op.kind = "place" /\ nav.pc = "clearing" /\ pending.at = From(walk, i)
  /\ pending.kind = "place" =>
       \/ Block(pending.at) = "rock"
       \/ op.kind = "place" /\ nav.pc # "start" /\ pending.at = From(walk, i)
Rest(s, j, l) == SubSeq(s, j, Len(s)) \o l
Walks(walk, i, j) ==
  /\ Acting /\ i \in Steps(walk) /\ j \in 1 .. Len(walk.scripts[i])
  /\ nav.ops = Rest(walk.scripts[i], j, walk.later[i])
  /\ Mid(walk, i)
  /\ \A m \in 1 .. j - 1 :
       walk.scripts[i][m].kind = "dig" => Block(walk.scripts[i][m].to) = "air"
  /\ LET op == walk.scripts[i][j]
     IN  /\ PcFits(op.kind, nav.pc) /\ Digging(op) /\ Placing(walk, i, op)
         /\ Lifting(walk, i, op) /\ Asked(walk, i, op)

(* Nothing is planned, or there is nothing left to do, or a walk goes on.  *)
Going(walk) == (\E i, j \in Nat : Walks(walk, i, j)) \/ \E i \in Nat : Stopped(walk, i)
OnTheWay == \E walk : IsWalk(walk) /\ Going(walk)
OnFoot == Ready \/ Still \/ OnTheWay
FallInv == RouteInv /\ disturbances \in Nat /\ (disturbances = 0 => OnFoot)

-----------------------------------------------------------------------------
(* Joining is associative.                                                 *)
LEMMA JoinedTwice ==
  ASSUME NEW S, NEW s \in Seq(S), NEW t \in Seq(S),
         NEW u \in Seq(S), NEW st, st = s \o t, NEW tu, tu = t \o u
  PROVE  st \o u = s \o tu
<1> DEFINE left == st \o u
           right == s \o tu
<1>1. /\ st \in Seq(S) /\ Len(st) = Len(s) + Len(t)
      /\ \A i \in 1 .. Len(s) + Len(t) : st[i] = IF i <= Len(s) THEN s[i] ELSE t[i - Len(s)]
  BY ConcatProperties
<1>2. /\ tu \in Seq(S) /\ Len(tu) = Len(t) + Len(u)
      /\ \A i \in 1 .. Len(t) + Len(u) : tu[i] = IF i <= Len(t) THEN t[i] ELSE u[i - Len(t)]
  BY ConcatProperties
<1>3. /\ left \in Seq(S) /\ Len(left) = Len(st) + Len(u)
      /\ \A i \in 1 .. Len(st) + Len(u) : left[i] = IF i <= Len(st) THEN st[i] ELSE u[i - Len(st)]
  BY <1>1, ConcatProperties
<1>4. /\ right \in Seq(S) /\ Len(right) = Len(s) + Len(tu)
      /\ \A i \in 1 .. Len(s) + Len(tu) : right[i] = IF i <= Len(s) THEN s[i] ELSE tu[i - Len(s)]
  BY <1>2, ConcatProperties
<1>5. Len(s) \in Nat /\ Len(t) \in Nat /\ Len(u) \in Nat
  OBVIOUS
<1> HIDE DEF left, right
<1>6. ASSUME NEW i \in 1 .. Len(left) PROVE left[i] = right[i]
  <2>1. i \in 1 .. Len(st) + Len(u) /\ i \in 1 .. Len(s) + Len(tu)
    BY <1>1, <1>2, <1>3, <1>5
  <2>2. /\ left[i] = IF i <= Len(st) THEN st[i] ELSE u[i - Len(st)]
        /\ right[i] = IF i <= Len(s) THEN s[i] ELSE tu[i - Len(s)]
    BY <1>3, <1>4, <2>1
  <2>3. CASE i <= Len(s)
    <3>1. i \in 1 .. Len(s) + Len(t) /\ i <= Len(st)
      BY <1>1, <1>5, <2>3
    <3> QED BY <1>1, <2>2, <2>3, <3>1
  <2>4. CASE ~ (i <= Len(s)) /\ i <= Len(st)
    <3>1. i \in 1 .. Len(s) + Len(t) /\ i - Len(s) \in 1 .. Len(t) + Len(u) /\ i - Len(s) <= Len(t)
      BY <1>1, <1>5, <2>4
    <3> QED BY <1>1, <1>2, <2>2, <2>4, <3>1
  <2>5. CASE ~ (i <= Len(s)) /\ ~ (i <= Len(st))
    <3>1. /\ i - Len(s) \in 1 .. Len(t) + Len(u) /\ ~ (i - Len(s) <= Len(t))
          /\ (i - Len(s)) - Len(t) = i - Len(st)
      BY <1>1, <1>5, <2>1, <2>5
    <3> QED BY <1>1, <1>2, <2>2, <2>5, <3>1
  <2> QED BY <2>3, <2>4, <2>5
<1>7. Len(left) = Len(right)
  BY <1>1, <1>2, <1>3, <1>4, <1>5
<1>8. left = right
  BY <1>3, <1>4, <1>6, <1>7, SeqEqual
<1> QED BY <1>8 DEF left, right

(* What is left of the first m of some sequences after i of them.          *)
Leaves(S, seqs, m, later) ==
  /\ \A i \in 0 .. m : later[i] \in Seq(S)
  /\ later[m] = << >>
  /\ \A i \in 1 .. m : later[i - 1] = seqs[i] \o later[i]

(* What is left after no sequence is all of them, flattened.               *)
LEMMA LeftOfAll ==
  ASSUME NEW S, NEW seqs \in Seq(Seq(S))
  PROVE  \E later : Leaves(S, seqs, Len(seqs), later) /\ later[0] = FlattenSeq(seqs)
<1>1. CASE seqs = << >>
  <2> DEFINE later == [i \in 0 .. 0 |-> << >>]
  <2>1. Len(seqs) = 0 /\ FlattenSeq(seqs) = << >>
    BY <1>1 DEF FlattenSeq
  <2>2. later[0] = << >> /\ << >> \in Seq(S) /\ 0 .. 0 = {0} /\ 1 .. 0 = {}
    OBVIOUS
  <2> HIDE DEF later
  <2> QED BY <2>1, <2>2 DEF Leaves
<1>2. CASE seqs # << >>
  <2>1. PICK g : /\ \A k \in 1 .. Len(seqs) : g[k] \in Seq(S)
                 /\ g[1] = seqs[1]
                 /\ \A k \in 2 .. Len(seqs) : g[k] = g[k - 1] \o seqs[k]
                 /\ FlattenSeq(seqs) = g[Len(seqs)]
    BY <1>2, FlattenSteps
  <2>2. Len(seqs) \in Nat \ {0} /\ \A k \in 1 .. Len(seqs) : seqs[k] \in Seq(S)
    BY <1>2
  <2> DEFINE Good == {m \in Nat : \E later : Leaves(S, seqs, m, later) /\ later[0] = g[m]}
  <2>3. 1 \in Good
    <3> DEFINE later == [i \in 0 .. 1 |-> IF i = 0 THEN seqs[1] ELSE << >>]
    <3>1. later[0] = seqs[1] /\ later[1] = << >>
      OBVIOUS
    <3>2. seqs[1] \in Seq(S) /\ << >> \in Seq(S)
      BY <2>2
    <3>3. seqs[1] \o << >> = seqs[1]
      BY <3>2, ConcatEmptySeq
    <3>4. (\A i \in 0 .. 1 : i = 0 \/ i = 1) /\ (\A i \in 1 .. 1 : i = 1) /\ 1 - 1 = 0
      OBVIOUS
    <3> HIDE DEF later
    <3>5. Leaves(S, seqs, 1, later)
      BY <3>1, <3>2, <3>3, <3>4 DEF Leaves
    <3> QED BY <2>1, <3>1, <3>5
  <2>4. ASSUME NEW m \in 2 .. Len(seqs), m - 1 \in Good PROVE m \in Good
    <3>1. PICK old : Leaves(S, seqs, m - 1, old) /\ old[0] = g[m - 1]
      BY <2>4
    <3>2. m \in Nat /\ m - 1 \in Nat /\ m - 1 # 0 /\ m \in 1 .. Len(seqs)
      BY <2>2
    <3>3. seqs[m] \in Seq(S) /\ << >> \in Seq(S)
      BY <2>2, <3>2
    <3> DEFINE later == [i \in 0 .. m |-> IF i = m THEN << >> ELSE old[i] \o seqs[m]]
    <3>4. later[m] = << >> /\ \A i \in 0 .. m - 1 : later[i] = old[i] \o seqs[m]
      <4>1. ASSUME NEW i \in 0 .. m - 1 PROVE i \in 0 .. m /\ i # m
        BY <3>2
      <4>2. m \in 0 .. m
        BY <3>2
      <4> QED BY <4>1, <4>2
    <3> HIDE DEF later
    <3>5. \A i \in 0 .. m - 1 : old[i] \in Seq(S)
      BY <3>1 DEF Leaves
    <3>6. ASSUME NEW i \in 0 .. m PROVE later[i] \in Seq(S)
      <4>1. CASE i = m
        BY <3>3, <3>4, <4>1
      <4>2. CASE i # m
        <5>1. i \in 0 .. m - 1
          BY <3>2, <4>2
        <5>2. later[i] = old[i] \o seqs[m] /\ old[i] \in Seq(S)
          BY <3>4, <3>5, <5>1
        <5> QED BY <3>3, <5>2
      <4> QED BY <4>1, <4>2
    <3>7. ASSUME NEW i \in 1 .. m PROVE later[i - 1] = seqs[i] \o later[i]
      <4>1. CASE i = m
        <5>1. later[m - 1] = old[m - 1] \o seqs[m]
          <6>1. m - 1 \in 0 .. m - 1
            BY <3>2
          <6> QED BY <3>4, <6>1
        <5>2. old[m - 1] = << >>
          BY <3>1 DEF Leaves
        <5>3. << >> \o seqs[m] = seqs[m] /\ seqs[m] \o << >> = seqs[m]
          BY <3>3, ConcatEmptySeq
        <5> QED BY <3>4, <4>1, <5>1, <5>2, <5>3
      <4>2. CASE i # m
        <5>1. i \in 1 .. m - 1 /\ i \in 0 .. m - 1 /\ i - 1 \in 0 .. m - 1 /\ i \in 1 .. Len(seqs)
          BY <3>2, <4>2
        <5>2. old[i - 1] = seqs[i] \o old[i]
          BY <3>1, <5>1 DEF Leaves
        <5>3. later[i - 1] = (seqs[i] \o old[i]) \o seqs[m] /\ later[i] = old[i] \o seqs[m]
          BY <3>4, <5>1, <5>2
        <5>4. seqs[i] \in Seq(S) /\ old[i] \in Seq(S)
          BY <2>2, <3>5, <5>1
        <5>5. (seqs[i] \o old[i]) \o seqs[m] = seqs[i] \o (old[i] \o seqs[m])
          <6>1. PICK s \in Seq(S), t \in Seq(S), u \in Seq(S) :
                  s = seqs[i] /\ t = old[i] /\ u = seqs[m]
            BY <3>3, <5>4
          <6>2. PICK st, tu : st = s \o t /\ tu = t \o u
            OBVIOUS
          <6>3. st \o u = s \o tu
            BY <6>2, JoinedTwice, SMTT(30)
          <6> QED BY <6>1, <6>2, <6>3
        <5> QED BY <5>3, <5>5
      <4> QED BY <4>1, <4>2
    <3>8. Leaves(S, seqs, m, later)
      BY <3>4, <3>6, <3>7 DEF Leaves
    <3>9. later[0] = g[m]
      <4>1. 0 \in 0 .. m - 1
        BY <3>2
      <4> QED BY <2>1, <3>1, <3>4, <4>1
    <3> QED BY <3>2, <3>8, <3>9
  <2>5. \A m \in 1 .. Len(seqs) : m \in Good
    <3>1. Len(seqs) \in Int
      BY <2>2
    <3> HIDE DEF Good
    <3> QED BY <2>3, <2>4, <3>1, ClimbsFromOne
  <2> QED BY <2>1, <2>2, <2>5
<1> QED BY <1>1, <1>2

(* What is left of two sequences put together, after all but the last part *)
(* of the first.                                                           *)
LEMMA LeftOfTwo ==
  ASSUME NEW S, NEW s \in Seq(S), NEW l \in Seq(S), NEW j \in 1 .. Len(s)
  PROVE  /\ Rest(s, j, l) # << >> /\ Head(Rest(s, j, l)) = s[j]
         /\ j < Len(s) => Tail(Rest(s, j, l)) = Rest(s, j + 1, l)
         /\ j = Len(s) => Tail(Rest(s, j, l)) = l
         /\ Rest(s, 1, l) = s \o l
<1> DEFINE ops == Rest(s, j, l)
<1>12. Rest(s, 1, l) = s \o l
  BY SubSeqFull DEF Rest
<1>1. j \in Int /\ Len(s) \in Int /\ \A i \in j .. Len(s) : s[i] \in S
  OBVIOUS
<1>2. /\ SubSeq(s, j, Len(s)) \in Seq(S) /\ Len(SubSeq(s, j, Len(s))) = Len(s) - j + 1
      /\ \A i \in 1 .. Len(s) - j + 1 : SubSeq(s, j, Len(s))[i] = s[j + i - 1]
  BY <1>1, SubSeqProperties
<1> DEFINE first == SubSeq(s, j, Len(s))
<1>3. first \in Seq(S) /\ Len(first) \in Nat \ {0} /\ first[1] = s[j]
  BY <1>2
<1> HIDE DEF first
<1>4. ops = first \o l
  BY DEF first, Rest
<1> HIDE DEF ops
<1>5. /\ ops \in Seq(S) /\ Len(ops) = Len(first) + Len(l)
      /\ \A i \in 1 .. Len(first) + Len(l) :
           ops[i] = IF i <= Len(first) THEN first[i] ELSE l[i - Len(first)]
  BY <1>3, <1>4, ConcatProperties
<1>6. ops # << >> /\ Len(l) \in Nat
  <2>1. Len(l) \in Nat
    OBVIOUS
  <2>2. Len(ops) # 0
    BY <1>3, <1>5, <2>1
  <2> QED BY <2>1, <2>2
<1>7. Head(ops) = s[j]
  <2>1. ops[1] = first[1]
    BY <1>3, <1>5, <1>6
  <2> QED BY <1>3, <1>5, <1>6, <2>1
<1>8. /\ Tail(ops) \in Seq(S) /\ Len(Tail(ops)) = Len(ops) - 1
      /\ \A i \in 1 .. Len(Tail(ops)) : Tail(ops)[i] = ops[i + 1]
  BY <1>5, <1>6, HeadTailProperties
<1>9. CASE j < Len(s)
  <2> DEFINE rest == SubSeq(s, j + 1, Len(s))
  <2>1. /\ rest \in Seq(S) /\ Len(rest) = Len(s) - j
        /\ \A i \in 1 .. Len(s) - j : rest[i] = s[j + i]
    <3>1. j + 1 \in Int /\ j + 1 <= Len(s) /\ \A i \in j + 1 .. Len(s) : s[i] \in S
      BY <1>1, <1>9
    <3>2. /\ rest \in Seq(S)
          /\ Len(rest) = IF j + 1 <= Len(s) THEN Len(s) - (j + 1) + 1 ELSE 0
          /\ \A i \in 1 .. Len(s) - (j + 1) + 1 : rest[i] = s[(j + 1) + i - 1]
      BY <1>1, <3>1, SubSeqProperties
    <3>3. Len(s) - (j + 1) + 1 = Len(s) - j /\ \A i \in Int : (j + 1) + i - 1 = j + i
      BY <1>1
    <3> QED BY <3>1, <3>2, <3>3
  <2> HIDE DEF rest
  <2>2. /\ rest \o l \in Seq(S) /\ Len(rest \o l) = Len(rest) + Len(l)
        /\ \A i \in 1 .. Len(rest) + Len(l) :
             (rest \o l)[i] = IF i <= Len(rest) THEN rest[i] ELSE l[i - Len(rest)]
    BY <2>1, ConcatProperties
  <2>3. Len(first) = Len(rest) + 1 /\ \A i \in 1 .. Len(rest) : rest[i] = first[i + 1]
    <3>1. Len(first) = Len(s) - j + 1 /\ \A i \in 1 .. Len(s) - j + 1 : first[i] = s[j + i - 1]
      BY <1>2 DEF first
    <3>2. ASSUME NEW i \in 1 .. Len(rest) PROVE rest[i] = first[i + 1]
      <4>1. i + 1 \in 1 .. Len(s) - j + 1 /\ j + (i + 1) - 1 = j + i
        BY <1>1, <2>1
      <4> QED BY <2>1, <3>1, <4>1
    <3> QED BY <1>1, <2>1, <3>1, <3>2
  <2>4. Len(Tail(ops)) = Len(rest \o l) /\ Len(rest) \in Nat
    BY <1>5, <1>6, <1>8, <2>1, <2>2, <2>3
  <2>5. ASSUME NEW i \in 1 .. Len(Tail(ops)) PROVE Tail(ops)[i] = (rest \o l)[i]
    <3>1. i + 1 \in 1 .. Len(first) + Len(l) /\ i \in 1 .. Len(rest) + Len(l)
      BY <1>5, <1>6, <1>8, <2>3, <2>4
    <3>2. CASE i <= Len(rest)
      BY <1>5, <1>8, <2>2, <2>3, <2>4, <3>1, <3>2
    <3>3. CASE ~ (i <= Len(rest))
      <4>1. (i + 1) - Len(first) = i - Len(rest) /\ ~ (i + 1 <= Len(first))
        BY <2>3, <2>4, <3>3
      <4> QED BY <1>5, <1>8, <2>2, <3>1, <3>3, <4>1
    <3> QED BY <3>2, <3>3
  <2>6. Tail(ops) = rest \o l
    BY <1>8, <2>2, <2>4, <2>5, SeqEqual
  <2>7. Tail(ops) = Rest(s, j + 1, l)
    BY <2>6 DEF rest, Rest
  <2>8. j # Len(s)
    BY <1>1, <1>9
  <2> QED BY <1>6, <1>7, <1>12, <2>7, <2>8 DEF ops
<1>10. CASE j = Len(s)
  <2>1. Len(first) = 1
    BY <1>1, <1>2, <1>10 DEF first
  <2>2. Len(Tail(ops)) = Len(l)
    BY <1>5, <1>6, <1>8, <2>1
  <2>3. ASSUME NEW i \in 1 .. Len(Tail(ops)) PROVE Tail(ops)[i] = l[i]
    <3>1. i + 1 \in 1 .. Len(first) + Len(l) /\ ~ (i + 1 <= Len(first)) /\ (i + 1) - Len(first) = i
      BY <1>6, <2>1, <2>2
    <3> QED BY <1>5, <1>8, <3>1
  <2>4. Tail(ops) = l
    BY <1>8, <2>2, <2>3, SeqEqual
  <2> QED BY <1>1, <1>6, <1>7, <1>10, <1>12, <2>4 DEF ops
<1>11. j < Len(s) \/ j = Len(s)
  BY <1>1
<1> QED BY <1>9, <1>10, <1>11

-----------------------------------------------------------------------------
(* What the operations of an action are.                                   *)
LEMMA ScriptIsScript ==
  ASSUME NEW a \in Actions, foot \in Positions
  PROVE  IsScript(Script(a), a)
<1> DEFINE digs == [i \in DOMAIN a.digs |-> Op("dig", a.digs[i])]
           first == IF a.kind = "digDropSelfPlaced" THEN <<Op("centre", foot)>> ELSE << >>
           end == Op(EndKind(a.kind), a.toFoot)
           fd == first \o digs
           script == Script(a)
<1>1. a.digs \in Seq(Positions) /\ a.toFoot \in Positions /\ a.kind \in Kinds
  BY DEF Actions
<1>2. /\ EndKind(a.kind) = CASE a.kind \in {"walk", "jumpUp", "digWalk", "digStepUp"} -> "move"
                             [] a.kind \in {"drop1", "digStepDown"} -> "drop"
                             [] a.kind = "placeUp1" -> "place"
                             [] a.kind = "digDropSelfPlaced" -> "settle"
      /\ EndKind(a.kind) \in WalkKinds
  BY <1>1 DEF EndKind, Kinds, WalkKinds
<1>3. script = fd \o <<end>>
  BY <1>2 DEF Script
<1>4. script \in Seq(WalkOps)
  BY ScriptTypes
<1>5. /\ digs \in Seq(WalkOps) /\ Len(digs) = Len(a.digs) /\ Len(a.digs) \in Nat
      /\ \A k \in 1 .. Len(a.digs) : digs[k] = Op("dig", a.digs[k])
  <2>1. DOMAIN a.digs = 1 .. Len(a.digs) /\ Len(a.digs) \in Nat
    BY <1>1
  <2>2. ASSUME NEW i \in DOMAIN a.digs PROVE Op("dig", a.digs[i]) \in WalkOps
    <3>1. a.digs[i] \in Positions
      BY <1>1
    <3> QED BY <3>1 DEF Op, WalkOps, WalkKinds
  <2> QED BY <2>1, <2>2
<1>6. first \in Seq(WalkOps) /\ \A k \in 1 .. Len(first) : first[k] = Op("centre", foot)
  <2>1. Op("centre", foot) \in WalkOps
    BY DEF Op, WalkOps, WalkKinds
  <2> HIDE DEF Op, WalkOps
  <2> QED BY <2>1
<1>7. end \in WalkOps
  BY <1>1, <1>2 DEF Op, WalkOps
<1> HIDE DEF first, digs, end
<1>8. /\ fd \in Seq(WalkOps) /\ Len(fd) = Len(first) + Len(digs)
      /\ \A k \in 1 .. Len(first) + Len(digs) :
           fd[k] = IF k <= Len(first) THEN first[k] ELSE digs[k - Len(first)]
  <2>1. first \in Seq(WalkOps) /\ digs \in Seq(WalkOps)
    BY <1>5, <1>6
  <2> HIDE DEF WalkOps
  <2> QED BY <2>1, ConcatProperties
<1> HIDE DEF fd
<1>9. /\ Len(script) = Len(fd) + 1 /\ script[Len(script)] = end /\ Len(fd) \in Nat
      /\ \A k \in 1 .. Len(fd) : script[k] = fd[k]
  <2>1. <<end>> \in Seq(WalkOps) /\ Len(<<end>>) = 1 /\ <<end>>[1] = end
    BY <1>7
  <2>2. /\ Len(fd \o <<end>>) = Len(fd) + Len(<<end>>)
        /\ \A k \in 1 .. Len(fd) + Len(<<end>>) :
             (fd \o <<end>>)[k] = IF k <= Len(fd) THEN fd[k] ELSE <<end>>[k - Len(fd)]
    BY <1>8, <2>1, ConcatProperties
  <2>3. Len(fd) \in Nat
    BY <1>8
  <2> QED BY <1>3, <2>1, <2>2, <2>3
<1> HIDE DEF script
<1>10. script # << >>
  <2>1. Len(script) # 0
    BY <1>9
  <2> QED BY <2>1
<1>11. ASSUME NEW m \in 1 .. Len(script) - 1
       PROVE  \/ script[m].kind = "centre"
              \/ script[m].kind = "dig" /\ script[m].to \in ToSet(a.digs)
  <2>1. m \in 1 .. Len(fd) /\ script[m] = fd[m] /\ Len(first) \in Nat /\ m \in Nat
    BY <1>6, <1>9
  <2>2. CASE m <= Len(first)
    <3>1. script[m] = Op("centre", foot)
      BY <1>6, <1>8, <2>1, <2>2
    <3> QED BY <3>1 DEF Op
  <2>3. CASE ~ (m <= Len(first))
    <3>1. m - Len(first) \in 1 .. Len(a.digs)
      BY <1>5, <1>8, <2>1, <2>3
    <3>2. script[m] = Op("dig", a.digs[m - Len(first)])
      BY <1>5, <1>8, <2>1, <2>3, <3>1
    <3>3. a.digs[m - Len(first)] \in ToSet(a.digs)
      BY <1>1, <3>1 DEF ToSet
    <3> QED BY <3>2, <3>3 DEF Op
  <2> QED BY <2>2, <2>3
<1>12. ASSUME NEW p \in ToSet(a.digs)
       PROVE  \E m \in 1 .. Len(script) - 1 : script[m] = Op("dig", p)
  <2>1. PICK k \in 1 .. Len(a.digs) : a.digs[k] = p
    BY <1>1 DEF ToSet
  <2>2. Len(first) \in Nat
    BY <1>6
  <2>3. /\ Len(first) + k \in 1 .. Len(first) + Len(digs) /\ ~ (Len(first) + k <= Len(first))
        /\ (Len(first) + k) - Len(first) = k /\ Len(first) + k \in 1 .. Len(fd)
        /\ Len(first) + k \in 1 .. Len(script) - 1
    BY <1>5, <1>8, <1>9, <2>2
  <2>4. script[Len(first) + k] = Op("dig", p)
    BY <1>5, <1>8, <1>9, <2>1, <2>3
  <2> QED BY <2>3, <2>4
<1>13. script[Len(script)] = Op(EndKind(a.kind), a.toFoot)
  BY <1>9 DEF end
<1>14. script \in Seq(WalkOps)
  BY <1>4 DEF script
<1>15. IsScript(script, a)
  BY <1>10, <1>11, <1>12, <1>13, <1>14 DEF IsScript
<1> QED BY <1>15 DEF script

(* What the cells hold after one action more.                              *)
LEMMA ReplayedStep ==
  ASSUME NEW steps \in Seq(Actions), NEW i \in 1 .. Len(steps), NEW p
  PROVE  CellAfter(steps, i, p) =
           IF Fills(steps, i, p) THEN "rock"
           ELSE IF p \in ToSet(steps[i].digs) THEN "air" ELSE CellAfter(steps, i - 1, p)
<1>1. i \in Touching(steps, i, p) <=> Fills(steps, i, p) \/ p \in ToSet(steps[i].digs)
  BY DEF Touching
<1>2. \A j \in Touching(steps, i, p) : j \in Nat /\ j <= i
  BY DEF Touching
<1>3. Touching(steps, i, p) \ {i} = Touching(steps, i - 1, p)
  <2>1. ASSUME NEW j
        PROVE  j \in Touching(steps, i, p) \ {i} <=> j \in Touching(steps, i - 1, p)
    <3>1. j \in 1 .. i /\ j # i <=> j \in 1 .. i - 1
      OBVIOUS
    <3> QED BY <3>1 DEF Touching
  <2> QED BY <2>1
<1>4. CASE Fills(steps, i, p)
  <2>1. i \in Touching(steps, i, p) /\ \A k \in Touching(steps, i, p) : k <= i
    BY <1>1, <1>2, <1>4
  <2> QED BY <1>4, <2>1 DEF CellAfter
<1>5. CASE ~ Fills(steps, i, p) /\ p \in ToSet(steps[i].digs)
  <2>1. i \in Touching(steps, i, p)
    BY <1>1, <1>5
  <2>2. ASSUME NEW j \in Touching(steps, i, p), \A k \in Touching(steps, i, p) : k <= j
        PROVE  j = i
    BY <1>2, <2>1, <2>2
  <2> QED BY <1>5, <2>1, <2>2 DEF CellAfter
<1>6. CASE ~ Fills(steps, i, p) /\ p \notin ToSet(steps[i].digs)
  <2>1. Touching(steps, i, p) = Touching(steps, i - 1, p)
    BY <1>1, <1>3, <1>6
  <2> QED BY <1>6, <2>1 DEF CellAfter
<1> QED BY <1>4, <1>5, <1>6

(* Standing somewhere, in a walk and in the replay of its actions.         *)
LEMMA StandsInFacts ==
  ASSUME NEW cells, NEW steps, NEW i, \A p \in Positions : cells[p] = CellAfter(steps, i, p),
         NEW p \in Positions
  PROVE  StandsAfter(steps, i, p) <=> StandsIn(cells, p)
<1>1. /\ Above(p, 0) = p /\ Above(p, 1) \in Positions /\ Above(p, -1) \in Positions
  BY AboveFacts
<1>2. /\ cells[Above(p, -1)] = CellAfter(steps, i, Above(p, -1))
      /\ cells[p] = CellAfter(steps, i, Above(p, 0))
      /\ cells[Above(p, 1)] = CellAfter(steps, i, Above(p, 1))
  BY <1>1
<1>3. \A h \in 0 .. 1 : h = 0 \/ h = 1
  OBVIOUS
<1>4. 0 \in 0 .. 1 /\ 1 \in 0 .. 1
  OBVIOUS
<1>5. (\A h \in 0 .. 1 : IsAirBlock(CellAfter(steps, i, Above(p, h))))
        <=> IsAirBlock(CellAfter(steps, i, Above(p, 0)))
            /\ IsAirBlock(CellAfter(steps, i, Above(p, 1)))
  BY <1>3, <1>4
<1> QED BY <1>2, <1>5 DEF StandsAfter, StandsIn

(* A plan, seen as the actions it consists of.                             *)
Replays(walk) ==
  /\ walk.steps = search.plan.actions
  /\ \A i \in 0 .. Len(walk.steps) :
       /\ walk.at[i] = FootAfter(walk.steps, i)
       /\ \A p \in Positions : walk.cell[i][p] = CellAfter(walk.steps, i, p)

LEMMA PlanIsRoute ==
  ASSUME NEW walk, Replays(walk), LeadsThere(search.plan), search.start = foot,
         foot \in Positions
  PROVE  /\ IsRoute(walk) /\ walk.at[0] = foot /\ walk.at[Len(walk.steps)] = search.plan.finalFoot
         /\ \A p \in Positions : walk.cell[0][p] = Block(p)
<1> DEFINE steps == walk.steps
<1>1. steps \in Seq(Actions) /\ StepsAreExecutable(steps)
  BY DEF LeadsThere, Replays
<1>2. DOMAIN steps = 1 .. Len(steps) /\ Len(steps) \in Nat
  BY <1>1
<1>3. ASSUME NEW i \in 1 .. Len(steps) PROVE steps[i] \in Actions
  BY <1>1
<1>4. /\ \A i \in 0 .. Len(steps) : walk.at[i] = FootAfter(steps, i)
      /\ \A i \in 0 .. Len(steps) : \A p \in Positions :
           walk.cell[i][p] = CellAfter(steps, i, p)
      /\ walk.steps = steps
  BY DEF Replays
<1>5. FootAfter(steps, Len(steps)) = search.plan.finalFoot
  BY DEF LeadsThere, Replays
<1> HIDE DEF steps
<1>6. \A p : CellAfter(steps, 0, p) = Block(p)
  <2>1. 1 .. 0 = {}
    OBVIOUS
  <2> QED BY <2>1 DEF CellAfter, Touching
<1>7. ASSUME NEW i \in 0 .. Len(steps) PROVE FootAfter(steps, i) \in Positions
  <2>1. CASE i = 0
    BY <2>1 DEF FootAfter
  <2>2. CASE i # 0
    <3>1. i \in 1 .. Len(steps)
      BY <2>2
    <3>2. steps[i] \in Actions
      BY <1>3, <3>1
    <3> QED BY <2>2, <3>2 DEF FootAfter, Actions
  <2> QED BY <2>1, <2>2
<1>10. ASSUME NEW i \in 1 .. Len(steps) PROVE IsAction(walk, i)
  <2>1. i \in 0 .. Len(steps) /\ i - 1 \in 0 .. Len(steps) /\ i # 0
    BY <1>2
  <2>2. steps[i] \in Actions /\ StepIsExecutable(steps, i)
    BY <1>1, <1>2, <1>3 DEF StepsAreExecutable
  <2>3. /\ KindOf(walk, i) = steps[i].kind /\ DigsOf(walk, i) = ToSet(steps[i].digs)
        /\ From(walk, i) = FootAfter(steps, i - 1) /\ To(walk, i) = FootAfter(steps, i)
        /\ walk.at[i] = walk.steps[i].toFoot
    BY <1>4, <2>1 DEF KindOf, DigsOf, From, To, FootAfter
  <2>4. /\ KindOf(walk, i) \in Kinds /\ To(walk, i) \in Positions /\ From(walk, i) \in Positions
        /\ DigsOf(walk, i) \subseteq Positions
    <3>1. steps[i].kind \in Kinds /\ steps[i].digs \in Seq(Positions)
      BY <2>2 DEF Actions
    <3>2. ToSet(steps[i].digs) \subseteq Positions
      BY <3>1 DEF ToSet
    <3> QED BY <1>7, <2>1, <2>3, <3>1, <3>2
  <2>5. /\ \A p \in Positions : walk.cell[i][p] = CellAfter(steps, i, p)
        /\ \A p \in Positions : Before(walk, i)[p] = CellAfter(steps, i - 1, p)
    BY <1>4, <2>1 DEF Before
  <2>6. CellsFollow(walk, i)
    <3>1. \A p : Fills(steps, i, p) <=> KindOf(walk, i) = "placeUp1" /\ p = From(walk, i)
      BY <2>3 DEF Fills
    <3>2. \A p : CellAfter(steps, i, p) =
                   IF Fills(steps, i, p) THEN "rock"
                   ELSE IF p \in ToSet(steps[i].digs) THEN "air" ELSE CellAfter(steps, i - 1, p)
      BY <1>1, ReplayedStep
    <3> QED BY <2>3, <2>5, <3>1, <3>2 DEF CellsFollow
  <2>7. /\ StandsAfter(steps, i - 1, From(walk, i)) => Firm(walk, i)
        /\ StandsAfter(steps, i, To(walk, i)) => StandsIn(walk.cell[i], To(walk, i))
    BY <2>4, <2>5, StandsInFacts DEF Firm
  <2>8. /\ StandsIn(walk.cell[i], To(walk, i))
        /\ \A p \in DigsOf(walk, i) : IsDiggableBlock(Before(walk, i)[p])
    BY <2>2, <2>3, <2>4, <2>5, <2>7 DEF StepIsExecutable
  <2>9. /\ KindOf(walk, i) = "placeUp1" =>
             To(walk, i) = Above(From(walk, i), 1) /\ From(walk, i) \notin DigsOf(walk, i)
        /\ KindOf(walk, i) = "digDropSelfPlaced" => To(walk, i) = Above(From(walk, i), -1)
        /\ KindOf(walk, i) \in {"placeUp1", "digDropSelfPlaced"} => Firm(walk, i)
        /\ KindOf(walk, i) # "digDropSelfPlaced" =>
             \A p \in DigsOf(walk, i) : ~ IsUnder(p, From(walk, i))
    BY <2>2, <2>3, <2>7 DEF StepIsExecutable
  <2> QED BY <2>3, <2>4, <2>6, <2>8, <2>9 DEF IsAction
<1>11. Steps(walk) = 1 .. Len(steps)
  BY <1>4 DEF Steps
<1>12. IsRoute(walk)
  BY <1>2, <1>4, <1>10, <1>11 DEF IsRoute
<1>13. walk.at[0] = foot /\ \A p \in Positions : walk.cell[0][p] = Block(p)
  <2>1. 0 \in 0 .. Len(steps) /\ FootAfter(steps, 0) = foot
    BY <1>2 DEF FootAfter
  <2> QED BY <1>4, <1>6, <2>1
<1>14. walk.at[Len(steps)] = search.plan.finalFoot
  <2>1. Len(steps) \in 0 .. Len(steps)
    BY <1>2
  <2> QED BY <1>4, <1>5, <2>1
<1> QED BY <1>12, <1>13, <1>14 DEF steps

(* The plan that is found is a walk from where the bot stands.             *)
PlansWalk(walk) ==
  /\ IsWalk(walk) /\ walk.steps = search.plan.actions /\ walk.at[0] = foot
  /\ \A p \in Positions : walk.cell[0][p] = Block(p)
  /\ walk.later[0] =
       FlattenSeq([i \in DOMAIN search.plan.actions |-> Script(search.plan.actions[i])])

LEMMA PlanIsWalk ==
  ASSUME Ready, LeadsThere(search.plan)
  PROVE  \E walk : PlansWalk(walk)
<1> DEFINE steps == search.plan.actions
           scripts == [i \in DOMAIN steps |-> Script(steps[i])]
<1>1. steps \in Seq(Actions) /\ foot = search.start /\ foot \in Positions
  BY DEF LeadsThere, Ready
<1>2. DOMAIN steps = 1 .. Len(steps) /\ Len(steps) \in Nat
  BY <1>1
<1>3. ASSUME NEW i \in 1 .. Len(steps)
      PROVE  steps[i] \in Actions /\ IsScript(Script(steps[i]), steps[i])
  <2>1. steps[i] \in Actions
    BY <1>1
  <2> QED BY <1>1, <2>1, ScriptIsScript
<1>4. scripts \in Seq(Seq(WalkOps)) /\ Len(scripts) = Len(steps)
  <2>1. \A i \in 1 .. Len(steps) : Script(steps[i]) \in Seq(WalkOps)
    BY <1>3 DEF IsScript
  <2> QED BY <1>2, <2>1
<1>5. PICK later : Leaves(WalkOps, scripts, Len(scripts), later) /\ later[0] = FlattenSeq(scripts)
  <2> HIDE DEF scripts
  <2> QED BY <1>4, LeftOfAll
<1> DEFINE walk == [steps |-> steps, at |-> [i \in 0 .. Len(steps) |-> FootAfter(steps, i)],
                    cell |-> [i \in 0 .. Len(steps) |->
                                [p \in Positions |-> CellAfter(steps, i, p)]],
                    scripts |-> scripts, later |-> later]
<1>6. /\ walk.steps = steps /\ walk.later = later
      /\ \A i \in 1 .. Len(steps) : walk.scripts[i] = Script(steps[i])
      /\ \A i \in 0 .. Len(steps) : walk.at[i] = FootAfter(steps, i)
      /\ \A i \in 0 .. Len(steps) : \A p \in Positions :
           walk.cell[i][p] = CellAfter(steps, i, p)
  BY <1>2
<1> HIDE DEF walk
<1>7. Replays(walk)
  BY <1>6 DEF Replays
<1>8. IsRoute(walk) /\ walk.at[0] = foot /\ \A p \in Positions : walk.cell[0][p] = Block(p)
  BY <1>1, <1>7, PlanIsRoute
<1> HIDE DEF steps
<1>11. Steps(walk) = 1 .. Len(steps)
  BY <1>6 DEF Steps
<1>12. /\ walk.later[Len(steps)] = << >>
       /\ \A i \in 1 .. Len(steps) : /\ walk.later[i] \in Seq(WalkOps)
                                     /\ walk.later[i - 1] = walk.scripts[i] \o walk.later[i]
  <2>1. \A i \in 1 .. Len(steps) : scripts[i] = Script(steps[i])
    BY <1>2
  <2> HIDE DEF scripts
  <2>2. \A i \in 1 .. Len(steps) : i \in 0 .. Len(steps)
    OBVIOUS
  <2> QED BY <1>4, <1>5, <1>6, <2>1, <2>2 DEF Leaves
<1>13. IsWalk(walk)
  <2>1. \A i \in 1 .. Len(steps) : IsScript(walk.scripts[i], walk.steps[i])
    BY <1>3, <1>6
  <2> QED BY <1>6, <1>8, <1>11, <1>12, <2>1 DEF IsWalk
<1>15. walk.later[0] = FlattenSeq(scripts)
  BY <1>5, <1>6
<1>16. PlansWalk(walk)
  BY <1>6, <1>8, <1>13, <1>15 DEF PlansWalk, steps
<1> QED BY <1>16

-----------------------------------------------------------------------------
(* What the operation j of an action is.                                   *)
LEMMA OpFacts ==
  ASSUME NEW walk, IsWalk(walk), NEW i \in Steps(walk), NEW j \in 1 .. Len(walk.scripts[i])
  PROVE  LET op == walk.scripts[i][j]
         IN  /\ op \in WalkOps /\ Len(walk.scripts[i]) \in Nat /\ j \in Nat
             /\ op.kind \in {"dig", "centre"} => j < Len(walk.scripts[i])
             /\ op.kind = "dig" => op.to \in DigsOf(walk, i)
             /\ op.kind = "place" <=> j = Len(walk.scripts[i]) /\ KindOf(walk, i) = "placeUp1"
             /\ op.kind \in {"move", "drop", "settle"} =>
                  op.to = To(walk, i) /\ KindOf(walk, i) # "placeUp1"
             /\ op.kind \notin {"dig", "centre"} => j = Len(walk.scripts[i])
<1> DEFINE script == walk.scripts[i]
           op == script[j]
<1>1. IsAction(walk, i) /\ IsScript(script, walk.steps[i])
  BY DEF IsWalk, IsRoute
<1>2. /\ script \in Seq(WalkOps) /\ script[Len(script)] = Op(EndKind(KindOf(walk, i)), To(walk, i))
      /\ \A m \in 1 .. Len(script) - 1 :
           \/ script[m].kind = "centre"
           \/ script[m].kind = "dig" /\ script[m].to \in DigsOf(walk, i)
  BY <1>1 DEF IsScript, IsAction, KindOf, DigsOf, To
<1> HIDE DEF script
<1>3. j \in 1 .. Len(script)
  BY DEF script
<1>4. op \in WalkOps /\ Len(script) \in Nat /\ j \in Nat
  BY <1>2, <1>3
<1>5. KindOf(walk, i) \in Kinds
  BY <1>1 DEF IsAction
<1>6. /\ EndKind(KindOf(walk, i)) \in {"move", "drop", "place", "settle"}
      /\ EndKind(KindOf(walk, i)) = "place" <=> KindOf(walk, i) = "placeUp1"
  BY <1>5 DEF EndKind, Kinds
<1>7. CASE j = Len(script)
  <2>1. op.kind = EndKind(KindOf(walk, i)) /\ op.to = To(walk, i)
    BY <1>2, <1>7 DEF Op
  <2> QED BY <1>4, <1>6, <1>7, <2>1 DEF script
<1>8. CASE j # Len(script)
  <2>1. j \in 1 .. Len(script) - 1 /\ j < Len(script)
    BY <1>3, <1>4, <1>8
  <2>2. op.kind = "centre" \/ (op.kind = "dig" /\ op.to \in DigsOf(walk, i))
    BY <1>2, <2>1
  <2> QED BY <1>4, <1>8, <2>1, <2>2 DEF script
<1> QED BY <1>7, <1>8

(* A block changes.                                                        *)
LEMMA Lands ==
  ASSUME NEW at, NEW b, Block(at) # "unknown", world' = [world EXCEPT ![at] = b]
  PROVE  \A p : Block(p)' = IF p = at THEN b ELSE Block(p)
<1>1. at \in DOMAIN world
  BY DEF Block, ReadBlockAt
<1>2. DOMAIN world' = DOMAIN world /\ world'[at] = b
      /\ \A p \in DOMAIN world : p # at => world'[p] = world[p]
  BY <1>1
<1> QED BY <1>1, <1>2 DEF Block, ReadBlockAt

(* In the middle of a walk the cells are as far as they are in a plan.     *)
LEMMA MidIsPartly ==
  ASSUME NEW walk, NEW i, Mid(walk, i)
  PROVE  Partly(walk, i) /\ Between(walk, i)
BY DEF Mid, Partly, Alike, IsAirBlock

(* In the middle of an action the footing is there, where the action       *)
(* begins and where it ends, but for a block to be placed or dug by it.    *)
LEMMA FootingFacts ==
  ASSUME NEW walk, NEW i, IsAction(walk, i), Partly(walk, i)
  PROVE  /\ KindOf(walk, i) # "placeUp1" => IsSupportBlock(Block(Above(To(walk, i), -1)))
         /\ Firm(walk, i) /\ KindOf(walk, i) # "digDropSelfPlaced" =>
              IsSupportBlock(Block(Above(From(walk, i), -1)))
         /\ KindOf(walk, i) = "digDropSelfPlaced" => IsAirBlock(Block(From(walk, i)))
         /\ KindOf(walk, i) = "placeUp1" => IsAirBlock(Block(To(walk, i)))
<1> DEFINE from == From(walk, i)
           to == To(walk, i)
           kind == KindOf(walk, i)
           before == Before(walk, i)
           digs == DigsOf(walk, i)
           firm == Firm(walk, i)
<1>1. ~ IsSupportBlock("air") /\ IsAirBlock("air")
  BY DEF IsSupportBlock, IsAirBlock
<1>2. /\ from \in Positions /\ to \in Positions
      /\ \A p \in Positions :
           walk.cell[i][p] = IF kind = "placeUp1" /\ p = from THEN "rock"
                             ELSE IF p \in digs THEN "air" ELSE before[p]
  BY DEF IsAction, CellsFollow
<1>3. \A p \in Positions :
        \/ Alike(Block(p), before[p])
        \/ p \in digs /\ IsAirBlock(Block(p))
        \/ kind = "placeUp1" /\ p = from /\ Block(p) \in {"rock", "air"}
  BY DEF Partly
<1>4. /\ IsSupportBlock(walk.cell[i][Above(to, -1)])
      /\ firm => /\ IsSupportBlock(before[Above(from, -1)]) /\ IsAirBlock(before[from])
                 /\ IsAirBlock(before[Above(from, 1)])
      /\ kind \in {"placeUp1", "digDropSelfPlaced"} => firm
      /\ kind = "placeUp1" => to = Above(from, 1) /\ from \notin digs
      /\ kind # "digDropSelfPlaced" => \A p \in digs : ~ IsUnder(p, from)
  BY DEF IsAction, StandsIn, Firm
<1>5. \A b, c : Alike(b, c) => /\ (IsSupportBlock(c) => IsSupportBlock(b))
                              /\ (IsAirBlock(c) => IsAirBlock(b))
  BY DEF Alike, IsSupportBlock
<1> HIDE DEF from, to, kind, before, digs, firm
<1>6. Above(from, -1) \in Positions /\ Above(from, 1) \in Positions /\ Above(to, -1) \in Positions
  BY <1>2, AboveFacts
<1>7. Above(from, -1) # from /\ Above(from, 1) # from
  <2>1. \A j, k \in Int : Above(from, j) = Above(from, k) => j = k
    BY <1>2, AboveFacts
  <2>2. Above(from, 0) = from
    BY <1>2, AboveFacts
  <2>3. 0 \in Int /\ 1 \in Int /\ -1 \in Int /\ 0 # 1 /\ 0 # -1
    OBVIOUS
  <2> QED BY <2>1, <2>2, <2>3
<1>8. kind # "placeUp1" => IsSupportBlock(Block(Above(to, -1)))
  BY <1>1, <1>2, <1>3, <1>4, <1>5, <1>6
<1>9. firm /\ kind # "digDropSelfPlaced" => IsSupportBlock(Block(Above(from, -1)))
  <2>1. IsUnder(Above(from, -1), from)
    <3>1. -1 \in Int /\ -1 < 0
      OBVIOUS
    <3> QED BY <1>2, <1>6, <3>1, UnderFacts
  <2> QED BY <1>3, <1>4, <1>5, <1>6, <1>7, <2>1
<1>10. kind = "digDropSelfPlaced" => IsAirBlock(Block(from))
  BY <1>2, <1>3, <1>4, <1>5
<1>11. kind = "placeUp1" => IsAirBlock(Block(to))
  BY <1>2, <1>3, <1>4, <1>5, <1>6, <1>7
<1> QED BY <1>8, <1>9, <1>10, <1>11 DEF from, to, kind, firm

(* So if it is not, the bot falls one block, to where the action began or  *)
(* where it ends.                                                          *)
LEMMA MidFalls ==
  ASSUME NEW walk, NEW i, IsAction(walk, i), Partly(walk, i), Between(walk, i), Firm(walk, i),
         Unsupported
  PROVE  /\ Stands(world, Above(foot, -1))
         /\ \/ /\ KindOf(walk, i) = "placeUp1"
               /\ foot = To(walk, i) /\ Above(foot, -1) = From(walk, i)
            \/ /\ KindOf(walk, i) = "digDropSelfPlaced"
               /\ foot = From(walk, i) /\ Above(foot, -1) = To(walk, i)
<1>1. foot \in {From(walk, i), To(walk, i)} /\ From(walk, i) \in Positions
      /\ To(walk, i) \in Positions /\ IsAirBlock(Block(Above(foot, -1)))
  BY DEF Between, IsAction, Unsupported
<1>2. \A b : IsAirBlock(b) => ~ IsSupportBlock(b)
  BY DEF IsSupportBlock
<1>3. /\ KindOf(walk, i) = "placeUp1" => To(walk, i) = Above(From(walk, i), 1)
      /\ KindOf(walk, i) = "digDropSelfPlaced" => To(walk, i) = Above(From(walk, i), -1)
  BY DEF IsAction
<1>4. \A p \in Positions : /\ Above(Above(p, 1), -1) = p /\ Above(Above(p, -1), 1) = p
                           /\ Above(p, 0) = p
  BY AboveFacts
<1>5. ASSUME NEW p \in Positions, IsSupportBlock(Block(Above(p, -1))), IsAirBlock(Block(p)),
             IsAirBlock(Block(Above(p, 1)))
      PROVE  Stands(world, p)
  <2>1. \A h \in 0 .. 1 : h = 0 \/ h = 1
    OBVIOUS
  <2>2. \A h \in 0 .. 1 : IsAirBlock(Block(Above(p, h)))
    BY <1>4, <1>5, <2>1
  <2> QED BY <1>5, <2>2 DEF Stands, Block
<1>6. CASE KindOf(walk, i) = "placeUp1"
  <2>1. IsSupportBlock(Block(Above(From(walk, i), -1))) /\ IsAirBlock(Block(To(walk, i)))
    BY <1>6, FootingFacts
  <2>2. foot = To(walk, i) /\ Above(foot, -1) = From(walk, i)
    BY <1>1, <1>2, <1>3, <1>4, <1>6, <2>1
  <2> QED BY <1>1, <1>3, <1>5, <1>6, <2>1, <2>2
<1>7. CASE KindOf(walk, i) = "digDropSelfPlaced"
  <2>1. IsSupportBlock(Block(Above(To(walk, i), -1))) /\ IsAirBlock(Block(From(walk, i)))
    BY <1>7, FootingFacts
  <2>2. foot = From(walk, i) /\ Above(foot, -1) = To(walk, i)
    BY <1>1, <1>2, <1>3, <1>4, <1>7, <2>1
  <2> QED BY <1>1, <1>3, <1>4, <1>5, <1>7, <2>1, <2>2
<1>8. CASE KindOf(walk, i) \notin {"placeUp1", "digDropSelfPlaced"}
  BY <1>1, <1>2, <1>8, FootingFacts
<1> QED BY <1>6, <1>7, <1>8

(* A bot that was falling when the action began falls on, under where it   *)
(* was; it has not come to where the action ends.                          *)
LEMMA LooseFalls ==
  ASSUME NEW walk, NEW i, IsAction(walk, i), Partly(walk, i), Between(walk, i), ~ Firm(walk, i),
         Unsupported
  PROVE  /\ foot # To(walk, i) /\ foot \in Positions
         /\ Above(foot, -1) \in Positions /\ IsUnder(Above(foot, -1), From(walk, i))
<1>1. KindOf(walk, i) # "placeUp1" /\ From(walk, i) \in Positions /\ To(walk, i) \in Positions
  BY DEF IsAction
<1>2. foot # To(walk, i)
  BY <1>1, FootingFacts DEF Unsupported, IsSupportBlock
<1>3. foot = From(walk, i) \/ (foot \in Positions /\ IsUnder(foot, From(walk, i)))
  BY <1>2 DEF Between
<1>4. foot \in Positions /\ -1 \in Int /\ Above(foot, -1) \in Positions
  BY <1>1, <1>3, AboveFacts
<1>5. PICK k \in Int : k <= 0 /\ foot = Above(From(walk, i), k)
  <2>1. CASE foot = From(walk, i)
    <3>1. 0 \in Int /\ 0 <= 0 /\ foot = Above(From(walk, i), 0)
      BY <1>1, <2>1, AboveFacts
    <3> QED BY <3>1
  <2>2. CASE IsUnder(foot, From(walk, i))
    <3>1. PICK k \in Int : k < 0 /\ foot = Above(From(walk, i), k)
      BY <1>1, <1>4, <2>2, UnderFacts
    <3> QED BY <3>1
  <2> QED BY <1>3, <2>1, <2>2
<1>6. k + -1 \in Int /\ k + -1 < 0
  BY <1>5
<1>7. Above(foot, -1) = Above(From(walk, i), k + -1)
  BY <1>1, <1>4, <1>5, AboveFacts
<1>8. IsUnder(Above(foot, -1), From(walk, i))
  BY <1>1, <1>4, <1>6, <1>7, UnderFacts
<1> QED BY <1>2, <1>4, <1>8

(* A fall stays in the middle of an action.                                *)
LEMMA FallsBetween ==
  ASSUME NEW walk, NEW i, IsAction(walk, i), Partly(walk, i), Between(walk, i), Falls
  PROVE  Between(walk, i)'
<1>1. Unsupported /\ foot' = Above(foot, -1)
  BY DEF Falls
<1>2. CASE Firm(walk, i)
  <2>1. foot' \in {From(walk, i), To(walk, i)}
    BY <1>1, <1>2, MidFalls
  <2> QED BY <2>1 DEF Between
<1>3. CASE ~ Firm(walk, i)
  <2>1. foot' \in Positions /\ IsUnder(foot', From(walk, i))
    BY <1>1, <1>3, LooseFalls
  <2> QED BY <1>3, <2>1 DEF Between
<1> QED BY <1>2, <1>3

(* The same after a step.                                                  *)
LEMMA MidFallsNext ==
  ASSUME NEW walk, NEW i, IsAction(walk, i)', Partly(walk, i)', Between(walk, i)',
         Firm(walk, i)', Unsupported'
  PROVE  (/\ Stands(world, Above(foot, -1))
          /\ \/ /\ KindOf(walk, i) = "placeUp1"
                /\ foot = To(walk, i) /\ Above(foot, -1) = From(walk, i)
             \/ /\ KindOf(walk, i) = "digDropSelfPlaced"
                /\ foot = From(walk, i) /\ Above(foot, -1) = To(walk, i))'
BY MidFalls, PTL

LEMMA LooseFallsNext ==
  ASSUME NEW walk, NEW i, IsAction(walk, i)', Partly(walk, i)', Between(walk, i)',
         (~ Firm(walk, i))', Unsupported'
  PROVE  (/\ foot # To(walk, i) /\ foot \in Positions
          /\ Above(foot, -1) \in Positions /\ IsUnder(Above(foot, -1), From(walk, i)))'
BY LooseFalls, PTL

(* A bot that loses its footing in the middle of an action stands again    *)
(* one block further down.  One that was falling when the action began     *)
(* loses no other: nothing is dug from under it, and where it goes there   *)
(* is a floor.                                                             *)
LEMMA LosesInTheMiddle ==
  ASSUME NEW walk, NEW i, IsAction(walk, i), Partly(walk, i)', Between(walk, i),
         Between(walk, i)', LosesFooting,
         \/ foot' = To(walk, i)
         \/ DigLands /\ (pending.at \in DigsOf(walk, i) \/ Firm(walk, i))
         \/ Firm(walk, i)
  PROVE  Stands(world', Above(foot', -1))
<1>1. Unsupported'
  BY DEF LosesFooting
<1>4. IsAction(walk, i)'
  BY DEF IsAction
<1>2. CASE Firm(walk, i)
  <2>0. Firm(walk, i)'
    BY <1>2
  <2>1. (/\ Stands(world, Above(foot, -1))
         /\ \/ /\ KindOf(walk, i) = "placeUp1"
               /\ foot = To(walk, i) /\ Above(foot, -1) = From(walk, i)
            \/ /\ KindOf(walk, i) = "digDropSelfPlaced"
               /\ foot = From(walk, i) /\ Above(foot, -1) = To(walk, i))'
    BY <1>1, <1>4, <2>0, MidFallsNext
  <2> QED BY <2>1 DEF Stands
<1>3. CASE ~ Firm(walk, i)
  <2>0. (~ Firm(walk, i))'
    BY <1>3
  <2>1. (/\ foot # To(walk, i) /\ foot \in Positions
         /\ Above(foot, -1) \in Positions /\ IsUnder(Above(foot, -1), From(walk, i)))'
    BY <1>1, <1>4, <2>0, LooseFallsNext
  <2>2. DigLands /\ pending.at \in DigsOf(walk, i)
    BY <1>3, <2>1
  <2>3. KindOf(walk, i) # "digDropSelfPlaced"
    BY <1>3 DEF IsAction
  <2>4. ~ IsUnder(pending.at, From(walk, i))
    BY <2>2, <2>3 DEF IsAction
  <2>5. /\ foot' = foot /\ Block(pending.at) # "unknown"
        /\ world' = [world EXCEPT ![pending.at] = "air"]
    BY <2>2 DEF DigLands, IsDiggableBlock
  <2>6. \A p : Block(p)' = IF p = pending.at THEN "air" ELSE Block(p)
    BY <2>5, Lands
  <2>7. Above(foot, -1) # pending.at
    BY <2>1, <2>4, <2>5
  <2>8. ReadBlockAt(world', Above(foot, -1)) = Block(Above(foot, -1))
    BY <2>6, <2>7 DEF Block
  <2> QED BY <2>5, <2>8 DEF LosesFooting, Unsupported, Block
<1> QED BY <1>2, <1>3

-----------------------------------------------------------------------------
(* After an action the next one begins, or the bot is where it was to go.  *)
LEMMA Arrives ==
  ASSUME NEW walk, IsWalk(walk), NEW i \in 0 .. Len(walk.steps), walk.at[i] \in Positions,
         Acting', nav'.pc = "start", nav'.ops = walk.later[i], foot' = walk.at[i],
         \A p \in Positions : Block(p)' = walk.cell[i][p], Quiet'
  PROVE  Still' \/ Walks(walk, i + 1, 1)'
<1>1. CASE i = Len(walk.steps)
  <2>1. nav'.ops = << >> /\ nav'.status # "planning"
    BY <1>1 DEF IsWalk, IsRoute, Acting
  <2> QED BY <2>1 DEF Still, Planning
<1>2. CASE i # Len(walk.steps)
  <2> DEFINE n == i + 1
             script == walk.scripts[n]
  <2>1. Len(walk.steps) \in Nat
    BY DEF IsWalk, IsRoute
  <2>2. n \in Steps(walk) /\ n - 1 = i
    BY <1>2, <2>1 DEF Steps
  <2>3. From(walk, n) = walk.at[i] /\ Before(walk, n) = walk.cell[i]
    BY <2>2 DEF From, Before
  <2> HIDE DEF n
  <2>4. IsAction(walk, n) /\ IsScript(script, walk.steps[n])
    BY <2>2 DEF IsWalk, IsRoute
  <2>5. script \in Seq(WalkOps) /\ Len(script) \in Nat /\ Len(script) # 0
    <3>1. script \in Seq(WalkOps) /\ script # << >>
      BY <2>4 DEF IsScript
    <3> HIDE DEF script
    <3> QED BY <3>1
  <2>6. nav'.ops = Rest(script, 1, walk.later[n])
    <3>1. walk.later[i] = script \o walk.later[n] /\ walk.later[n] \in Seq(WalkOps)
      BY <2>2 DEF IsWalk, IsRoute, Steps
    <3>2. 1 \in 1 .. Len(script)
      BY <2>5
    <3> HIDE DEF script
    <3>3. Rest(script, 1, walk.later[n]) = script \o walk.later[n]
      BY <2>5, <3>1, <3>2, LeftOfTwo
    <3> QED BY <3>1, <3>3
  <2>7. 1 \in 1 .. Len(script)
    BY <2>5
  <2>8. Mid(walk, n)'
    BY <2>3 DEF Mid, Between
  <2>9. \A m \in 1 .. 1 - 1 : FALSE
    OBVIOUS
  <2>10. LET op == script[1]
         IN  /\ PcFits(op.kind, nav'.pc) /\ Digging(op)' /\ Placing(walk, n, op)'
             /\ Lifting(walk, n, op)' /\ Asked(walk, n, op)'
    BY <2>3 DEF PcFits, Digging, Placing, Lifting, Asked, Quiet
  <2>11. Walks(walk, n, 1)'
    BY <2>2, <2>6, <2>7, <2>8, <2>9, <2>10 DEF Walks
  <2> QED BY <2>11 DEF n
<1> QED BY <1>1, <1>2

(* An error in the middle of an action.                                    *)
LEMMA Throws ==
  ASSUME NEW walk, IsWalk(walk), NEW i, NEW j, Walks(walk, i, j),
         nav'.status = "failed", nav'.ops = << >>, UNCHANGED <<world, foot, pending>>
  PROVE  Stopped(walk, i)'
<1> DEFINE op == walk.scripts[i][j]
<1>1. i \in Steps(walk) /\ j \in 1 .. Len(walk.scripts[i]) /\ Mid(walk, i) /\ Asked(walk, i, op)
  BY DEF Walks
<1>2. /\ op.kind = "dig" => op.to \in DigsOf(walk, i)
      /\ op.kind = "place" => KindOf(walk, i) = "placeUp1"
  BY <1>1, OpFacts
<1> HIDE DEF op
<1>3. Owed(walk, i)
  BY <1>1, <1>2 DEF Asked, Owed
<1>4. Mid(walk, i)' /\ Owed(walk, i)'
  BY <1>1, <1>3 DEF Mid, Between, Owed, Block
<1> QED BY <1>1, <1>4 DEF Stopped

(* An operation is done.                                                   *)
LEMMA NextOp ==
  ASSUME NEW walk, IsWalk(walk), NEW i, NEW j, Walks(walk, i, j), IsNavigation(nav),
         nav' = OpDone(nav), UNCHANGED <<world, foot, pending>>, Quiet,
         NEW op, op = walk.scripts[i][j],
         op.kind = "dig" => Block(op.to) = "air",
         op.kind \notin {"dig", "centre"} => foot = To(walk, i),
         op.kind = "place" => Block(From(walk, i)) = "rock"
  PROVE  Still' \/ \E m, n \in Nat : Walks(walk, m, n)'
<1> DEFINE script == walk.scripts[i]
<1>1. /\ i \in Steps(walk) /\ j \in 1 .. Len(script) /\ Mid(walk, i) /\ Acting
      /\ nav.ops = Rest(script, j, walk.later[i])
      /\ \A m \in 1 .. j - 1 : script[m].kind = "dig" => Block(script[m].to) = "air"
      /\ Lifting(walk, i, op)
  BY DEF Walks
<1>2. /\ IsAction(walk, i) /\ IsScript(script, walk.steps[i]) /\ walk.later[i] \in Seq(WalkOps)
      /\ script \in Seq(WalkOps)
  BY <1>1 DEF IsWalk, IsRoute, Steps, IsScript
<1>3. /\ nav'.ops = Tail(nav.ops) /\ nav'.pc = "start" /\ Acting' /\ Quiet'
      /\ \A p : Block(p)' = Block(p)
  BY <1>1 DEF OpDone, IsNavigation, Fields, Acting, Quiet, Block
<1>4. /\ Len(script) \in Nat /\ j \in Nat
      /\ op.kind \in {"dig", "centre"} => j < Len(script)
      /\ op.kind = "place" <=> j = Len(script) /\ KindOf(walk, i) = "placeUp1"
      /\ op.kind \notin {"dig", "centre"} => j = Len(script)
  BY <1>1, OpFacts
<1>5. /\ j < Len(script) => nav'.ops = Rest(script, j + 1, walk.later[i])
      /\ j = Len(script) => nav'.ops = walk.later[i]
  <2> HIDE DEF script
  <2>1. PICK s \in Seq(WalkOps), l \in Seq(WalkOps) : s = script /\ l = walk.later[i]
    BY <1>2
  <2>2. j \in 1 .. Len(s)
    BY <1>1, <2>1
  <2>3. /\ j < Len(s) => Tail(Rest(s, j, l)) = Rest(s, j + 1, l)
        /\ j = Len(s) => Tail(Rest(s, j, l)) = l
    BY <2>2, LeftOfTwo
  <2>4. nav'.ops = Tail(Rest(s, j, l))
    BY <1>1, <1>3, <2>1
  <2> QED BY <2>1, <2>3, <2>4
<1> HIDE DEF script
<1>6. CASE j < Len(script)
  <2>1. j + 1 \in 1 .. Len(script) /\ j + 1 \in Nat /\ op.kind \in {"dig", "centre"}
    BY <1>4, <1>6
  <2>2. ASSUME NEW m \in 1 .. (j + 1) - 1, script[m].kind = "dig"
        PROVE  Block(script[m].to)' = "air"
    <3>1. m = j \/ m \in 1 .. j - 1
      BY <1>4
    <3> QED BY <1>1, <1>3, <2>2, <3>1 DEF script
  <2>3. Mid(walk, i)'
    BY <1>1, <1>3 DEF Mid, Between
  <2> DEFINE next == script[j + 1]
  <2>4. /\ PcFits(next.kind, nav'.pc) /\ Digging(next)' /\ Placing(walk, i, next)'
        /\ Asked(walk, i, next)'
    BY <1>3 DEF PcFits, Digging, Placing, Asked, Quiet
  <2>5. Lifting(walk, i, next)'
    BY <1>1, <1>3, <2>1 DEF Lifting
  <2> HIDE DEF next
  <2>6. Walks(walk, i, j + 1)'
    BY <1>1, <1>3, <1>5, <1>6, <2>1, <2>2, <2>3, <2>4, <2>5 DEF Walks, next, script
  <2>7. i \in Nat
    BY <1>1 DEF IsWalk, IsRoute, Steps
  <2> QED BY <2>1, <2>6, <2>7
<1>7. CASE j = Len(script)
  <2>1. op.kind \notin {"dig", "centre"} /\ foot = To(walk, i)
    BY <1>4, <1>7
  <2>2. ASSUME NEW p \in DigsOf(walk, i) PROVE Block(p) = "air"
    <3>1. PICK m \in 1 .. Len(script) - 1 : script[m] = Op("dig", p)
      BY <1>2 DEF IsScript, DigsOf
    <3>2. m \in 1 .. j - 1 /\ script[m].kind = "dig" /\ script[m].to = p
      BY <1>7, <3>1 DEF Op
    <3> QED BY <1>1, <3>2
  <2>3. KindOf(walk, i) = "placeUp1" => Block(From(walk, i)) = "rock"
    BY <1>4, <1>7
  <2>4. ASSUME NEW p \in Positions PROVE Block(p)' = walk.cell[i][p]
    <3>1. walk.cell[i][p] = IF KindOf(walk, i) = "placeUp1" /\ p = From(walk, i) THEN "rock"
                            ELSE IF p \in DigsOf(walk, i) THEN "air" ELSE Before(walk, i)[p]
      BY <1>2 DEF IsAction, CellsFollow
    <3>2. \/ Block(p) = Before(walk, i)[p] \/ p \in DigsOf(walk, i)
          \/ KindOf(walk, i) = "placeUp1" /\ p = From(walk, i)
      BY <1>1 DEF Mid, Between
    <3> QED BY <1>3, <2>2, <2>3, <3>1, <3>2
  <2>5. /\ i \in 0 .. Len(walk.steps) /\ i + 1 \in Nat /\ walk.at[i] = To(walk, i)
        /\ walk.at[i] \in Positions
    BY <1>1, <1>2 DEF IsWalk, IsRoute, Steps, IsAction, To
  <2>6. Still' \/ Walks(walk, i + 1, 1)'
    BY <1>3, <1>5, <1>7, <2>1, <2>4, <2>5, Arrives
  <2> QED BY <2>5, <2>6
<1> QED BY <1>1, <1>4, <1>6, <1>7

-----------------------------------------------------------------------------
(***************************************************************************)
(* The steps of an execution.                                              *)
(***************************************************************************)

(* The operation under way.                                                *)
LEMMA CurrentIs ==
  ASSUME NEW walk, IsWalk(walk), NEW i, NEW j, Walks(walk, i, j)
  PROVE  /\ Acting /\ nav.ops # << >> /\ CurrentOp = walk.scripts[i][j]
         /\ i \in Nat /\ j \in Nat /\ i \in Steps(walk) /\ j \in 1 .. Len(walk.scripts[i])
         /\ IsAction(walk, i)
<1>1. /\ i \in Steps(walk) /\ j \in 1 .. Len(walk.scripts[i]) /\ Acting
      /\ nav.ops = Rest(walk.scripts[i], j, walk.later[i])
  BY DEF Walks
<1>2. /\ walk.scripts[i] \in Seq(WalkOps) /\ walk.later[i] \in Seq(WalkOps) /\ i \in Nat
      /\ IsAction(walk, i)
  <2>1. /\ IsScript(walk.scripts[i], walk.steps[i]) /\ walk.later[i] \in Seq(WalkOps)
        /\ IsAction(walk, i) /\ Len(walk.steps) \in Nat
    BY <1>1 DEF IsWalk, IsRoute, Steps
  <2>2. i \in Nat
    BY <1>1, <2>1 DEF Steps
  <2> QED BY <2>1, <2>2 DEF IsScript
<1>3. PICK s \in Seq(WalkOps), l \in Seq(WalkOps) : s = walk.scripts[i] /\ l = walk.later[i]
  BY <1>2
<1>4. nav.ops # << >> /\ Head(nav.ops) = s[j]
  BY <1>1, <1>3, LeftOfTwo
<1>5. j \in Nat
  <2>1. Len(s) \in Nat /\ j \in 1 .. Len(s)
    BY <1>1, <1>3
  <2> QED BY <2>1
<1> QED BY <1>1, <1>2, <1>3, <1>4, <1>5 DEF CurrentOp

(* An operation goes on.                                                   *)
LEMMA SameOp ==
  ASSUME NEW walk, NEW i, NEW j, Walks(walk, i, j), i \in Nat, j \in Nat,
         NEW op, op = walk.scripts[i][j],
         nav'.status = "acting", nav'.ops = nav.ops, UNCHANGED <<world, foot>>,
         PcFits(op.kind, nav'.pc), Digging(op)', Placing(walk, i, op)', Lifting(walk, i, op)',
         Asked(walk, i, op)'
  PROVE  Going(walk)'
<1>1. Mid(walk, i)'
  BY DEF Walks, Mid, Between, Block
<1>2. \A p : Block(p)' = Block(p)
  BY DEF Block
<1>3. Walks(walk, i, j)'
  BY <1>1, <1>2 DEF Walks, Acting
<1> QED BY <1>3 DEF Going

(* A block is dug.                                                         *)
LEMMA DigSteps ==
  ASSUME NEW walk, IsWalk(walk), NEW i, NEW j, Walks(walk, i, j), IsNavigation(nav),
         walk.scripts[i][j].kind = "dig", DigReads \/ DigStarts \/ DigWatches
  PROVE  Going(walk)' \/ Still'
<1> DEFINE op == walk.scripts[i][j]
<1>1. /\ Acting /\ nav.ops # << >> /\ CurrentOp = op /\ i \in Nat /\ j \in Nat
      /\ i \in Steps(walk) /\ j \in 1 .. Len(walk.scripts[i]) /\ IsAction(walk, i)
  BY CurrentIs
<1>2. op \in WalkOps /\ op.kind = "dig" /\ op.to \in DigsOf(walk, i)
  BY <1>1, OpFacts
<1>3. /\ Mid(walk, i) /\ Digging(op) /\ Lifting(walk, i, op) /\ Asked(walk, i, op)
      /\ nav.status = "acting"
  BY <1>1 DEF Walks, Acting
<1> HIDE DEF op
<1>4. Block(op.to) # "unknown"
  <2>1. op.to \in Positions /\ Before(walk, i)[op.to] # "unknown"
    BY <1>1, <1>2 DEF IsAction, IsDiggableBlock
  <2> QED BY <1>3, <2>1 DEF Mid, Between
<1>5. UNCHANGED <<world, foot>>
  BY DEF DigReads, DigStarts, DigWatches, routeVars
<1>6. ASSUME nav' = Throw(nav), pending' = pending PROVE Going(walk)'
  <2>1. nav'.status = "failed" /\ nav'.ops = << >>
    BY <1>6 DEF Throw, IsNavigation, Fields
  <2>2. Stopped(walk, i)'
    BY <1>5, <1>6, <2>1, Throws
  <2> QED BY <1>1, <2>2 DEF Going
<1>7. ASSUME nav' = OpDone(nav), pending' = pending, Block(op.to) = "air",
             nav.pc \in {"start", "watch"}
      PROVE  Going(walk)' \/ Still'
  <2>1. Quiet
    BY <1>2, <1>3, <1>7 DEF Asked, Quiet
  <2>2. Still' \/ \E m, n \in Nat : Walks(walk, m, n)'
    BY <1>2, <1>5, <1>7, <2>1, NextOp DEF op
  <2> QED BY <2>2 DEF Going
<1>8. CASE DigReads
  <2>1. nav.pc = "start" /\ pending' = pending
    BY <1>8 DEF DigReads, In, AsksNothing
  <2>2. CASE Block(op.to) \in {"unknown", "air"} /\ nav' = OpDone(nav)
    BY <1>4, <1>7, <2>1, <2>2
  <2>3. CASE nav' = Throw(nav)
    BY <1>6, <2>1, <2>3
  <2>4. CASE /\ Block(op.to) \notin {"unknown", "air"}
             /\ nav' = [nav EXCEPT !.pc = "aim", !.seen = Block(op.to)]
    <3>1. /\ nav'.pc = "aim" /\ nav'.seen = Block(op.to) /\ nav'.status = "acting"
          /\ nav'.ops = nav.ops
      BY <1>3, <2>4 DEF IsNavigation, Fields
    <3>2. PcFits(op.kind, nav'.pc)
      BY <1>2, <3>1 DEF PcFits, DIGS
    <3>3. Digging(op)' /\ Placing(walk, i, op)' /\ Lifting(walk, i, op)' /\ Asked(walk, i, op)'
      BY <1>2, <1>3, <1>5, <2>1, <2>4, <3>1 DEF Digging, Placing, Lifting, Asked, Block
    <3> QED BY <1>1, <1>5, <3>1, <3>2, <3>3, SameOp DEF op
  <2> QED BY <1>1, <1>8, <2>2, <2>3, <2>4 DEF DigReads
<1>9. CASE DigStarts
  <2>1. nav.pc = "aim"
    BY <1>9 DEF DigStarts, In
  <2>2. CASE nav' = Throw(nav) /\ AsksNothing
    BY <1>6, <2>2 DEF AsksNothing
  <2>3. CASE nav' = [nav EXCEPT !.pc = "watch"] /\ Ask("dig", op.to)
    <3>1. /\ nav'.pc = "watch" /\ nav'.seen = nav.seen /\ nav'.status = "acting"
          /\ nav'.ops = nav.ops /\ pending'.kind = "dig" /\ pending'.at = op.to
      BY <1>3, <2>3 DEF IsNavigation, Fields, Ask
    <3>2. PcFits(op.kind, nav'.pc)
      BY <1>2, <3>1 DEF PcFits, DIGS
    <3>3. Digging(op)' /\ Placing(walk, i, op)' /\ Lifting(walk, i, op)' /\ Asked(walk, i, op)'
      BY <1>2, <1>3, <1>5, <2>1, <3>1 DEF Digging, Placing, Lifting, Asked, Block
    <3> QED BY <1>1, <1>5, <3>1, <3>2, <3>3, SameOp DEF op
  <2> QED BY <1>1, <1>9, <2>2, <2>3 DEF DigStarts
<1>10. CASE DigWatches
  <2>1. nav.pc = "watch" /\ pending' = pending
    BY <1>10 DEF DigWatches, In, AsksNothing
  <2>2. CASE nav' = Throw(nav)
    BY <1>6, <2>1, <2>2
  <2>3. CASE IsBlockChanged(op.to, nav.seen) /\ nav' = OpDone(nav)
    <3>1. Block(op.to) = "air"
      BY <1>2, <1>3, <1>4, <2>1, <2>3 DEF IsBlockChanged, Digging
    <3> QED BY <1>7, <2>1, <2>3, <3>1
  <2> QED BY <1>1, <1>10, <2>2, <2>3 DEF DigWatches
<1> QED BY <1>8, <1>9, <1>10

(* The bot walks, drops or centres itself.                                 *)
LEMMA MoveSteps ==
  ASSUME NEW walk, IsWalk(walk), NEW i, NEW j, Walks(walk, i, j), IsNavigation(nav),
         \/ MoveStarts \/ PathfinderEnds \/ StepToFoot \/ DropStarts \/ HeightReached \/ Centre
  PROVE  Going(walk)' \/ Still'
<1> DEFINE op == walk.scripts[i][j]
<1>1. /\ Acting /\ nav.ops # << >> /\ CurrentOp = op /\ i \in Nat /\ j \in Nat
      /\ i \in Steps(walk) /\ j \in 1 .. Len(walk.scripts[i])
  BY CurrentIs
<1>2. /\ op \in WalkOps
      /\ op.kind \in {"move", "drop", "settle"} =>
           op.to = To(walk, i) /\ KindOf(walk, i) # "placeUp1"
  BY <1>1, OpFacts
<1>3. /\ PcFits(op.kind, nav.pc) /\ Lifting(walk, i, op) /\ Asked(walk, i, op)
      /\ nav.status = "acting"
  BY <1>1 DEF Walks, Acting
<1> HIDE DEF op
<1>4. op.kind \in {"move", "drop", "settle", "centre"}
  BY <1>1, <1>3 DEF MoveStarts, PathfinderEnds, StepToFoot, DropStarts, HeightReached, Centre, In,
                    PcFits, DIGS
<1>5. UNCHANGED <<world, foot, pending>>
  BY DEF MoveStarts, PathfinderEnds, StepToFoot, DropStarts, HeightReached, Centre, routeVars,
         AsksNothing
<1>6. Quiet
  BY <1>3, <1>4 DEF Asked, Quiet
<1>7. ASSUME nav' = Throw(nav) PROVE Going(walk)'
  <2>1. nav'.status = "failed" /\ nav'.ops = << >>
    BY <1>7 DEF Throw, IsNavigation, Fields
  <2>2. Stopped(walk, i)'
    BY <1>5, <2>1, Throws
  <2> QED BY <1>1, <2>2 DEF Going
<1>8. ASSUME nav' = OpDone(nav), op.kind = "centre" \/ foot = op.to
      PROVE  Going(walk)' \/ Still'
  <2>1. op.kind # "dig" /\ op.kind # "place"
    BY <1>4
  <2>2. op.kind \notin {"dig", "centre"} => foot = To(walk, i)
    BY <1>2, <1>4, <1>8
  <2>3. Still' \/ \E m, n \in Nat : Walks(walk, m, n)'
    BY <1>5, <1>6, <1>8, <2>1, <2>2, NextOp DEF op
  <2> QED BY <2>3 DEF Going
<1>9. ASSUME NEW pc, nav' = [nav EXCEPT !.pc = pc], op.kind # "centre", PcFits(op.kind, pc)
      PROVE  Going(walk)'
  <2>1. nav'.pc = pc /\ nav'.status = "acting" /\ nav'.ops = nav.ops
    BY <1>3, <1>9 DEF IsNavigation, Fields
  <2>2. op.kind # "dig" /\ op.kind # "place" /\ KindOf(walk, i) # "placeUp1"
    BY <1>2, <1>4, <1>9
  <2>3. Digging(op)' /\ Placing(walk, i, op)' /\ Lifting(walk, i, op)' /\ Asked(walk, i, op)'
    BY <1>5, <1>6, <2>2 DEF Digging, Placing, Lifting, Asked, Quiet, Block
  <2> QED BY <1>1, <1>5, <1>9, <2>1, <2>3, SameOp DEF op
<1>10. CASE MoveStarts
  <2>1. op.kind = "move" /\ nav' \in {[nav EXCEPT !.pc = "path"], [nav EXCEPT !.pc = "keys"]}
    BY <1>1, <1>10 DEF MoveStarts, In
  <2>2. PcFits(op.kind, "path") /\ PcFits(op.kind, "keys")
    BY <2>1 DEF PcFits
  <2> QED BY <1>9, <2>1, <2>2
<1>11. CASE PathfinderEnds
  <2>1. /\ op.kind = "move"
        /\ \/ nav' = Throw(nav) \/ nav' = [nav EXCEPT !.pc = "keys"]
           \/ foot = op.to /\ nav' = OpDone(nav)
    BY <1>1, <1>11 DEF PathfinderEnds, In
  <2>2. PcFits(op.kind, "keys")
    BY <2>1 DEF PcFits
  <2> QED BY <1>7, <1>8, <1>9, <2>1, <2>2
<1>12. CASE StepToFoot
  <2>1. nav' = Throw(nav) \/ (foot = op.to /\ nav' = OpDone(nav))
    BY <1>1, <1>12 DEF StepToFoot
  <2> QED BY <1>7, <1>8, <2>1
<1>13. CASE DropStarts
  <2>1. /\ op.kind \in {"drop", "settle"}
        /\ \/ foot = op.to /\ nav' = OpDone(nav)
           \/ nav' = [nav EXCEPT !.pc = "height"]
    BY <1>1, <1>13 DEF DropStarts
  <2>2. PcFits(op.kind, "height")
    BY <2>1 DEF PcFits
  <2> QED BY <1>8, <1>9, <2>1, <2>2
<1>14. CASE HeightReached
  <2>1. /\ op.kind \in {"drop", "settle"}
        /\ \/ nav' = Throw(nav)
           \/ foot = op.to /\ nav' = OpDone(nav)
           \/ nav' = [nav EXCEPT !.pc = "keys"]
    <3>1. /\ op.kind \in {"drop", "settle"}
          /\ nav' \in {Throw(nav)} \cup
               (IF foot[2] # op.to[2] THEN {}
                ELSE {IF foot = op.to THEN OpDone(nav) ELSE [nav EXCEPT !.pc = "keys"]})
      BY <1>1, <1>14 DEF HeightReached
    <3>2. nav' = Throw(nav) \/ nav' = (IF foot = op.to THEN OpDone(nav)
                                       ELSE [nav EXCEPT !.pc = "keys"])
      <4> DEFINE reached == {IF foot = op.to THEN OpDone(nav) ELSE [nav EXCEPT !.pc = "keys"]}
                 away == foot[2] # op.to[2]
      <4>1. nav' \in {Throw(nav)} \cup (IF away THEN {} ELSE reached)
        BY <3>1
      <4> HIDE DEF reached, away
      <4>2. nav' \in {Throw(nav)} \cup reached
        BY <4>1
      <4> QED BY <4>2 DEF reached
    <3>3. op.kind \in {"drop", "settle"}
      BY <3>1
    <3>4. CASE foot = op.to
      BY <3>2, <3>3, <3>4
    <3>5. CASE foot # op.to
      BY <3>2, <3>3, <3>5
    <3> QED BY <3>4, <3>5
  <2>2. PcFits(op.kind, "keys")
    BY <2>1 DEF PcFits
  <2> QED BY <1>7, <1>8, <1>9, <2>1, <2>2
<1>15. CASE Centre
  <2>1. op.kind = "centre" /\ nav' \in {OpDone(nav), Throw(nav)}
    BY <1>1, <1>15 DEF Centre, In
  <2> QED BY <1>7, <1>8, <2>1
<1> QED BY <1>10, <1>11, <1>12, <1>13, <1>14, <1>15

(* A block is placed.                                                      *)
LEMMA PlaceSteps ==
  ASSUME NEW walk, IsWalk(walk), NEW i, NEW j, Walks(walk, i, j), IsNavigation(nav),
         \/ PlaceStarts \/ PlaceTries \/ PlaceAsks \/ PlaceSucceeds \/ PlaceFails
         \/ PlaceMissed \/ PlaceClears \/ PlaceCleared
  PROVE  Going(walk)' \/ Still'
<1> DEFINE op == walk.scripts[i][j]
           from == From(walk, i)
<1>1. /\ Acting /\ nav.ops # << >> /\ CurrentOp = op /\ i \in Nat /\ j \in Nat
      /\ i \in Steps(walk) /\ j \in 1 .. Len(walk.scripts[i]) /\ IsAction(walk, i)
  BY CurrentIs
<1>2. op.kind = "place"
  BY <1>1 DEF PlaceStarts, PlaceTries, PlaceAsks, PlaceSucceeds, PlaceFails, PlaceMissed,
              PlaceClears, PlaceCleared, In
<1>3. KindOf(walk, i) = "placeUp1"
  BY <1>1, <1>2, OpFacts
<1>4. /\ Mid(walk, i) /\ Placing(walk, i, op) /\ Lifting(walk, i, op) /\ Asked(walk, i, op)
      /\ nav.status = "acting"
  BY <1>1 DEF Walks, Acting
<1>5. /\ To(walk, i) = Above(from, 1) /\ from \notin DigsOf(walk, i) /\ from \in Positions
      /\ IsAirBlock(Before(walk, i)[from])
  BY <1>1, <1>3 DEF IsAction, StandsIn, Firm
<1>6. Block(from) \in {Before(walk, i)[from], "rock", "air"}
  BY <1>4, <1>5 DEF Mid, Between
<1> HIDE DEF op, from
<1>7. UNCHANGED <<world, foot>>
  BY DEF PlaceStarts, PlaceTries, PlaceAsks, PlaceSucceeds, PlaceFails, PlaceMissed,
         PlaceClears, PlaceCleared, routeVars
<1>8. ASSUME nav' = Throw(nav), pending' = pending PROVE Going(walk)'
  <2>1. nav'.status = "failed" /\ nav'.ops = << >>
    BY <1>8 DEF Throw, IsNavigation, Fields
  <2>2. Stopped(walk, i)'
    BY <1>7, <1>8, <2>1, Throws
  <2> QED BY <1>1, <2>2 DEF Going
<1>9. ASSUME nav' = OpDone(nav), pending' = pending, nav.pc \in {"placed", "missed"},
             Block(from) = "rock", foot = Above(from, 1)
      PROVE  Going(walk)' \/ Still'
  <2>1. Quiet
    BY <1>2, <1>4, <1>9 DEF Asked, Quiet, from
  <2>2. Still' \/ \E m, n \in Nat : Walks(walk, m, n)'
    BY <1>2, <1>5, <1>7, <1>9, <2>1, NextOp DEF op, from
  <2> QED BY <2>2 DEF Going
<1>10. ASSUME nav'.status = "acting", nav'.ops = nav.ops,
              nav'.at = from, nav'.seen = Before(walk, i)[from],
              nav'.pc \in {"try", "placing", "placed", "missed", "clear", "clearing"},
              nav'.pc = "clear" => Block(from) # "air",
              \/ pending' = pending /\ (pending.kind = "dig" => nav'.pc = "clearing")
              \/ pending'.kind = "place" /\ pending'.at = from
              \/ pending'.kind = "dig" /\ pending'.at = from /\ nav'.pc = "clearing"
                   /\ Block(from) # "air"
       PROVE  Going(walk)'
  <2>1. PcFits(op.kind, nav'.pc) /\ nav'.pc # "start"
    BY <1>2, <1>10 DEF PcFits
  <2>2. Digging(op)' /\ Placing(walk, i, op)' /\ Lifting(walk, i, op)'
    BY <1>2, <1>7, <1>10, <2>1 DEF Digging, Placing, Lifting, Block, from
  <2>3. Asked(walk, i, op)'
    <3>1. CASE pending' = pending /\ (pending.kind = "dig" => nav'.pc = "clearing")
      BY <1>2, <1>4, <1>7, <1>10, <2>1, <3>1 DEF Asked, Block
    <3>2. CASE pending'.kind = "place" /\ pending'.at = from
      BY <1>2, <2>1, <3>2 DEF Asked, from
    <3>3. CASE pending'.kind = "dig" /\ pending'.at = from /\ nav'.pc = "clearing"
                 /\ Block(from) # "air"
      BY <1>2, <1>7, <2>1, <3>3 DEF Asked, Block, from
    <3> QED BY <1>10, <3>1, <3>2, <3>3
  <2> QED BY <1>1, <1>7, <1>10, <2>1, <2>2, <2>3, SameOp DEF op
<1>11. nav.pc # "start" => /\ nav.at = from /\ nav.seen = Before(walk, i)[from]
                           /\ nav.pc = "clear" => Block(from) # "air"
  BY <1>2, <1>4 DEF Placing, from
<1>12. pending.kind = "dig" => nav.pc = "clearing" /\ Block(from) # "air"
  BY <1>2, <1>4 DEF Asked, from
<1>13. ASSUME NEW pc, nav.pc \notin {"start", "clearing"}, pending' = pending,
              /\ nav'.status = "acting" /\ nav'.ops = nav.ops /\ nav'.at = nav.at
              /\ nav'.seen = nav.seen /\ nav'.pc = pc,
              pc \in {"try", "placing", "missed", "clear"},
              pc = "clear" => Block(from) # "air"
       PROVE  Going(walk)'
  BY <1>10, <1>11, <1>12, <1>13
<1>14. ASSUME NEW pc, nav.pc \notin {"start", "clearing"}, pending' = pending,
              nav' = [nav EXCEPT !.pc = pc],
              pc \in {"try", "placing", "missed", "clear"},
              pc = "clear" => Block(from) # "air"
       PROVE  Going(walk)'
  <2>1. /\ nav'.status = "acting" /\ nav'.ops = nav.ops /\ nav'.at = nav.at
        /\ nav'.seen = nav.seen /\ nav'.pc = pc
    BY <1>4, <1>14 DEF IsNavigation, Fields
  <2> QED BY <1>13, <1>14, <2>1
<1>15. CASE PlaceStarts
  <2>1. nav.pc = "start" /\ pending' = pending
    BY <1>15 DEF PlaceStarts, In, AsksNothing
  <2>2. CASE nav' = Throw(nav)
    BY <1>8, <2>1, <2>2
  <2>3. CASE nav' = [nav EXCEPT !.pc = "try", !.at = foot, !.seen = Block(foot), !.tries = 0]
    <3>1. foot = from /\ Block(foot) = Before(walk, i)[from]
      BY <1>3, <1>4, <2>1 DEF Lifting, from
    <3>2. /\ nav'.status = "acting" /\ nav'.ops = nav.ops /\ nav'.at = foot
          /\ nav'.seen = Block(foot) /\ nav'.pc = "try"
      BY <1>4, <2>3 DEF IsNavigation, Fields
    <3> QED BY <1>10, <1>12, <2>1, <3>1, <3>2
  <2>4. nav' = Throw(nav)
          \/ nav' = [nav EXCEPT !.pc = "try", !.at = foot, !.seen = Block(foot), !.tries = 0]
    BY <1>15 DEF PlaceStarts
  <2> QED BY <2>2, <2>3, <2>4
<1>16. CASE PlaceTries
  <2>1. nav.pc = "try" /\ pending' = pending
    BY <1>16 DEF PlaceTries, In, AsksNothing
  <2>2. \/ nav' = Throw(nav)
        \/ nav' = [nav EXCEPT !.pc = "placing", !.tries = nav.tries + 1]
        \/ nav' = [nav EXCEPT !.pc = "missed", !.tries = nav.tries + 1]
    BY <1>16 DEF PlaceTries
  <2>3. ASSUME NEW pc, pc \in {"placing", "missed"},
               nav' = [nav EXCEPT !.pc = pc, !.tries = nav.tries + 1]
        PROVE  Going(walk)'
    <3>1. /\ nav'.status = "acting" /\ nav'.ops = nav.ops /\ nav'.at = nav.at
          /\ nav'.seen = nav.seen /\ nav'.pc = pc
      BY <1>4, <2>3 DEF IsNavigation, Fields
    <3> QED BY <1>13, <2>1, <2>3, <3>1
  <2> QED BY <1>8, <2>1, <2>2, <2>3
<1>17. CASE PlaceAsks
  <2>1. nav.pc = "placing"
    BY <1>17 DEF PlaceAsks, In
  <2>2. CASE nav' = [nav EXCEPT !.pc = "placed"] /\ Ask("place", nav.at)
    <3>1. /\ nav'.status = "acting" /\ nav'.ops = nav.ops /\ nav'.at = nav.at
          /\ nav'.seen = nav.seen /\ nav'.pc = "placed" /\ pending'.kind = "place"
          /\ pending'.at = nav.at
      BY <1>4, <2>2 DEF IsNavigation, Fields, Ask
    <3> QED BY <1>10, <1>11, <2>1, <3>1
  <2>3. CASE nav' = [nav EXCEPT !.pc = "missed"] /\ AsksNothing
    BY <1>14, <2>1, <2>3 DEF AsksNothing
  <2> QED BY <1>17, <2>2, <2>3 DEF PlaceAsks
<1>18. CASE PlaceSucceeds
  <2>1. /\ nav.pc = "placed" /\ pending' = pending /\ nav' = OpDone(nav)
        /\ Placed(Block(nav.at)) /\ foot = Above(nav.at, 1)
    BY <1>18 DEF PlaceSucceeds, In, AsksNothing
  <2>2. Block(from) = "rock"
    BY <1>5, <1>6, <1>11, <2>1 DEF Placed, IsEmptyBlock, IsReplaceable, IsAirBlock
  <2> QED BY <1>9, <1>11, <2>1, <2>2
<1>19. CASE PlaceFails
  <2>1. nav.pc = "placed" /\ pending' = pending /\ nav' = [nav EXCEPT !.pc = "missed"]
    BY <1>19 DEF PlaceFails, In, AsksNothing
  <2> QED BY <1>14, <2>1
<1>20. CASE PlaceMissed
  <2>1. nav.pc = "missed" /\ pending' = pending
    BY <1>20 DEF PlaceMissed, In, AsksNothing
  <2>2. CASE FoundPlaced /\ foot = Above(nav.at, 1) /\ nav' = OpDone(nav)
    <3>1. Block(from) = "rock"
      BY <1>6, <1>11, <2>1, <2>2 DEF FoundPlaced, IsEmptyBlock
    <3> QED BY <1>9, <1>11, <2>1, <2>2, <3>1
  <2>3. CASE nav' = Throw(nav)
    BY <1>8, <2>1, <2>3
  <2>4. CASE nav' = [nav EXCEPT !.pc = "try"]
    BY <1>14, <2>1, <2>4
  <2>5. CASE Block(nav.at) \notin {"air", "unknown"} /\ nav' = [nav EXCEPT !.pc = "clear"]
    BY <1>11, <1>14, <2>1, <2>5
  <2> QED BY <1>20, <2>2, <2>3, <2>4, <2>5 DEF PlaceMissed
<1>21. CASE PlaceClears
  <2>1. nav.pc = "clear"
    BY <1>21 DEF PlaceClears, In
  <2>2. CASE nav' = [nav EXCEPT !.pc = "clearing"] /\ Ask("dig", nav.at)
    <3>1. /\ nav'.status = "acting" /\ nav'.ops = nav.ops /\ nav'.at = nav.at
          /\ nav'.seen = nav.seen /\ nav'.pc = "clearing" /\ pending'.kind = "dig"
          /\ pending'.at = nav.at
      BY <1>4, <2>2 DEF IsNavigation, Fields, Ask
    <3> QED BY <1>10, <1>11, <2>1, <3>1
  <2>3. CASE nav' = Throw(nav) /\ AsksNothing
    BY <1>8, <2>3 DEF AsksNothing
  <2> QED BY <1>21, <2>2, <2>3 DEF PlaceClears
<1>22. CASE PlaceCleared
  <2>1. nav.pc = "clearing" /\ pending' = pending
    BY <1>22 DEF PlaceCleared, In, AsksNothing
  <2>2. CASE nav' = Throw(nav)
    BY <1>8, <2>1, <2>2
  <2>3. CASE IsEmptyBlock(Block(nav.at)) /\ nav' = [nav EXCEPT !.pc = "try"]
    <3>1. /\ nav'.status = "acting" /\ nav'.ops = nav.ops /\ nav'.at = nav.at
          /\ nav'.seen = nav.seen /\ nav'.pc = "try"
      BY <1>4, <2>3 DEF IsNavigation, Fields
    <3>2. pending.kind # "dig"
      BY <1>11, <1>12, <2>1, <2>3 DEF IsEmptyBlock
    <3> QED BY <1>10, <1>11, <2>1, <3>1, <3>2
  <2> QED BY <1>22, <2>2, <2>3 DEF PlaceCleared
<1> QED BY <1>15, <1>16, <1>17, <1>18, <1>19, <1>20, <1>21, <1>22

(* Every step of an execution.                                             *)
LEMMA WalkExecutes ==
  ASSUME NEW walk, IsWalk(walk), NEW i, NEW j, Walks(walk, i, j), IsNavigation(nav), Execute
  PROVE  Going(walk)' \/ Still'
<1>1. /\ Acting /\ nav.ops # << >> /\ CurrentOp = walk.scripts[i][j] /\ i \in Nat
      /\ i \in Steps(walk) /\ j \in 1 .. Len(walk.scripts[i])
  BY CurrentIs
<1>2. CurrentOp.kind \in WalkKinds
  <2>1. walk.scripts[i][j] \in WalkOps
    BY <1>1, OpFacts
  <2> QED BY <1>1, <2>1 DEF WalkOps
<1>3. ~ StartActing /\ ~ RouteNotFound /\ ~ Finish
  BY <1>1 DEF StartActing, RouteNotFound, Finish, Acting
<1>4. CASE SeesAbort
  <2>1. nav'.status = "failed" /\ nav'.ops = << >> /\ UNCHANGED <<world, foot, pending>>
    BY <1>4 DEF SeesAbort, Throw, IsNavigation, Fields, AsksNothing, routeVars
  <2>2. Stopped(walk, i)'
    BY <2>1, Throws
  <2> QED BY <1>1, <2>2 DEF Going
<1>5. CASE DigReads \/ DigStarts \/ DigWatches
  <2>1. CurrentOp.kind = "dig"
    BY <1>2, <1>5 DEF DigReads, DigStarts, DigWatches, In, DIGS, WalkKinds
  <2> QED BY <1>1, <1>5, <2>1, DigSteps
<1>6. CASE \/ MoveStarts \/ PathfinderEnds \/ StepToFoot \/ DropStarts \/ HeightReached
           \/ Centre
  BY <1>6, MoveSteps
<1>7. CASE \/ PlaceStarts \/ PlaceTries \/ PlaceAsks \/ PlaceSucceeds \/ PlaceFails
           \/ PlaceMissed \/ PlaceClears \/ PlaceCleared
  BY <1>7, PlaceSteps
<1> QED BY <1>3, <1>4, <1>5, <1>6, <1>7 DEF Execute

(* A navigation that ended takes no step.                                  *)
LEMMA EndedExecutes ==
  ASSUME ~ Planning, nav.ops = << >>, IsNavigation(nav), Execute
  PROVE  Acting /\ ~ Planning' /\ nav'.ops = << >> /\ UNCHANGED <<world, foot, pending>>
<1>1. SeesAbort \/ Finish
  BY DEF Execute, StartActing, RouteNotFound, DigReads, DigStarts, DigWatches,
         MoveStarts, PathfinderEnds, StepToFoot, DropStarts, HeightReached, Centre, PlaceStarts,
         PlaceTries, PlaceAsks, PlaceSucceeds, PlaceFails, PlaceMissed, PlaceClears, PlaceCleared,
         In, Planning
<1>2. CASE SeesAbort
  BY <1>2 DEF SeesAbort, Throw, Planning, IsNavigation, Fields, AsksNothing, routeVars
<1>3. CASE Finish
  BY <1>3 DEF Finish, Throw, Planning, IsNavigation, Fields, AsksNothing, routeVars
<1> QED BY <1>1, <1>2, <1>3

(* A way that was found is walked.                                         *)
LEMMA ReadyExecutes ==
  ASSUME Ready, RouteInv, Execute
  PROVE  Still' \/ OnTheWay'
<1>1. /\ Planning /\ nav.ops = << >> /\ nav.pc = "start" /\ pending = Nothing
      /\ foot \in Positions /\ IsNavigation(nav)
  BY DEF Ready, RouteInv, AbortInv
<1>2. StartActing \/ RouteNotFound
  BY <1>1 DEF Execute, SeesAbort, Finish, DigReads, DigStarts, DigWatches,
         MoveStarts, PathfinderEnds, StepToFoot, DropStarts, HeightReached, Centre, PlaceStarts,
         PlaceTries, PlaceAsks, PlaceSucceeds, PlaceFails, PlaceMissed, PlaceClears, PlaceCleared,
         In, Planning, Acting
<1>3. UNCHANGED <<world, foot, pending>> /\ Quiet'
  BY <1>1, <1>2 DEF StartActing, RouteNotFound, routeVars, Quiet, Nothing
<1>5. CASE RouteNotFound
  <2>1. nav'.status = "failed" /\ nav'.ops = << >>
    BY <1>1, <1>5 DEF RouteNotFound, IsNavigation, Fields
  <2> QED BY <1>3, <2>1 DEF Still, Planning
<1>6. CASE StartActing
  <2>1. LeadsThere(search.plan)
    BY <1>1, <1>6 DEF StartActing, RouteInv, Finds
  <2>2. PICK walk : PlansWalk(walk)
    BY <2>1, PlanIsWalk
  <2>3. nav'.status = "acting" /\ nav'.pc = "start" /\ nav'.ops = walk.later[0]
    BY <1>1, <1>6, <2>2 DEF StartActing, IsNavigation, Fields, PlansWalk
  <2>4. /\ IsWalk(walk) /\ walk.at[0] = foot /\ 0 \in 0 .. Len(walk.steps)
        /\ \A p \in Positions : walk.cell[0][p] = Block(p)
    <3>1. Len(walk.steps) \in Nat
      BY <2>2 DEF PlansWalk, IsWalk, IsRoute
    <3>2. 0 \in 0 .. Len(walk.steps)
      BY <3>1
    <3> QED BY <2>2, <3>2 DEF PlansWalk
  <2>6. \A p \in Positions : Block(p)' = walk.cell[0][p]
    BY <1>3, <2>4 DEF Block
  <2>7. Still' \/ Walks(walk, 0 + 1, 1)'
    BY <1>1, <1>3, <2>3, <2>4, <2>6, Arrives DEF Acting
  <2>8. 0 + 1 \in Nat /\ 1 \in Nat
    OBVIOUS
  <2>9. Walks(walk, 0 + 1, 1)' => Going(walk)'
    BY <2>8 DEF Going
  <2> QED BY <2>4, <2>7, <2>9 DEF OnTheWay
<1> QED BY <1>2, <1>5, <1>6

-----------------------------------------------------------------------------
(***************************************************************************)
(* What happens around a walk.                                             *)
(***************************************************************************)

(* What is asked for lands in the middle of the action that asked for it.  *)
LEMMA LandsInTheMiddle ==
  ASSUME NEW walk, NEW i, IsAction(walk, i), Mid(walk, i), Owed(walk, i),
         Falls \/ DigLands \/ PlaceLands \/ PendingLost
  PROVE  Mid(walk, i)'
<1> DEFINE from == From(walk, i)
           to == To(walk, i)
           kind == KindOf(walk, i)
           digs == DigsOf(walk, i)
           before == Before(walk, i)
<1>1. /\ from \in Positions /\ to \in Positions /\ digs \subseteq Positions
      /\ kind = "placeUp1" => to = Above(from, 1)
  BY DEF IsAction
<1>2. /\ \A p \in Positions : \/ Block(p) = before[p] \/ (p \in digs /\ Block(p) = "air")
                              \/ kind = "placeUp1" /\ p = from /\ Block(p) \in {"rock", "air"}
      /\ Between(walk, i) /\ Partly(walk, i)
  BY MidIsPartly DEF Mid
<1>3. /\ pending.kind = "dig" =>
           pending.at \in digs \/ (kind = "placeUp1" /\ pending.at = from)
      /\ pending.kind = "place" =>
           Block(pending.at) = "rock" \/ (kind = "placeUp1" /\ pending.at = from)
  BY DEF Owed
<1>4. (/\ \A p \in Positions :
            \/ Block(p)' = before[p] \/ (p \in digs /\ Block(p)' = "air")
            \/ kind = "placeUp1" /\ p = from /\ Block(p)' \in {"rock", "air"}
       /\ Between(walk, i)')
        => Mid(walk, i)'
  BY DEF Mid, From, To, KindOf, DigsOf, Before
<1>5. CASE Falls
  <2>1. Between(walk, i)'
    BY <1>2, <1>5, FallsBetween
  <2>2. \A p : Block(p)' = Block(p)
    BY <1>5 DEF Falls, routeVars, Block
  <2> HIDE DEF from, to, kind, digs, before
  <2> QED BY <1>2, <1>4, <2>1, <2>2
<1>9. ASSUME foot' = foot PROVE Between(walk, i)'
  BY <1>2, <1>9 DEF Between
<1>10. kind = "placeUp1" => foot \in {from, to}
  BY <1>2 DEF Between, IsAction
<1> HIDE DEF from, to, kind, digs, before
<1>6. CASE DigLands
  <2>1. /\ pending.kind = "dig" /\ Block(pending.at) # "unknown" /\ foot' = foot
        /\ world' = [world EXCEPT ![pending.at] = "air"]
    BY <1>6 DEF DigLands, IsDiggableBlock
  <2>2. \A p : Block(p)' = IF p = pending.at THEN "air" ELSE Block(p)
    BY <2>1, Lands
  <2> QED BY <1>2, <1>3, <1>4, <1>9, <2>1, <2>2
<1>7. CASE PlaceLands
  <2>1. /\ pending.kind = "place" /\ Block(pending.at) \in {"air", "plant", "liquid"}
        /\ world' = [world EXCEPT ![pending.at] = "rock"]
        /\ foot' = IF foot = pending.at THEN Above(foot, 1) ELSE foot
    BY <1>7 DEF PlaceLands, IsEmptyBlock, IsReplaceable
  <2>2. kind = "placeUp1" /\ pending.at = from
    BY <1>3, <2>1
  <2>3. \A p : Block(p)' = IF p = pending.at THEN "rock" ELSE Block(p)
    BY <2>1, Lands
  <2>4. Between(walk, i)'
    <3>1. foot' \in {from, to}
      BY <1>1, <1>10, <2>1, <2>2
    <3> QED BY <3>1 DEF Between, from, to
  <2> QED BY <1>2, <1>4, <2>2, <2>3, <2>4
<1>8. CASE PendingLost
  <2>1. foot' = foot /\ \A p : Block(p)' = Block(p)
    BY <1>8 DEF PendingLost, routeVars, Block
  <2> QED BY <1>2, <1>4, <1>9, <2>1
<1> QED BY <1>5, <1>6, <1>7, <1>8

(* After a navigation ended in the middle of an action.                    *)
LEMMA AroundStopped ==
  ASSUME NEW walk, IsWalk(walk), NEW i, Stopped(walk, i),
         \/ BotMoves \/ Falls \/ DigLands \/ PlaceLands \/ PendingLost \/ (Acting /\ Abort)
  PROVE  Stopped(walk, i)'
<1>1. /\ i \in Steps(walk) /\ nav.status = "failed" /\ nav.ops = << >> /\ Mid(walk, i)
      /\ Owed(walk, i)
  BY DEF Stopped
<1>2. IsAction(walk, i)
  BY <1>1 DEF IsWalk, IsRoute
<1>3. (Falls \/ DigLands \/ PlaceLands \/ PendingLost) /\ nav' = nav
  BY <1>1 DEF BotMoves, Acting, Falls, DigLands, PlaceLands, PendingLost
<1>4. Mid(walk, i)'
  BY <1>1, <1>2, <1>3, LandsInTheMiddle
<1>5. Owed(walk, i)'
  <2>1. CASE Falls
    BY <1>1, <2>1 DEF Falls, routeVars, Owed, Block
  <2>2. CASE DigLands \/ PlaceLands \/ PendingLost
    <3>1. pending' = Nothing
      BY <2>2 DEF DigLands, PlaceLands, PendingLost
    <3> QED BY <3>1 DEF Owed, Nothing
  <2> QED BY <1>3, <2>1, <2>2
<1> QED BY <1>1, <1>3, <1>4, <1>5 DEF Stopped

(* Where nothing is owed, nothing happens.                                 *)
LEMMA AroundStill ==
  ASSUME Still,
         \/ BotMoves \/ Falls \/ DigLands \/ PlaceLands \/ PendingLost \/ (Acting /\ Abort)
  PROVE  Still'
<1>1. Falls \/ PendingLost \/ Abort
  BY DEF Still, Quiet, BotMoves, DigLands, PlaceLands, IsEmptyBlock, IsReplaceable
<1>2. UNCHANGED <<world, nav>> /\ pending' \in {pending, Nothing}
  BY <1>1 DEF Falls, PendingLost, Abort, routeVars
<1>3. Quiet'
  BY <1>2 DEF Still, Quiet, Nothing, Block
<1> QED BY <1>2, <1>3 DEF Still, Planning

(* A bot that moves while an operation is under way goes where its action  *)
(* ends.                                                                   *)
LEMMA WalkHeads ==
  ASSUME NEW walk, IsWalk(walk), NEW i, NEW j, Walks(walk, i, j), BotMoves
  PROVE  /\ foot' = To(walk, i)
         /\ KindOf(walk, i) = "placeUp1" =>
              walk.scripts[i][j].kind = "place" /\ nav.pc # "start"
<1> DEFINE op == walk.scripts[i][j]
<1>1. /\ CurrentOp = op /\ i \in Steps(walk) /\ j \in 1 .. Len(walk.scripts[i])
      /\ IsAction(walk, i)
  BY CurrentIs
<1>2. PcFits(op.kind, nav.pc) /\ Placing(walk, i, op)
  BY DEF Walks
<1>3. /\ op.kind = "place" => KindOf(walk, i) = "placeUp1"
      /\ op.kind \in {"move", "drop", "settle"} =>
           op.to = To(walk, i) /\ KindOf(walk, i) # "placeUp1"
  BY <1>1, OpFacts
<1>4. foot' = Heading /\ HeadsSomewhere
  BY DEF BotMoves
<1> HIDE DEF op
<1>5. CASE op.kind = "place"
  <2>1. nav.pc # "start"
    BY <1>1, <1>4, <1>5 DEF HeadsSomewhere
  <2>2. nav.at = From(walk, i) /\ To(walk, i) = Above(From(walk, i), 1)
    BY <1>1, <1>2, <1>3, <1>5, <2>1 DEF Placing, IsAction
  <2> QED BY <1>1, <1>4, <1>5, <2>1, <2>2 DEF Heading, op
<1>6. CASE op.kind # "place"
  <2>1. op.kind \in {"move", "drop", "settle"}
    BY <1>1, <1>2, <1>4, <1>6 DEF HeadsSomewhere, PcFits, DIGS
  <2> QED BY <1>1, <1>3, <1>4, <1>6, <2>1 DEF Heading
<1> QED BY <1>5, <1>6

(* While an operation is under way.                                        *)
LEMMA AroundWalk ==
  ASSUME NEW walk, IsWalk(walk), NEW i, NEW j, Walks(walk, i, j),
         \/ BotMoves \/ Falls \/ DigLands \/ PlaceLands \/ PendingLost \/ (Acting /\ Abort)
  PROVE  Walks(walk, i, j)'
<1> DEFINE script == walk.scripts[i]
           op == script[j]
           from == From(walk, i)
           to == To(walk, i)
           kind == KindOf(walk, i)
           digs == DigsOf(walk, i)
           before == Before(walk, i)
<1>1. /\ Acting /\ nav.ops # << >> /\ CurrentOp = op /\ i \in Steps(walk)
      /\ j \in 1 .. Len(script) /\ IsAction(walk, i)
  BY CurrentIs
<1>2. /\ nav.ops = Rest(script, j, walk.later[i]) /\ Mid(walk, i)
      /\ \A m \in 1 .. j - 1 : script[m].kind = "dig" => Block(script[m].to) = "air"
      /\ PcFits(op.kind, nav.pc) /\ Digging(op) /\ Placing(walk, i, op)
      /\ Lifting(walk, i, op) /\ Asked(walk, i, op)
  BY DEF Walks
<1>3. /\ op \in WalkOps
      /\ op.kind = "dig" => op.to \in digs
      /\ op.kind = "place" => kind = "placeUp1"
      /\ op.kind \in {"move", "drop", "settle"} => op.to = to /\ kind # "placeUp1"
  BY <1>1, OpFacts
<1>4. ASSUME NEW m \in 1 .. j - 1, script[m].kind = "dig" PROVE script[m].to \in digs
  <2>1. Len(script) \in Nat /\ j \in Nat
    BY <1>1, OpFacts
  <2>2. m \in 1 .. Len(script)
    BY <1>1, <2>1
  <2> QED BY <1>1, <1>4, <2>2, OpFacts
<1>5. /\ from \in Positions /\ to \in Positions
      /\ kind = "placeUp1" => to = Above(from, 1) /\ from \notin digs
  BY <1>1 DEF IsAction
<1>6. Above(from, 1) # from
  <2>1. Above(from, 0) = from /\ \A m, n \in Int : Above(from, m) = Above(from, n) => m = n
    BY <1>5, AboveFacts
  <2> QED BY <2>1
<1>8. nav' = nav
  BY DEF BotMoves, Falls, DigLands, PlaceLands, PendingLost, Abort
<1>9. (/\ Mid(walk, i)'
       /\ \A m \in 1 .. j - 1 : script[m].kind = "dig" => Block(script[m].to)' = "air"
       /\ Digging(op)' /\ Placing(walk, i, op)' /\ Lifting(walk, i, op)' /\ Asked(walk, i, op)')
        => Walks(walk, i, j)'
  BY <1>1, <1>2, <1>8 DEF Walks, Acting
<1>10. Owed(walk, i)
  BY <1>2, <1>3 DEF Asked, Owed
<1> HIDE DEF script, op
<1>11. CASE BotMoves
  <2>1. pending' = pending /\ world' = world
    BY <1>11 DEF BotMoves, routeVars
  <2>2. foot' = to /\ (op.kind # "place" \/ nav.pc = "start" => kind # "placeUp1")
    <3>1. /\ foot' = To(walk, i)
          /\ KindOf(walk, i) = "placeUp1" =>
               walk.scripts[i][j].kind = "place" /\ nav.pc # "start"
      BY <1>11, WalkHeads
    <3> QED BY <3>1 DEF op, script
  <2>3. \A p : Block(p)' = Block(p)
    BY <2>1 DEF Block
  <2>4. Mid(walk, i)'
    BY <1>2, <2>1, <2>2, <2>3 DEF Mid, Between
  <2>5. Digging(op)' /\ Placing(walk, i, op)' /\ Asked(walk, i, op)'
    BY <1>2, <1>8, <2>1, <2>3 DEF Digging, Placing, Asked
  <2>6. Lifting(walk, i, op)'
    BY <1>8, <2>2 DEF Lifting
  <2> QED BY <1>2, <1>9, <2>3, <2>4, <2>5, <2>6
<1>12. CASE Falls
  <2>1. /\ world' = world /\ pending' = pending /\ Unsupported /\ foot' = Above(foot, -1)
    BY <1>12 DEF Falls, routeVars
  <2>2. \A p : Block(p)' = Block(p)
    BY <2>1 DEF Block
  <2>3. Mid(walk, i)'
    BY <1>1, <1>2, <1>10, <1>12, LandsInTheMiddle
  <2>4. Digging(op)' /\ Placing(walk, i, op)' /\ Asked(walk, i, op)'
    BY <1>2, <1>8, <2>1, <2>2 DEF Digging, Placing, Asked
  <2>5. Lifting(walk, i, op)'
    <3>1. kind = "placeUp1" => foot = to
      <4>1. /\ kind = "placeUp1" => Firm(walk, i)
            /\ Partly(walk, i) /\ Between(walk, i)
        BY <1>1, <1>2, MidIsPartly DEF IsAction
      <4> QED BY <1>1, <2>1, <4>1, MidFalls
    <3>2. kind = "placeUp1" => ~ (op.kind # "place" \/ nav.pc = "start")
      BY <1>2, <1>5, <1>6, <3>1 DEF Lifting
    <3> QED BY <1>8, <3>2 DEF Lifting
  <2> QED BY <1>2, <1>9, <2>2, <2>3, <2>4, <2>5
<1>13. CASE DigLands
  <2>1. /\ pending.kind = "dig" /\ Block(pending.at) # "unknown" /\ foot' = foot
        /\ world' = [world EXCEPT ![pending.at] = "air"] /\ pending' = Nothing
    BY <1>13 DEF DigLands, IsDiggableBlock
  <2>2. \A p : Block(p)' = IF p = pending.at THEN "air" ELSE Block(p)
    BY <2>1, Lands
  <2>3. \/ op.kind = "dig" /\ nav.pc = "watch" /\ pending.at = op.to
        \/ op.kind = "place" /\ nav.pc = "clearing" /\ pending.at = from
    BY <1>2, <2>1 DEF Asked
  <2>4. Mid(walk, i)'
    BY <1>1, <1>2, <1>10, <1>13, LandsInTheMiddle
  <2>5. \A m \in 1 .. j - 1 : script[m].kind = "dig" => Block(script[m].to)' = "air"
    BY <1>2, <2>2
  <2>6. Digging(op)'
    BY <1>2, <1>8, <2>2, <2>3 DEF Digging
  <2>7. Placing(walk, i, op)'
    BY <1>2, <1>8, <2>3 DEF Placing
  <2>8. Asked(walk, i, op)'
    BY <2>1 DEF Asked, Nothing
  <2>9. Lifting(walk, i, op)'
    <3>1. ASSUME kind = "placeUp1", op.kind # "place" \/ nav.pc = "start"
          PROVE  foot' = from /\ Block(from)' = before[from]
      <4>1. pending.at \in digs
        BY <1>3, <2>3, <3>1
      <4>2. foot = from /\ Block(foot) = before[from]
        BY <1>2, <3>1 DEF Lifting
      <4> QED BY <1>5, <2>1, <2>2, <3>1, <4>1, <4>2
    <3>2. kind = "placeUp1" /\ (op.kind # "place" \/ nav'.pc = "start") =>
            foot' = from /\ ReadBlockAt(world', foot') = before[from]
      BY <1>8, <3>1 DEF Block
    <3> QED BY <3>2 DEF Lifting, Block
  <2> QED BY <1>9, <2>4, <2>5, <2>6, <2>7, <2>8, <2>9
<1>14. CASE PlaceLands
  <2>1. /\ pending.kind = "place" /\ Block(pending.at) \in {"air", "plant", "liquid"}
        /\ world' = [world EXCEPT ![pending.at] = "rock"] /\ pending' = Nothing
    BY <1>14 DEF PlaceLands, IsEmptyBlock, IsReplaceable
  <2>2. op.kind = "place" /\ nav.pc # "start" /\ pending.at = from /\ kind = "placeUp1"
    BY <1>2, <1>3, <2>1 DEF Asked
  <2>3. \A p : Block(p)' = IF p = pending.at THEN "rock" ELSE Block(p)
    BY <2>1, Lands
  <2>4. Mid(walk, i)'
    BY <1>1, <1>2, <1>10, <1>14, LandsInTheMiddle
  <2>5. \A m \in 1 .. j - 1 : script[m].kind = "dig" => Block(script[m].to)' = "air"
    BY <1>2, <1>4, <1>5, <2>2, <2>3
  <2>6. Digging(op)' /\ Lifting(walk, i, op)'
    BY <1>8, <2>2 DEF Digging, Lifting
  <2>7. Placing(walk, i, op)'
    BY <1>2, <1>8, <2>2, <2>3 DEF Placing
  <2>8. Asked(walk, i, op)'
    BY <2>1 DEF Asked, Nothing
  <2> QED BY <1>9, <2>4, <2>5, <2>6, <2>7, <2>8
<1>15. CASE PendingLost \/ Abort
  <2>1. UNCHANGED <<world, foot>> /\ pending' \in {pending, Nothing}
    BY <1>15 DEF PendingLost, Abort, routeVars
  <2>2. \A p : Block(p)' = Block(p)
    BY <2>1 DEF Block
  <2>3. Mid(walk, i)'
    BY <1>2, <2>1, <2>2 DEF Mid, Between
  <2>4. Digging(op)' /\ Placing(walk, i, op)' /\ Lifting(walk, i, op)'
    BY <1>2, <1>8, <2>1, <2>2 DEF Digging, Placing, Lifting
  <2>5. Asked(walk, i, op)'
    BY <1>2, <1>8, <2>1, <2>2 DEF Asked, Nothing
  <2> QED BY <1>2, <1>9, <2>2, <2>3, <2>4, <2>5
<1> QED BY <1>11, <1>12, <1>13, <1>14, <1>15

(***************************************************************************)
(* A navigation from its plan to its end, whoever began it.                *)
(***************************************************************************)

LEMMA FootPlans ==
  ASSUME OnFoot, IsSearch(search), Plan
  PROVE  OnFoot'
<1>1. UNCHANGED navVars /\ Planning /\ SearchStep
  BY DEF Plan
<1>2. Ready
  BY <1>1 DEF OnFoot, Still, OnTheWay, Going, Walks, Stopped, Acting, Planning
<1>3. search'.start = search.start
  BY <1>1, SearchKeepsItsShape
<1> QED BY <1>1, <1>2, <1>3 DEF OnFoot, Ready, Planning, navVars

LEMMA FootExecutes ==
  ASSUME OnFoot, RouteInv, Execute
  PROVE  OnFoot'
<1>1. IsNavigation(nav)
  BY DEF RouteInv, AbortInv
<1>2. CASE Ready
  BY <1>2, ReadyExecutes DEF OnFoot
<1>3. CASE Still
  <2>1. /\ ~ Planning' /\ nav'.ops = << >> /\ UNCHANGED <<world, foot, pending>>
    BY <1>1, <1>3, EndedExecutes DEF Still
  <2> QED BY <1>3, <2>1 DEF OnFoot, Still, Quiet, Block
<1>4. CASE OnTheWay
  <2>1. PICK walk : IsWalk(walk) /\ Going(walk)
    BY <1>4 DEF OnTheWay
  <2>2. \A i, j : Walks(walk, i, j) => Going(walk)' \/ Still'
    BY <1>1, <2>1, WalkExecutes
  <2>3. \A i : ~ Stopped(walk, i)
    <3>1. \A i : Stopped(walk, i) => ~ Planning /\ nav.ops = << >> /\ ~ Acting
      BY DEF Stopped, Planning, Acting
    <3> QED BY <1>1, <3>1, EndedExecutes
  <2>4. Going(walk)' \/ Still'
    BY <2>1, <2>2, <2>3 DEF Going
  <2> QED BY <2>1, <2>4 DEF OnFoot, OnTheWay
<1> QED BY <1>2, <1>3, <1>4 DEF OnFoot

LEMMA FootAround ==
  ASSUME OnFoot, ~ Planning,
         \/ BotMoves \/ Falls \/ DigLands \/ PlaceLands \/ PendingLost \/ (Acting /\ Abort)
  PROVE  OnFoot'
<1>1. Still => Still'
  BY AroundStill
<1>2. ASSUME OnTheWay PROVE OnTheWay'
  <2>1. PICK walk : IsWalk(walk) /\ Going(walk)
    BY <1>2 DEF OnTheWay
  <2>2. \A i, j : Walks(walk, i, j) => Walks(walk, i, j)'
    BY <2>1, AroundWalk
  <2>3. \A i : Stopped(walk, i) => Stopped(walk, i)'
    BY <2>1, AroundStopped
  <2>4. Going(walk)'
    BY <2>1, <2>2, <2>3 DEF Going
  <2> QED BY <2>1, <2>4 DEF OnTheWay
<1> QED BY <1>1, <1>2 DEF OnFoot, Ready

LEMMA FootStutters ==
  ASSUME OnFoot, UNCHANGED <<world, foot, nav, pending, search>>
  PROVE  OnFoot'
<1>1. \A p : Block(p)' = Block(p)
  BY DEF Block
<1>2. Ready => Ready'
  BY DEF Ready, Planning
<1>3. Still => Still'
  BY DEF Still, Planning, Quiet, Block
<1>4. \A walk, i : Mid(walk, i) => Mid(walk, i)'
  BY <1>1 DEF Mid, Between
<1>5. \A walk, i : Stopped(walk, i) => Stopped(walk, i)'
  BY <1>4 DEF Stopped, Owed, Block
<1>6. ASSUME NEW walk, NEW i, NEW j, Walks(walk, i, j) PROVE Walks(walk, i, j)'
  <2>1. LET op == walk.scripts[i][j]
        IN  /\ PcFits(op.kind, nav'.pc) /\ Digging(op)' /\ Placing(walk, i, op)'
            /\ Lifting(walk, i, op)' /\ Asked(walk, i, op)'
    BY <1>6 DEF Walks, Digging, Placing, Lifting, Asked, Block
  <2> QED BY <1>1, <1>4, <1>6, <2>1 DEF Walks, Acting
<1>7. OnTheWay => OnTheWay'
  BY <1>5, <1>6 DEF OnTheWay, Going
<1> QED BY <1>2, <1>3, <1>7 DEF OnFoot

(* And if the bot loses its footing, it stands again one block further     *)
(* down.                                                                   *)
LEMMA QuietLoses ==
  ASSUME Quiet, nav.ops = << >>, BotMoves \/ Falls \/ DigLands \/ PlaceLands
  PROVE  ~ LosesFooting
<1>1. Falls
  BY DEF Quiet, BotMoves, DigLands, PlaceLands, IsEmptyBlock, IsReplaceable
<1> QED BY <1>1 DEF Falls, LosesFooting

LEMMA StoppedLoses ==
  ASSUME NEW walk, IsWalk(walk), NEW i, Stopped(walk, i), LosesFooting,
         BotMoves \/ Falls \/ DigLands \/ PlaceLands
  PROVE  Stands(world', Above(foot', -1))
<1>1. /\ i \in Steps(walk) /\ nav.ops = << >> /\ Mid(walk, i) /\ Owed(walk, i)
      /\ IsAction(walk, i)
  BY DEF Stopped, IsWalk, IsRoute
<1>2. Between(walk, i)
  BY <1>1 DEF Mid
<1>3. Mid(walk, i)' => Partly(walk, i)' /\ Between(walk, i)'
  BY MidIsPartly, PTL
<1>4. Mid(walk, i)'
  BY <1>1, LandsInTheMiddle DEF BotMoves
<1>5. DigLands \/ PlaceLands
  BY <1>1 DEF BotMoves, Falls, LosesFooting
<1>6. KindOf(walk, i) = "placeUp1" => Firm(walk, i)
  BY <1>1 DEF IsAction
<1>7. (DigLands /\ pending.at \in DigsOf(walk, i)) \/ Firm(walk, i)
  BY <1>1, <1>5, <1>6 DEF Owed, DigLands, PlaceLands, IsEmptyBlock, IsReplaceable
<1> QED BY <1>1, <1>2, <1>3, <1>4, <1>7, LosesInTheMiddle

LEMMA WalkLoses ==
  ASSUME NEW walk, IsWalk(walk), NEW i, NEW j, Walks(walk, i, j), LosesFooting,
         BotMoves \/ Falls \/ DigLands \/ PlaceLands
  PROVE  Stands(world', Above(foot', -1))
<1> DEFINE op == walk.scripts[i][j]
<1>1. /\ i \in Steps(walk) /\ j \in 1 .. Len(walk.scripts[i]) /\ Mid(walk, i)
      /\ IsAction(walk, i) /\ Asked(walk, i, op)
  BY CurrentIs DEF Walks
<1>2. Between(walk, i)
  BY <1>1 DEF Mid
<1>3. Mid(walk, i)' => Partly(walk, i)' /\ Between(walk, i)'
  BY MidIsPartly, PTL
<1>4. Mid(walk, i)'
  BY AroundWalk DEF Walks
<1>5. KindOf(walk, i) = "placeUp1" => Firm(walk, i)
  BY <1>1 DEF IsAction
<1>6. /\ op.kind = "dig" => op.to \in DigsOf(walk, i)
      /\ op.kind = "place" => KindOf(walk, i) = "placeUp1"
  BY <1>1, OpFacts
<1> HIDE DEF op
<1>7. BotMoves => foot' = To(walk, i)
  BY WalkHeads
<1>8. ~ Falls
  BY DEF Falls, LosesFooting
<1>9. DigLands => pending.at \in DigsOf(walk, i) \/ Firm(walk, i)
  BY <1>1, <1>5, <1>6 DEF Asked, DigLands
<1>10. PlaceLands => Firm(walk, i)
  BY <1>1, <1>5, <1>6 DEF Asked, PlaceLands, IsEmptyBlock, IsReplaceable
<1> QED BY <1>1, <1>2, <1>3, <1>4, <1>7, <1>8, <1>9, <1>10, LosesInTheMiddle

LEMMA FootLoses ==
  ASSUME OnFoot, ~ Planning, LosesFooting, BotMoves \/ Falls \/ DigLands \/ PlaceLands
  PROVE  Stands(world', Above(foot', -1))
<1>1. ~ Ready /\ ~ Still
  BY QuietLoses DEF Ready, Still
<1>2. PICK walk : IsWalk(walk) /\ Going(walk)
  BY <1>1 DEF OnFoot, OnTheWay
<1> QED BY <1>2, StoppedLoses, WalkLoses DEF Going

(* What loses the bot its footing, if the others do nothing.               *)
LEMMA FootIsLost ==
  ASSUME LosesFooting
  PROVE  ~ UNCHANGED <<world, foot>>
BY DEF LosesFooting, Unsupported, Block

-----------------------------------------------------------------------------
(***************************************************************************)
(* The invariant of a fall is inductive, and says where the bot falls.     *)
(***************************************************************************)

LEMMA FallInitially == Init => FallInv
<1> SUFFICES ASSUME Init PROVE FallInv
  OBVIOUS
<1>1. RouteInv
  BY Initially, InitFinds DEF RouteInv
<1>2. disturbances = 0 /\ nav = Idle /\ pending = Nothing
  BY DEF Init
<1>3. foot = search.start /\ foot \in Positions
  <2>1. search = PlanTerrainRoute(foot)
    BY DEF Init
  <2>2. PlanTerrainRoute(foot).start = foot
    BY DEF PlanTerrainRoute, SearchFrom
  <2> QED BY <2>1, <2>2, InitFinds
<1>4. Ready
  BY <1>2, <1>3 DEF Ready, Idle, Planning
<1> QED BY <1>1, <1>2, <1>4 DEF FallInv, OnFoot

LEMMA FallStep == FallInv /\ [Next]_vars => FallInv'
<1> SUFFICES ASSUME FallInv, [Next]_vars PROVE FallInv'
  OBVIOUS
<1>1. RouteInv /\ RouteInv' /\ disturbances \in Nat
  BY RouteStep DEF FallInv
<1>2. CASE Plan
  <2>1. disturbances' = disturbances
    BY <1>2 DEF Plan, navVars
  <2> QED BY <1>1, <1>2, <2>1, FootPlans DEF FallInv, RouteInv
<1>3. CASE Execute
  <2>1. disturbances' = disturbances
    BY <1>1, <1>3, ExecuteKeeps DEF RouteInv, AbortInv
  <2> QED BY <1>1, <1>3, <2>1, FootExecutes DEF FallInv
<1>4. CASE Around
  <2>1. ~ Planning
    BY <1>4 DEF Around
  <2>2. CASE OthersChangeBlock \/ OthersPush
    <3>1. disturbances' = disturbances + 1
      BY <2>2 DEF OthersChangeBlock, OthersPush
    <3>2. disturbances' \in Nat /\ disturbances' # 0
      BY <1>1, <3>1
    <3> QED BY <1>1, <3>2 DEF FallInv
  <2>3. CASE \/ BotMoves \/ Falls \/ DigLands \/ PlaceLands \/ PendingLost
             \/ (Acting /\ Abort)
    <3>1. disturbances' = disturbances
      BY <2>3 DEF BotMoves, Falls, DigLands, PlaceLands, PendingLost, Abort
    <3> QED BY <1>1, <2>1, <2>3, <3>1, FootAround DEF FallInv
  <2> QED BY <1>4, <2>2, <2>3 DEF Around, Server
<1>5. CASE UNCHANGED vars
  <2>1. UNCHANGED <<world, foot, nav, pending, search, disturbances>>
    BY <1>5 DEF vars, routeVars, navVars
  <2> QED BY <1>1, <2>1, FootStutters DEF FallInv
<1> QED BY <1>2, <1>3, <1>4, <1>5 DEF Next

(* Unless others interfere, a bot that goes to a place and loses its       *)
(* footing stands again one block further down, wherever its way is cut    *)
(* short: by an abort, an error or a dig or placement that lands late.     *)
THEOREM FallsByOne == Spec => FallsOneBlock
<1>1. Spec => []FallInv
  BY FallInitially, FallStep, PTL DEF Spec
<1>2. ASSUME FallInv, [Next]_vars, disturbances' = 0, LosesFooting
      PROVE  Stands(world', Above(foot', -1))
  <2>1. FallInv'
    BY <1>2, FallStep
  <2>2. disturbances \in Nat /\ RouteInv
    BY <1>2 DEF FallInv
  <2>3. ~ Plan /\ ~ UNCHANGED vars
    BY <1>2, FootIsLost DEF Plan, SearchStep, ExpandNode, EndPhase, navVars, vars, routeVars
  <2>4. ~ Execute
    BY <1>2, <2>2, FootIsLost, ExecuteKeeps, ExecuteStands DEF RouteInv, AbortInv
  <2>5. ~ Planning /\ ~ OthersChangeBlock /\ ~ OthersPush /\ Around
    BY <1>2, <2>2, <2>3, <2>4 DEF Next, Around, OthersChangeBlock, OthersPush
  <2>6. ~ PendingLost /\ ~ Abort
    BY <1>2, FootIsLost DEF PendingLost, Abort, routeVars
  <2>7. BotMoves \/ Falls \/ DigLands \/ PlaceLands
    BY <2>5, <2>6 DEF Around, Server
  <2>8. disturbances = 0
    BY <1>2, <2>7 DEF BotMoves, Falls, DigLands, PlaceLands
  <2> QED BY <1>2, <2>5, <2>7, <2>8, FootLoses DEF FallInv
<1>3. FallInv /\ [Next]_vars =>
        [disturbances' = 0 /\ nav.alone /\ LosesFooting =>
           Stands(world', Above(foot', -1)) \/ DigsTarget]_vars
  BY <1>2
<1> QED BY <1>1, <1>3, PTL DEF FallsOneBlock, Spec

-----------------------------------------------------------------------------
(***************************************************************************)
(* The way of a miner: the plan of its own while it is executed, seen from *)
(* the world it was made in, as a walk is; after the actions it makes sure *)
(* that it has arrived and digs its target.                                *)
(***************************************************************************)

(* The operations of an action: its digs are done before it takes the bot  *)
(* on, and that before it ends.                                            *)
IsMineScript(script, action) ==
  /\ script \in Seq(MinerOps) /\ Len(script) \in Nat /\ Len(script) > 2
  /\ \A m \in 1 .. Len(script) :
       /\ script[m].kind \in Inner \cup {"begin"}
       /\ script[m].kind = "mineDig" => script[m].to \in ToSet(action.digs)
       /\ script[m].kind \in {"move", "drop"} => script[m].to = action.toFoot
       /\ script[m].kind = "end" <=> m = Len(script)
  /\ script[Len(script) - 1].kind \in {"move", "drop"}
  /\ \A p \in ToSet(action.digs) : \E m \in 1 .. Len(script) - 1 : script[m] = Op("mineDig", p)

EndsAt(ops, target) ==
  /\ ops \in Seq(MinerOps)
  /\ \A k \in DOMAIN ops : /\ ops[k].kind \in {"check", "finalDig"}
                           /\ ops[k].kind = "finalDig" => ops[k].to = target

IsMineWay(way) ==
  /\ IsRoute(way) /\ EndsAt(way.later[Len(way.steps)], search.plan.target)
  /\ \A i \in Steps(way) : /\ KindOf(way, i) \in MineKinds
                           /\ IsMineScript(way.scripts[i], way.steps[i])
                           /\ way.later[i] \in Seq(MinerOps)
                           /\ way.later[i - 1] = way.scripts[i] \o way.later[i]

OnAction(way, i) == i \in Steps(way) /\ Partly(way, i) /\ Between(way, i)

(* The operation j of action i is under way.                               *)
Watching(op) ==
  /\ op.kind = "mineDig" /\ nav.pc \in {"aim", "watch"} =>
       /\ ~ IsAirBlock(nav.seen) /\ nav.seen # "unknown"
       /\ Block(op.to) = nav.seen \/ (IsAirBlock(Block(op.to)) /\ nav.pc = "watch")
  /\ pending.kind # "place"
  /\ pending.kind = "dig" => /\ op.kind = "mineDig" /\ nav.pc = "watch" /\ pending.at = op.to
                             /\ Block(op.to) = nav.seen
Mines(way, i, j) ==
  /\ Acting /\ OnAction(way, i) /\ j \in 1 .. Len(way.scripts[i])
  /\ nav.ops = Rest(way.scripts[i], j, way.later[i])
  /\ \A m \in 1 .. j - 1 :
       way.scripts[i][m].kind = "mineDig" => IsAirBlock(Block(way.scripts[i][m].to))
  /\ LET op == way.scripts[i][j]
     IN  /\ PcFits(op.kind, nav.pc) /\ Watching(op)
         /\ op.kind = "end" => foot = To(way, i)

(* It ended in the middle of an action.                                    *)
Halted(way, i) ==
  /\ nav.status = "failed" /\ nav.ops = << >> /\ OnAction(way, i)
  /\ pending.kind # "place" /\ (pending.kind = "dig" => pending.at \in DigsOf(way, i))

(* It has come to its end, and only its target is still to be dug.         *)
AtEnd ==
  /\ nav.status \in {"acting", "failed"} /\ EndsAt(nav.ops, search.plan.target)
  /\ pending.kind # "place" /\ (pending.kind = "dig" => pending.at = search.plan.target)

MineGoes(way) == (\E i, j \in Nat : Mines(way, i, j)) \/ \E i \in Nat : Halted(way, i)
OnMineWay == AtEnd \/ \E way : IsMineWay(way) /\ MineGoes(way)

(* What the operations of an action are.                                   *)
LEMMA MineScriptIsScript ==
  ASSUME NEW a \in Actions
  PROVE  IsMineScript(MineScript(a), a)
<1> DEFINE last == IF a.kind \in {"drop1", "digStepDown"} THEN "drop" ELSE "move"
           digs == [k \in DOMAIN a.digs |-> Op("mineDig", a.digs[k])]
           first == <<Op("begin", a.digs)>>
           end == <<Op(last, a.toFoot), Op("end", << >>)>>
           n == Len(a.digs)
           script == MineScript(a)
<1>1. a.digs \in Seq(Positions) /\ a.toFoot \in Positions /\ n \in Nat /\ DOMAIN a.digs = 1 .. n
  BY DEF Actions
<1>2. script \in Seq(MinerOps)
  <2>1. PICK p \in Positions : p = a.toFoot
    BY <1>1
  <2>4. <<a>> \in Seq(Actions)
    OBVIOUS
  <2>2. PICK actions \in Seq(Actions) : actions = <<a>>
    BY <2>4
  <2>3. 1 \in DOMAIN actions /\ actions[1] = a
    BY <2>2
  <2> QED BY <2>1, <2>3, OpsOfAMiner
<1>3. script = first \o digs \o end
  BY DEF MineScript
<1>4. /\ digs \in Seq([kind : {"mineDig"}, to : Positions]) /\ Len(digs) = n
      /\ \A k \in 1 .. n : digs[k] = Op("mineDig", a.digs[k])
  <2>1. \A k \in 1 .. n : Op("mineDig", a.digs[k]) \in [kind : {"mineDig"}, to : Positions]
    BY <1>1 DEF Op
  <2> QED BY <1>1, <2>1
<1>5. /\ Len(script) = n + 3 /\ script[1].kind = "begin"
      /\ \A k \in 1 .. n : script[k + 1] = Op("mineDig", a.digs[k])
      /\ script[n + 2] = Op(last, a.toFoot) /\ script[n + 3].kind = "end"
  <2>1. PICK S : /\ first \in Seq(S) /\ digs \in Seq(S) /\ end \in Seq(S)
    <3> DEFINE T == [kind : {"mineDig"}, to : Positions]
               S == {first[1], end[1], end[2]} \cup T
    <3>1. first \in Seq(S) /\ end \in Seq(S)
      OBVIOUS
    <3>2. digs \in Seq(S)
      <4>1. digs \in Seq(T)
        BY <1>4
      <4> HIDE DEF digs, T
      <4>2. T \subseteq S
        OBVIOUS
      <4> HIDE DEF S
      <4> QED BY <4>1, <4>2
    <3> QED BY <3>1, <3>2
  <2>2. /\ Len(first) = 1 /\ first[1].kind = "begin" /\ Len(end) = 2
        /\ end[1] = Op(last, a.toFoot) /\ end[2].kind = "end"
    BY DEF Op
  <2> HIDE DEF first, digs, end
  <2> DEFINE fd == first \o digs
  <2>3. /\ fd \in Seq(S) /\ Len(fd) = 1 + n
        /\ \A k \in 1 .. 1 + n : fd[k] = IF k <= 1 THEN first[k] ELSE digs[k - 1]
    <3>1. /\ fd \in Seq(S) /\ Len(fd) = Len(first) + Len(digs)
          /\ \A k \in 1 .. Len(first) + Len(digs) :
               fd[k] = IF k <= Len(first) THEN first[k] ELSE digs[k - Len(first)]
      BY <2>1, ConcatProperties
    <3>2. Len(digs) = n
      BY <1>4 DEF digs
    <3> QED BY <2>2, <3>1, <3>2
  <2> HIDE DEF fd
  <2>4. /\ Len(fd \o end) = (1 + n) + 2
        /\ \A k \in 1 .. (1 + n) + 2 :
             (fd \o end)[k] = IF k <= 1 + n THEN fd[k] ELSE end[k - (1 + n)]
    <3>1. /\ Len(fd \o end) = Len(fd) + Len(end)
          /\ \A k \in 1 .. Len(fd) + Len(end) :
               (fd \o end)[k] = IF k <= Len(fd) THEN fd[k] ELSE end[k - Len(fd)]
      BY <2>1, <2>3, ConcatProperties
    <3> QED BY <2>2, <2>3, <3>1
  <2>5. script = fd \o end
    BY <1>3 DEF fd
  <2> HIDE DEF script
  <2>6. Len(script) = n + 3
    BY <1>1, <2>4, <2>5
  <2>7. script[1].kind = "begin"
    <3>1. 1 \in 1 .. (1 + n) + 2 /\ 1 <= 1 + n /\ 1 \in 1 .. 1 + n
      BY <1>1
    <3>2. script[1] = first[1]
      BY <2>3, <2>4, <2>5, <3>1
    <3> QED BY <2>2, <3>2
  <2>8. ASSUME NEW k \in 1 .. n PROVE script[k + 1] = Op("mineDig", a.digs[k])
    <3>1. /\ k + 1 \in 1 .. (1 + n) + 2 /\ k + 1 <= 1 + n /\ k + 1 \in 1 .. 1 + n
          /\ ~ (k + 1 <= 1) /\ (k + 1) - 1 = k
      BY <1>1
    <3>2. script[k + 1] = digs[k]
      BY <2>3, <2>4, <2>5, <3>1
    <3> QED BY <1>4, <3>2
  <2>9. script[n + 2] = end[1] /\ script[n + 3] = end[2]
    <3>1. /\ n + 2 \in 1 .. (1 + n) + 2 /\ ~ (n + 2 <= 1 + n) /\ (n + 2) - (1 + n) = 1
          /\ n + 3 \in 1 .. (1 + n) + 2 /\ ~ (n + 3 <= 1 + n) /\ (n + 3) - (1 + n) = 2
      BY <1>1
    <3> QED BY <2>4, <2>5, <3>1
  <2> QED BY <2>2, <2>6, <2>7, <2>8, <2>9
<1> HIDE DEF script
<1>6. last \in {"move", "drop"}
  OBVIOUS
<1> HIDE DEF last
<1>7. ASSUME NEW m \in 1 .. Len(script)
      PROVE  /\ script[m].kind \in Inner \cup {"begin"}
             /\ script[m].kind = "mineDig" => script[m].to \in ToSet(a.digs)
             /\ script[m].kind \in {"move", "drop"} => script[m].to = a.toFoot
             /\ script[m].kind = "end" <=> m = Len(script)
  <2>1. m = 1 \/ m - 1 \in 1 .. n \/ m = n + 2 \/ m = n + 3
    BY <1>1, <1>5
  <2>2. CASE m = 1
    BY <1>1, <1>5, <2>2
  <2>3. CASE m - 1 \in 1 .. n
    <3>1. script[m] = Op("mineDig", a.digs[m - 1]) /\ m # n + 3
      <4>1. (m - 1) + 1 = m
        BY <1>1, <1>5
      <4> QED BY <1>1, <1>5, <2>3, <4>1
    <3>2. a.digs[m - 1] \in ToSet(a.digs)
      BY <1>1, <2>3 DEF ToSet
    <3> QED BY <1>5, <3>1, <3>2 DEF Op, Inner
  <2>4. CASE m = n + 2
    BY <1>1, <1>5, <1>6, <2>4 DEF Op, Inner
  <2>5. CASE m = n + 3
    BY <1>5, <2>5 DEF Inner
  <2> QED BY <2>1, <2>2, <2>3, <2>4, <2>5
<1>8. script[Len(script) - 1].kind \in {"move", "drop"}
  <2>1. Len(script) - 1 = n + 2
    BY <1>1, <1>5
  <2> QED BY <1>5, <1>6, <2>1 DEF Op
<1>9. ASSUME NEW p \in ToSet(a.digs)
      PROVE  \E m \in 1 .. Len(script) - 1 : script[m] = Op("mineDig", p)
  <2>1. PICK k \in 1 .. n : a.digs[k] = p
    BY <1>1 DEF ToSet
  <2>2. k + 1 \in 1 .. Len(script) - 1
    BY <1>1, <1>5
  <2> QED BY <1>5, <2>1, <2>2
<1>10. Len(script) \in Nat /\ Len(script) > 2
  BY <1>1, <1>5
<1>11. script \in Seq(MinerOps)
  BY <1>2 DEF script
<1> QED BY <1>7, <1>8, <1>9, <1>10, <1>11 DEF IsMineScript, script

(* A plan that a miner found is a way from where it is.                    *)
PlansWay(way) ==
  /\ IsMineWay(way) /\ way.at[0] = foot /\ \A p \in Positions : way.cell[0][p] = Block(p)
  /\ way.later[0] =
       FlattenSeq([i \in DOMAIN search.plan.actions |-> MineScript(search.plan.actions[i])])
         \o <<Op("check", search.plan.finalFoot), Op("finalDig", search.plan.target)>>

LEMMA PlanIsMineWay ==
  ASSUME LeadsToTarget(search.plan), search.start = foot, foot \in Positions
  PROVE  \E way : PlansWay(way)
<1> DEFINE steps == search.plan.actions
           target == search.plan.target
           scripts == [i \in DOMAIN steps |-> MineScript(steps[i])]
           tail == <<Op("check", search.plan.finalFoot), Op("finalDig", target)>>
<1>1. /\ steps \in Seq(Actions) /\ LeadsThere(search.plan) /\ search.plan.finalFoot \in Positions
      /\ target \in Positions /\ \A i \in DOMAIN steps : steps[i].kind \in MineKinds
  BY DEF LeadsToTarget, LeadsThere
<1>2. DOMAIN steps = 1 .. Len(steps) /\ Len(steps) \in Nat
  BY <1>1
<1>3. ASSUME NEW i \in 1 .. Len(steps)
      PROVE  steps[i] \in Actions /\ IsMineScript(MineScript(steps[i]), steps[i])
  <2>1. steps[i] \in Actions
    BY <1>1
  <2> QED BY <2>1, MineScriptIsScript
<1>4. scripts \in Seq(Seq(MinerOps)) /\ Len(scripts) = Len(steps)
  <2>1. \A i \in 1 .. Len(steps) : MineScript(steps[i]) \in Seq(MinerOps)
    BY <1>3 DEF IsMineScript
  <2> QED BY <1>2, <2>1
<1>5. PICK left : Leaves(MinerOps, scripts, Len(scripts), left) /\ left[0] = FlattenSeq(scripts)
  <2> HIDE DEF scripts
  <2> QED BY <1>4, LeftOfAll
<1>6. tail \in Seq(MinerOps) /\ EndsAt(tail, target)
  <2>1. tail \in Seq(MinerOps)
    BY <1>1, OpsOfAMiner
  <2>2. \A k \in DOMAIN tail : /\ tail[k].kind \in {"check", "finalDig"}
                               /\ tail[k].kind = "finalDig" => tail[k].to = target
    BY DEF Op
  <2> QED BY <2>1, <2>2 DEF EndsAt
<1> DEFINE way == [steps |-> steps, at |-> [i \in 0 .. Len(steps) |-> FootAfter(steps, i)],
                   cell |-> [i \in 0 .. Len(steps) |->
                               [p \in Positions |-> CellAfter(steps, i, p)]],
                   scripts |-> scripts, later |-> [i \in 0 .. Len(steps) |-> left[i] \o tail]]
<1>7. /\ way.steps = steps /\ way.scripts = scripts
      /\ \A i \in 0 .. Len(steps) : way.at[i] = FootAfter(steps, i)
      /\ \A i \in 0 .. Len(steps) : \A p \in Positions : way.cell[i][p] = CellAfter(steps, i, p)
      /\ \A i \in 0 .. Len(steps) : way.later[i] = left[i] \o tail
  OBVIOUS
<1> HIDE DEF way, tail
<1>8. Replays(way)
  BY <1>7 DEF Replays
<1>9. IsRoute(way) /\ way.at[0] = foot /\ \A p \in Positions : way.cell[0][p] = Block(p)
  BY <1>1, <1>8, PlanIsRoute
<1>10. ASSUME NEW i \in 1 .. Len(steps)
       PROVE  /\ KindOf(way, i) \in MineKinds /\ IsMineScript(way.scripts[i], way.steps[i])
              /\ way.later[i] \in Seq(MinerOps) /\ way.later[i - 1] = way.scripts[i] \o way.later[i]
  <2>1. i \in 0 .. Len(steps) /\ i - 1 \in 0 .. Len(steps) /\ i \in DOMAIN steps
    BY <1>2
  <2>2. way.scripts[i] = MineScript(steps[i]) /\ way.steps[i] = steps[i]
    BY <1>7, <2>1
  <2>3. KindOf(way, i) \in MineKinds /\ IsMineScript(way.scripts[i], way.steps[i])
    BY <1>1, <1>3, <2>1, <2>2 DEF KindOf
  <2> HIDE DEF scripts, steps
  <2>4. left[i] \in Seq(MinerOps) /\ left[i - 1] = way.scripts[i] \o left[i]
    BY <1>4, <1>5, <1>7, <2>1 DEF Leaves
  <2>5. way.scripts[i] \in Seq(MinerOps)
    BY <2>3 DEF IsMineScript
  <2>6. way.later[i] = left[i] \o tail /\ way.later[i - 1] = left[i - 1] \o tail
    BY <1>7, <2>1
  <2>7. PICK s \in Seq(MinerOps), t \in Seq(MinerOps), u \in Seq(MinerOps) :
          s = way.scripts[i] /\ t = left[i] /\ u = tail
    BY <1>6, <2>4, <2>5
  <2>8. PICK st, tu : st = s \o t /\ tu = t \o u
    OBVIOUS
  <2>9. st \o u = s \o tu /\ tu \in Seq(MinerOps)
    <3> HIDE DEF MinerOps
    <3>1. st \o u = s \o tu
      BY <2>8, JoinedTwice, SMTT(30)
    <3>2. tu \in Seq(MinerOps)
      BY <2>8
    <3> QED BY <3>1, <3>2
  <2> QED BY <2>3, <2>4, <2>6, <2>7, <2>8, <2>9
<1>11. way.later[Len(steps)] = tail
  <2>1. left[Len(steps)] = << >> /\ Len(steps) \in 0 .. Len(steps)
    BY <1>2, <1>4, <1>5 DEF Leaves
  <2>2. << >> \o tail = tail
    BY <1>6, ConcatEmptySeq
  <2> QED BY <1>7, <2>1, <2>2
<1>12. IsMineWay(way)
  BY <1>6, <1>7, <1>9, <1>10, <1>11 DEF IsMineWay, Steps
<1>13. way.later[0] = FlattenSeq(scripts) \o tail
  <2>1. 0 \in 0 .. Len(steps)
    BY <1>2
  <2> QED BY <1>5, <1>7, <2>1
<1>14. PlansWay(way)
  BY <1>9, <1>12, <1>13 DEF PlansWay, tail
<1> QED BY <1>14

-----------------------------------------------------------------------------
(* The operation under way.                                                *)
LEMMA MineOpFacts ==
  ASSUME NEW way, IsMineWay(way), NEW i, NEW j, Mines(way, i, j)
  PROVE  LET script == way.scripts[i]
             op == script[j]
         IN  /\ nav.ops # << >> /\ CurrentOp = op /\ op.kind \in Inner \cup {"begin"}
             /\ i \in Nat /\ j \in Nat /\ Len(script) \in Nat /\ IsAction(way, i)
             /\ op.kind = "mineDig" => op.to \in DigsOf(way, i)
             /\ op.kind \in {"move", "drop"} => op.to = To(way, i)
             /\ op.kind = "end" <=> j = Len(script)
             /\ j = Len(script) => Tail(nav.ops) = way.later[i]
             /\ j < Len(script) => Tail(nav.ops) = Rest(script, j + 1, way.later[i])
             /\ j + 1 = Len(script) => op.kind \in {"move", "drop"}
<1> DEFINE script == way.scripts[i]
           op == script[j]
<1>1. /\ i \in Steps(way) /\ j \in 1 .. Len(script) /\ Acting
      /\ nav.ops = Rest(script, j, way.later[i])
  BY DEF Mines, OnAction
<1>2. /\ IsMineScript(script, way.steps[i]) /\ way.later[i] \in Seq(MinerOps)
      /\ IsAction(way, i) /\ i \in Nat
  <2>1. i \in Nat
    BY <1>1 DEF IsMineWay, IsRoute, Steps
  <2> QED BY <1>1, <2>1 DEF IsMineWay, IsRoute
<1>3. script \in Seq(MinerOps) /\ Len(script) \in Nat
  BY <1>2 DEF IsMineScript
<1>4. PICK s \in Seq(MinerOps), l \in Seq(MinerOps) : s = script /\ l = way.later[i]
  BY <1>2, <1>3
<1>5. j \in 1 .. Len(s)
  BY <1>1, <1>4
<1>6. /\ nav.ops # << >> /\ Head(nav.ops) = s[j]
      /\ j < Len(s) => Tail(nav.ops) = Rest(s, j + 1, l)
      /\ j = Len(s) => Tail(nav.ops) = l
  <2>1. /\ Rest(s, j, l) # << >> /\ Head(Rest(s, j, l)) = s[j]
        /\ j < Len(s) => Tail(Rest(s, j, l)) = Rest(s, j + 1, l)
        /\ j = Len(s) => Tail(Rest(s, j, l)) = l
    BY <1>5, LeftOfTwo
  <2>2. nav.ops = Rest(s, j, l)
    BY <1>1, <1>4
  <2> QED BY <2>1, <2>2
<1>7. j \in Nat
  BY <1>1, <1>3
<1>8. /\ op.kind \in Inner \cup {"begin"}
      /\ op.kind = "mineDig" => op.to \in ToSet(way.steps[i].digs)
      /\ op.kind \in {"move", "drop"} => op.to = way.steps[i].toFoot
      /\ op.kind = "end" <=> j = Len(script)
      /\ script[Len(script) - 1].kind \in {"move", "drop"}
  BY <1>1, <1>2 DEF IsMineScript
<1>9. j + 1 = Len(script) => j = Len(script) - 1
  BY <1>3, <1>7
<1>10. To(way, i) = way.steps[i].toFoot /\ DigsOf(way, i) = ToSet(way.steps[i].digs)
  BY <1>2 DEF IsAction, To, DigsOf
<1> QED BY <1>2, <1>3, <1>4, <1>6, <1>7, <1>8, <1>9, <1>10 DEF CurrentOp

(* After an action the next one begins, or the end of the way.             *)
LEMMA MineArrives ==
  ASSUME NEW way, IsMineWay(way), NEW i \in 0 .. Len(way.steps), Len(way.steps) \in Nat,
         UNCHANGED search, Acting', nav'.pc = "start", nav'.ops = way.later[i], foot' = way.at[i],
         \A p \in Positions : Alike(Block(p)', way.cell[i][p]), pending'.kind \notin {"dig", "place"}
  PROVE  AtEnd' \/ Mines(way, i + 1, 1)'
<1>1. CASE i = Len(way.steps)
  <2>1. EndsAt(nav'.ops, search'.plan.target)
    BY <1>1 DEF IsMineWay
  <2> QED BY <2>1 DEF AtEnd, Acting
<1>2. CASE i # Len(way.steps)
  <2> DEFINE n == i + 1
             script == way.scripts[n]
  <2>1. n \in Steps(way) /\ n - 1 = i
    BY <1>2 DEF Steps
  <2>2. From(way, n) = way.at[i] /\ Before(way, n) = way.cell[i]
    BY <2>1 DEF From, Before
  <2> HIDE DEF n
  <2>3. /\ IsMineScript(script, way.steps[n]) /\ way.later[n] \in Seq(MinerOps)
        /\ way.later[i] = script \o way.later[n]
    BY <2>1 DEF IsMineWay
  <2>4. script \in Seq(MinerOps) /\ Len(script) \in Nat /\ Len(script) > 2
    BY <2>3 DEF IsMineScript
  <2>5. 1 \in 1 .. Len(script) /\ 1 # Len(script)
    <3>1. \A k \in Nat : k > 2 => 1 \in 1 .. k /\ 1 # k
      OBVIOUS
    <3> HIDE DEF script
    <3> QED BY <2>4, <3>1
  <2>6. nav'.ops = Rest(script, 1, way.later[n])
    <3> HIDE DEF script
    <3>1. Rest(script, 1, way.later[n]) = script \o way.later[n]
      BY <2>3, <2>4, <2>5, LeftOfTwo
    <3> QED BY <2>3, <3>1
  <2>7. OnAction(way, n)'
    BY <2>1, <2>2 DEF OnAction, Partly, Between
  <2>8. script[1].kind # "end"
    BY <2>3, <2>5 DEF IsMineScript
  <2>9. PcFits(script[1].kind, nav'.pc) /\ Watching(script[1])'
    BY DEF PcFits, Watching
  <2>10. \A m \in 1 .. 1 - 1 : FALSE
    OBVIOUS
  <2>11. Mines(way, n, 1)'
    BY <2>5, <2>6, <2>7, <2>8, <2>9, <2>10 DEF Mines
  <2> QED BY <2>11 DEF n
<1> QED BY <1>1, <1>2

(* An error in the middle of an action.                                    *)
LEMMA MineHalts ==
  ASSUME NEW way, IsMineWay(way), NEW i, NEW j, Mines(way, i, j), IsNavigation(nav),
         nav' = Throw(nav), UNCHANGED <<world, foot, pending>>
  PROVE  MineGoes(way)'
<1>1. /\ OnAction(way, i) /\ i \in Nat /\ Watching(way.scripts[i][j])
      /\ way.scripts[i][j].kind = "mineDig" => way.scripts[i][j].to \in DigsOf(way, i)
  BY MineOpFacts DEF Mines
<1>2. nav'.status = "failed" /\ nav'.ops = << >>
  BY DEF Throw, IsNavigation, Fields
<1>3. OnAction(way, i)'
  BY <1>1 DEF OnAction, Partly, Between, Block
<1>4. Halted(way, i)'
  BY <1>1, <1>2, <1>3 DEF Halted, Watching
<1> QED BY <1>1, <1>4 DEF MineGoes

(* An operation goes on.                                                   *)
LEMMA MineGoesOn ==
  ASSUME NEW way, IsMineWay(way), NEW i, NEW j, Mines(way, i, j), NEW op,
         op = way.scripts[i][j], nav'.status = "acting", nav'.ops = nav.ops,
         UNCHANGED <<world, foot>>, PcFits(op.kind, nav'.pc), Watching(op)'
  PROVE  MineGoes(way)'
<1>1. i \in Nat /\ j \in Nat /\ OnAction(way, i)
  BY MineOpFacts DEF Mines
<1>2. \A p : Block(p)' = Block(p)
  BY DEF Block
<1>3. OnAction(way, i)'
  BY <1>1, <1>2 DEF OnAction, Partly, Between
<1>4. Mines(way, i, j)'
  BY <1>2, <1>3 DEF Mines, Acting
<1> QED BY <1>1, <1>4 DEF MineGoes

(* An operation is done.                                                   *)
LEMMA MineNextOp ==
  ASSUME NEW way, IsMineWay(way), NEW i, NEW j, Mines(way, i, j), IsNavigation(nav),
         nav' = OpDone(nav), UNCHANGED <<world, foot, pending, search>>,
         pending.kind \notin {"dig", "place"},
         NEW op, op = way.scripts[i][j],
         op.kind = "mineDig" => IsAirBlock(Block(op.to)),
         op.kind \in {"move", "drop"} => foot = To(way, i)
  PROVE  AtEnd' \/ MineGoes(way)'
<1> DEFINE script == way.scripts[i]
<1>1. /\ OnAction(way, i) /\ j \in 1 .. Len(script) /\ Acting /\ i \in Steps(way)
      /\ \A m \in 1 .. j - 1 : script[m].kind = "mineDig" => IsAirBlock(Block(script[m].to))
      /\ op.kind = "end" => foot = To(way, i)
  BY DEF Mines, OnAction
<1>2. /\ op.kind \in Inner \cup {"begin"} /\ i \in Nat /\ j \in Nat /\ Len(script) \in Nat
      /\ IsAction(way, i)
      /\ op.kind = "end" <=> j = Len(script)
      /\ j = Len(script) => Tail(nav.ops) = way.later[i]
      /\ j < Len(script) => Tail(nav.ops) = Rest(script, j + 1, way.later[i])
      /\ j + 1 = Len(script) => op.kind \in {"move", "drop"}
  BY MineOpFacts
<1>3. /\ nav'.ops = Tail(nav.ops) /\ nav'.pc = "start" /\ Acting'
      /\ \A p : Block(p)' = Block(p)
  BY <1>1 DEF OpDone, IsNavigation, Fields, Acting, Block
<1>4. IsMineScript(script, way.steps[i]) /\ KindOf(way, i) \in MineKinds
  BY <1>1 DEF IsMineWay
<1> HIDE DEF script
<1>5. CASE j < Len(script)
  <2> DEFINE next == script[j + 1]
  <2>1. j + 1 \in 1 .. Len(script) /\ j + 1 \in Nat
    BY <1>2, <1>5
  <2>2. ASSUME NEW m \in 1 .. (j + 1) - 1, script[m].kind = "mineDig"
        PROVE  IsAirBlock(Block(script[m].to)')
    <3>1. m = j \/ m \in 1 .. j - 1
      BY <1>2
    <3> QED BY <1>1, <1>3, <2>2, <3>1 DEF script
  <2>3. OnAction(way, i)'
    BY <1>1, <1>3 DEF OnAction, Partly, Between
  <2>4. PcFits(next.kind, nav'.pc) /\ Watching(next)'
    BY <1>3 DEF PcFits, Watching
  <2>5. next.kind = "end" => foot' = To(way, i)
    <3>1. next.kind = "end" => j + 1 = Len(script)
      BY <1>4, <2>1 DEF IsMineScript
    <3> QED BY <1>2, <3>1
  <2> HIDE DEF next
  <2>6. Mines(way, i, j + 1)'
    BY <1>2, <1>3, <1>5, <2>1, <2>2, <2>3, <2>4, <2>5 DEF Mines, next, script
  <2> QED BY <1>2, <2>1, <2>6 DEF MineGoes
<1>6. CASE j = Len(script)
  <2>1. foot = To(way, i)
    BY <1>1, <1>2, <1>6
  <2>2. ASSUME NEW p \in DigsOf(way, i) PROVE IsAirBlock(Block(p))
    <3>1. PICK m \in 1 .. Len(script) - 1 : script[m] = Op("mineDig", p)
      BY <1>4 DEF IsMineScript, DigsOf
    <3>2. m \in 1 .. j - 1 /\ script[m].kind = "mineDig" /\ script[m].to = p
      BY <1>6, <3>1 DEF Op
    <3> QED BY <1>1, <3>2
  <2>3. ASSUME NEW p \in Positions PROVE Alike(Block(p)', way.cell[i][p])
    <3>1. KindOf(way, i) # "placeUp1"
      BY <1>4 DEF MineKinds
    <3>2. way.cell[i][p] = IF p \in DigsOf(way, i) THEN "air" ELSE Before(way, i)[p]
      <4>1. CellsFollow(way, i)
        BY <1>2 DEF IsAction
      <4>2. way.cell[i][p] = IF KindOf(way, i) = "placeUp1" /\ p = From(way, i) THEN "rock"
                             ELSE IF p \in DigsOf(way, i) THEN "air" ELSE Before(way, i)[p]
        BY <4>1 DEF CellsFollow
      <4> QED BY <3>1, <4>2
    <3>3. Alike(Block(p), Before(way, i)[p]) \/ p \in DigsOf(way, i)
      BY <1>1, <3>1 DEF OnAction, Partly
    <3>4. IsAirBlock("air")
      BY DEF IsAirBlock
    <3> QED BY <1>3, <2>2, <3>2, <3>3, <3>4 DEF Alike
  <2>4. /\ i \in 0 .. Len(way.steps) /\ i + 1 \in Nat /\ way.at[i] = To(way, i)
        /\ Len(way.steps) \in Nat
    BY <1>1, <1>2 DEF IsMineWay, IsRoute, Steps, To
  <2>5. AtEnd' \/ Mines(way, i + 1, 1)'
    BY <1>2, <1>3, <1>6, <2>1, <2>3, <2>4, MineArrives
  <2> QED BY <2>4, <2>5 DEF MineGoes
<1> QED BY <1>1, <1>2, <1>5, <1>6

(* A block is dug.                                                         *)
LEMMA MineDigSteps ==
  ASSUME NEW way, IsMineWay(way), NEW i, NEW j, Mines(way, i, j), IsNavigation(nav),
         UNCHANGED search, MineDigReads \/ DigStarts \/ MineWatches
  PROVE  AtEnd' \/ MineGoes(way)'
<1> DEFINE op == way.scripts[i][j]
<1>1. /\ nav.ops # << >> /\ CurrentOp = op /\ op.kind \in Inner \cup {"begin"}
      /\ IsAction(way, i)
      /\ op.kind = "mineDig" => op.to \in DigsOf(way, i)
  BY MineOpFacts
<1>2. OnAction(way, i) /\ Watching(op) /\ nav.status = "acting"
  BY DEF Mines, Acting
<1> HIDE DEF op
<1>3. op.kind = "mineDig"
  BY <1>1 DEF MineDigReads, DigStarts, MineWatches, In, DIGS, Inner
<1>4. UNCHANGED <<world, foot>>
  BY DEF MineDigReads, DigStarts, MineWatches, routeVars
<1>5. Block(op.to) # "unknown"
  <2>1. /\ op.to \in Positions /\ op.to \in DigsOf(way, i) /\ KindOf(way, i) \in MineKinds
        /\ Before(way, i)[op.to] # "unknown"
    <3>1. op.to \in DigsOf(way, i) /\ i \in Steps(way)
      BY <1>1, <1>2, <1>3 DEF OnAction
    <3>2. /\ DigsOf(way, i) \subseteq Positions
          /\ \A p \in DigsOf(way, i) : IsDiggableBlock(Before(way, i)[p])
      BY <1>1 DEF IsAction
    <3>3. KindOf(way, i) \in MineKinds
      BY <3>1 DEF IsMineWay
    <3> QED BY <3>1, <3>2, <3>3 DEF IsDiggableBlock
  <2> QED BY <1>2, <2>1 DEF OnAction, Partly, Alike, IsAirBlock, MineKinds
<1>6. ASSUME nav' = Throw(nav), pending' = pending PROVE MineGoes(way)'
  BY <1>4, <1>6, MineHalts
<1>7. ASSUME nav' = OpDone(nav), pending' = pending, IsAirBlock(Block(op.to))
      PROVE  AtEnd' \/ MineGoes(way)'
  <2>1. pending.kind \notin {"dig", "place"}
    BY <1>2, <1>3, <1>7 DEF Watching
  <2> QED BY <1>3, <1>4, <1>7, <2>1, MineNextOp DEF op
<1>8. CASE MineDigReads
  <2>1. nav.pc = "start" /\ pending' = pending
    BY <1>8 DEF MineDigReads, In, AsksNothing
  <2>2. CASE IsAirBlock(Block(op.to)) /\ nav' = OpDone(nav)
    BY <1>7, <2>1, <2>2
  <2>3. CASE nav' = Throw(nav)
    BY <1>6, <2>1, <2>3
  <2>4. CASE ~ IsAirBlock(Block(op.to)) /\ nav' = [nav EXCEPT !.pc = "aim", !.seen = Block(op.to)]
    <3>1. /\ nav'.pc = "aim" /\ nav'.seen = Block(op.to) /\ nav'.status = "acting"
          /\ nav'.ops = nav.ops
      BY <1>2, <2>4 DEF IsNavigation, Fields
    <3>2. PcFits(op.kind, nav'.pc)
      BY <1>3, <3>1 DEF PcFits, DIGS
    <3>3. pending'.kind \notin {"dig", "place"}
      BY <1>2, <2>1 DEF Watching
    <3>4. Block(op.to)' = Block(op.to)
      BY <1>4 DEF Block
    <3>5. Watching(op)'
      BY <1>5, <2>4, <3>1, <3>3, <3>4 DEF Watching
    <3> QED BY <1>4, <3>1, <3>2, <3>5, MineGoesOn DEF op
  <2> QED BY <1>1, <1>5, <1>8, <2>2, <2>3, <2>4 DEF MineDigReads
<1>9. CASE DigStarts
  <2>1. nav.pc = "aim"
    BY <1>9 DEF DigStarts, In
  <2>2. CASE nav' = Throw(nav) /\ AsksNothing
    BY <1>6, <2>2 DEF AsksNothing
  <2>3. CASE nav' = [nav EXCEPT !.pc = "watch"] /\ Ask("dig", op.to)
    <3>1. /\ nav'.pc = "watch" /\ nav'.seen = nav.seen /\ nav'.status = "acting"
          /\ nav'.ops = nav.ops /\ pending'.kind = "dig" /\ pending'.at = op.to
      BY <1>2, <2>3 DEF IsNavigation, Fields, Ask
    <3>2. PcFits(op.kind, nav'.pc)
      BY <1>3, <3>1 DEF PcFits, DIGS
    <3>3. Block(op.to)' = Block(op.to)
      BY <1>4 DEF Block
    <3>4. Watching(op)'
      BY <1>2, <1>3, <2>1, <3>1, <3>3 DEF Watching
    <3> QED BY <1>4, <3>1, <3>2, <3>4, MineGoesOn DEF op
  <2> QED BY <1>1, <1>9, <2>2, <2>3 DEF DigStarts
<1>10. CASE MineWatches
  <2>1. nav.pc = "watch" /\ pending' = pending
    BY <1>10 DEF MineWatches, In, AsksNothing
  <2>2. CASE nav' = Throw(nav)
    BY <1>6, <2>1, <2>2
  <2>3. CASE Changed("mineDig", op.to) /\ nav' = OpDone(nav)
    <3>1. IsAirBlock(Block(op.to))
      BY <1>2, <1>3, <1>5, <2>1, <2>3 DEF Changed, IsBlockChanged, Watching, IsAirBlock
    <3> QED BY <1>7, <2>1, <2>3, <3>1
  <2>4. Changed("finalDig", op.to) => Changed("mineDig", op.to)
    BY DEF Changed
  <2> QED BY <1>1, <1>10, <2>2, <2>3, <2>4 DEF MineWatches, In
<1> QED BY <1>8, <1>9, <1>10

(* The bot walks or drops.                                                 *)
LEMMA MineMoveSteps ==
  ASSUME NEW way, IsMineWay(way), NEW i, NEW j, Mines(way, i, j), IsNavigation(nav),
         UNCHANGED search,
         MoveStarts \/ PathfinderEnds \/ StepToFoot \/ DropStarts \/ HeightReached
  PROVE  AtEnd' \/ MineGoes(way)'
<1> DEFINE op == way.scripts[i][j]
<1>1. /\ nav.ops # << >> /\ CurrentOp = op /\ op.kind \in Inner \cup {"begin"}
      /\ op.kind \in {"move", "drop"} => op.to = To(way, i)
  BY MineOpFacts
<1>2. /\ PcFits(op.kind, nav.pc) /\ Watching(op) /\ nav.status = "acting"
  BY DEF Mines, Acting
<1> HIDE DEF op
<1>3. op.kind \in {"move", "drop"} /\ op.to = To(way, i)
  BY <1>1, <1>2 DEF MoveStarts, PathfinderEnds, StepToFoot, DropStarts, HeightReached, In,
                    PcFits, DIGS, Inner
<1>4. UNCHANGED <<world, foot, pending>>
  BY DEF MoveStarts, PathfinderEnds, StepToFoot, DropStarts, HeightReached, routeVars, AsksNothing
<1>5. pending.kind \notin {"dig", "place"}
  BY <1>2, <1>3 DEF Watching
<1>6. nav' = Throw(nav) => MineGoes(way)'
  BY <1>4, MineHalts
<1>7. ASSUME nav' = OpDone(nav), foot = op.to PROVE AtEnd' \/ MineGoes(way)'
  BY <1>3, <1>4, <1>5, <1>7, MineNextOp DEF op
<1>8. ASSUME NEW pc, nav' = [nav EXCEPT !.pc = pc], PcFits(op.kind, pc) PROVE MineGoes(way)'
  <2>1. nav'.pc = pc /\ nav'.status = "acting" /\ nav'.ops = nav.ops
    BY <1>2, <1>8 DEF IsNavigation, Fields
  <2>2. Watching(op)'
    BY <1>3, <1>4, <1>5 DEF Watching
  <2> QED BY <1>4, <1>8, <2>1, <2>2, MineGoesOn DEF op
<1>9. /\ op.kind = "move" => PcFits(op.kind, "path") /\ PcFits(op.kind, "keys")
      /\ op.kind = "drop" => PcFits(op.kind, "height") /\ PcFits(op.kind, "keys")
  BY DEF PcFits
<1>10. CASE MoveStarts
  BY <1>1, <1>8, <1>9, <1>10 DEF MoveStarts, In
<1>11. CASE PathfinderEnds
  BY <1>1, <1>6, <1>7, <1>8, <1>9, <1>11 DEF PathfinderEnds, In
<1>12. CASE StepToFoot
  BY <1>1, <1>6, <1>7, <1>12 DEF StepToFoot
<1>13. CASE DropStarts
  BY <1>1, <1>3, <1>7, <1>8, <1>9, <1>13 DEF DropStarts
<1>14. CASE HeightReached
  <2>1. nav' \in {Throw(nav), OpDone(nav), [nav EXCEPT !.pc = "keys"]}
        /\ (nav' = Throw(nav) \/ (nav' = IF foot = op.to THEN OpDone(nav)
                                         ELSE [nav EXCEPT !.pc = "keys"]))
    <3> DEFINE reached == {IF foot = op.to THEN OpDone(nav) ELSE [nav EXCEPT !.pc = "keys"]}
               away == foot[2] # op.to[2]
    <3>1. nav' \in {Throw(nav)} \cup (IF away THEN {} ELSE reached)
      BY <1>1, <1>14 DEF HeightReached
    <3> HIDE DEF reached, away
    <3>2. nav' \in {Throw(nav)} \cup reached
      BY <3>1
    <3> QED BY <3>2 DEF reached
  <2>2. CASE foot = op.to
    BY <1>6, <1>7, <2>1, <2>2
  <2>3. CASE foot # op.to
    BY <1>3, <1>6, <1>8, <1>9, <2>1, <2>3
  <2> QED BY <2>2, <2>3
<1> QED BY <1>10, <1>11, <1>12, <1>13, <1>14

(* Every step of the way.                                                  *)
MineWalkActs ==
  \/ MineBegins \/ MineEnds \/ MineChecks \/ MineDigReads \/ FinalReads \/ MineWatches \/ MineWalks

LEMMA WayExecutes ==
  ASSUME NEW way, IsMineWay(way), NEW i, NEW j, Mines(way, i, j), IsNavigation(nav),
         UNCHANGED search, MineWalkActs
  PROVE  AtEnd' \/ MineGoes(way)'
<1> DEFINE op == way.scripts[i][j]
<1>1. /\ nav.ops # << >> /\ CurrentOp = op /\ op.kind \in Inner \cup {"begin"} /\ Watching(op)
  BY MineOpFacts DEF Mines
<1> HIDE DEF op
<1>2. ~ MineChecks /\ ~ FinalReads
  BY <1>1 DEF MineChecks, FinalReads, In, Inner
<1>3. CASE MineDigReads \/ DigStarts \/ MineWatches
  BY <1>3, MineDigSteps
<1>4. CASE MoveStarts \/ PathfinderEnds \/ StepToFoot \/ DropStarts \/ HeightReached
  BY <1>4, MineMoveSteps
<1>5. CASE SeesAbort
  <2>1. nav' = Throw(nav) /\ UNCHANGED <<world, foot, pending>>
    BY <1>5 DEF SeesAbort, AsksNothing, routeVars
  <2> QED BY <2>1, MineHalts
<1>6. CASE MineBegins \/ MineEnds
  <2>1. op.kind \in {"begin", "end"} /\ nav' = OpDone(nav) /\ UNCHANGED <<world, foot, pending>>
    BY <1>1, <1>6 DEF MineBegins, MineEnds, In, AsksNothing, routeVars
  <2>2. pending.kind \notin {"dig", "place"}
    BY <1>1, <2>1 DEF Watching
  <2> QED BY <2>1, <2>2, MineNextOp DEF op
<1> QED BY <1>2, <1>3, <1>4, <1>5, <1>6 DEF MineWalkActs, MineWalks

(* And of its end.                                                         *)
LEMMA EndExecutes ==
  ASSUME AtEnd, NavFits(nav), IsNavigation(nav), UNCHANGED search, MineWalkActs
  PROVE  AtEnd'
<1>1. /\ EndsAt(nav.ops, search.plan.target) /\ pending.kind # "place"
      /\ pending.kind = "dig" => pending.at = search.plan.target
  BY DEF AtEnd
<1>2. Acting /\ nav.ops # << >>
  BY DEF MineWalkActs, MineBegins, MineEnds, MineChecks, MineDigReads, FinalReads, MineWatches,
         MineWalks, DigStarts, MoveStarts, PathfinderEnds, StepToFoot, DropStarts, HeightReached,
         In, SeesAbort
<1>3. /\ CurrentOp.kind \in {"check", "finalDig"}
      /\ CurrentOp.kind = "finalDig" => CurrentOp.to = search.plan.target
      /\ PcFits(CurrentOp.kind, nav.pc)
  <2>1. 1 \in DOMAIN nav.ops /\ CurrentOp = nav.ops[1]
    BY <1>1, <1>2 DEF EndsAt, CurrentOp
  <2> QED BY <1>1, <1>2, <2>1 DEF EndsAt, NavFits, CurrentOp, Acting
<1>4. /\ EndsAt(OpDone(nav).ops, search.plan.target) /\ OpDone(nav).status = "acting"
      /\ EndsAt(Throw(nav).ops, search.plan.target) /\ Throw(nav).status = "failed"
  <2>1. nav.ops \in Seq(MinerOps) /\ nav.ops # << >>
    BY <1>1, <1>2 DEF EndsAt
  <2>2. /\ Tail(nav.ops) \in Seq(MinerOps)
        /\ \A k \in DOMAIN Tail(nav.ops) : k + 1 \in DOMAIN nav.ops
                                           /\ Tail(nav.ops)[k] = nav.ops[k + 1]
    <3> HIDE DEF MinerOps
    <3> QED BY <2>1
  <2>3. EndsAt(Tail(nav.ops), search.plan.target)
    BY <1>1, <2>2 DEF EndsAt
  <2>4. EndsAt(<< >>, search.plan.target)
    BY DEF EndsAt
  <2>5. /\ OpDone(nav).ops = Tail(nav.ops) /\ OpDone(nav).status = "acting"
        /\ Throw(nav).ops = << >> /\ Throw(nav).status = "failed"
    BY <1>2 DEF OpDone, Throw, IsNavigation, Fields, Acting
  <2> QED BY <2>3, <2>4, <2>5
<1>5. ASSUME nav' \in {OpDone(nav), Throw(nav)}, pending' = pending PROVE AtEnd'
  BY <1>1, <1>4, <1>5 DEF AtEnd
<1>6. ASSUME nav'.ops = nav.ops, nav'.status = nav.status, pending'.kind # "place",
             pending'.kind = "dig" => pending'.at = search.plan.target
      PROVE  AtEnd'
  BY <1>1, <1>6 DEF AtEnd
<1>7. CASE MineChecks \/ FinalReads \/ MineWatches \/ SeesAbort
  <2>1. pending' = pending
    BY <1>7 DEF MineChecks, FinalReads, MineWatches, SeesAbort, AsksNothing
  <2>2. \/ nav' \in {OpDone(nav), Throw(nav)}
        \/ nav' = [nav EXCEPT !.pc = "aim", !.seen = "ore"]
    BY <1>7 DEF MineChecks, FinalReads, MineWatches, SeesAbort
  <2>3. ASSUME nav' = [nav EXCEPT !.pc = "aim", !.seen = "ore"]
        PROVE  nav'.ops = nav.ops /\ nav'.status = nav.status
    BY <2>3 DEF IsNavigation, Fields
  <2> QED BY <1>1, <1>5, <1>6, <2>1, <2>2, <2>3
<1>8. CASE DigStarts
  <2>1. CASE nav' = Throw(nav) /\ AsksNothing
    BY <1>5, <2>1 DEF AsksNothing
  <2>2. CASE nav' = [nav EXCEPT !.pc = "watch"] /\ Ask("dig", CurrentOp.to)
    <3>1. CurrentOp.kind = "finalDig"
      BY <1>3, <1>8 DEF DigStarts, In, DIGS
    <3>2. /\ nav'.ops = nav.ops /\ nav'.status = nav.status
          /\ pending'.kind = "dig" /\ pending'.at = CurrentOp.to
      BY <2>2 DEF IsNavigation, Fields, Ask
    <3> QED BY <1>3, <1>6, <3>1, <3>2
  <2> QED BY <1>8, <2>1, <2>2 DEF DigStarts
<1>9. /\ ~ MineBegins /\ ~ MineEnds /\ ~ MineDigReads /\ ~ MoveStarts /\ ~ PathfinderEnds
      /\ ~ StepToFoot /\ ~ DropStarts /\ ~ HeightReached
  BY <1>3 DEF MineBegins, MineEnds, MineDigReads, MoveStarts, PathfinderEnds, StepToFoot,
              DropStarts, HeightReached, In, PcFits, DIGS
<1> QED BY <1>7, <1>8, <1>9 DEF MineWalkActs, MineWalks

-----------------------------------------------------------------------------
(* What happens around a way.                                              *)

(* A bot that moves while an operation is under way goes where its action  *)
(* ends.                                                                   *)
LEMMA MineHeads ==
  ASSUME NEW way, IsMineWay(way), NEW i, NEW j, Mines(way, i, j), BotMoves
  PROVE  foot' = To(way, i) /\ way.scripts[i][j].kind # "mineDig"
<1> DEFINE op == way.scripts[i][j]
<1>1. /\ CurrentOp = op /\ op.kind \in Inner \cup {"begin"} /\ PcFits(op.kind, nav.pc)
      /\ op.kind \in {"move", "drop"} => op.to = To(way, i)
  BY MineOpFacts DEF Mines
<1> HIDE DEF op
<1>2. op.kind \in {"move", "drop"}
  BY <1>1 DEF BotMoves, HeadsSomewhere, PcFits, DIGS, Inner
<1> QED BY <1>1, <1>2 DEF BotMoves, Heading, op

LEMMA AroundWay ==
  ASSUME NEW way, IsMineWay(way), NEW i, NEW j, Mines(way, i, j),
         BotMoves \/ Falls \/ DigLands \/ PlaceLands \/ PendingLost \/ Abort
  PROVE  Mines(way, i, j)'
<1> DEFINE script == way.scripts[i]
           op == script[j]
<1>1. /\ Acting /\ i \in Steps(way) /\ Partly(way, i) /\ Between(way, i)
      /\ j \in 1 .. Len(script) /\ nav.ops = Rest(script, j, way.later[i])
      /\ \A m \in 1 .. j - 1 : script[m].kind = "mineDig" => IsAirBlock(Block(script[m].to))
      /\ PcFits(op.kind, nav.pc) /\ Watching(op)
      /\ op.kind = "end" => foot = To(way, i)
  BY DEF Mines, OnAction
<1>2. /\ IsAction(way, i) /\ KindOf(way, i) \in MineKinds
      /\ op.kind = "mineDig" => op.to \in DigsOf(way, i)
  BY <1>1, MineOpFacts DEF IsMineWay
<1>3. nav' = nav
  BY DEF BotMoves, Falls, DigLands, PlaceLands, PendingLost, Abort
<1>4. (/\ Partly(way, i)' /\ Between(way, i)' /\ Watching(op)'
       /\ \A m \in 1 .. j - 1 : script[m].kind = "mineDig" => IsAirBlock(Block(script[m].to)')
       /\ op.kind = "end" => foot' = To(way, i))
        => Mines(way, i, j)'
  BY <1>1, <1>3 DEF Mines, OnAction, Acting
<1> HIDE DEF script, op
<1>5. CASE BotMoves
  <2>1. foot' = To(way, i)
    BY <1>5, MineHeads
  <2>2. world' = world /\ pending' = pending
    BY <1>5 DEF BotMoves, routeVars
  <2>3. \A p : Block(p)' = Block(p)
    BY <2>2 DEF Block
  <2>4. Partly(way, i)' /\ Between(way, i)' /\ Watching(op)'
    BY <1>1, <1>3, <2>1, <2>2, <2>3 DEF Partly, Between, Watching
  <2> QED BY <1>1, <1>4, <2>1, <2>3, <2>4
<1>6. CASE Falls
  <2>1. world' = world /\ pending' = pending /\ Unsupported
    BY <1>6 DEF Falls, routeVars
  <2>2. \A p : Block(p)' = Block(p)
    BY <2>1 DEF Block
  <2>3. Between(way, i)'
    BY <1>1, <1>2, <1>6, FallsBetween
  <2>4. Partly(way, i)' /\ Watching(op)'
    BY <1>1, <1>3, <2>1, <2>2 DEF Partly, Watching
  <2>5. op.kind # "end"
    <3>1. KindOf(way, i) # "placeUp1"
      BY <1>2 DEF MineKinds
    <3>2. IsSupportBlock(Block(Above(To(way, i), -1)))
      BY <1>1, <1>2, <3>1, FootingFacts
    <3> QED BY <1>1, <2>1, <3>2 DEF Unsupported, IsSupportBlock
  <2> QED BY <1>1, <1>4, <2>2, <2>3, <2>4, <2>5
<1>7. CASE DigLands
  <2>1. /\ pending.kind = "dig" /\ Block(pending.at) # "unknown" /\ foot' = foot
        /\ world' = [world EXCEPT ![pending.at] = "air"] /\ pending' = Nothing
    BY <1>7 DEF DigLands, IsDiggableBlock
  <2>2. \A p : Block(p)' = IF p = pending.at THEN "air" ELSE Block(p)
    BY <2>1, Lands
  <2>3. op.kind = "mineDig" /\ nav.pc = "watch" /\ pending.at = op.to /\ op.to \in DigsOf(way, i)
    BY <1>1, <1>2, <2>1 DEF Watching
  <2>4. IsAirBlock("air")
    BY DEF IsAirBlock
  <2>5. Partly(way, i)' /\ Between(way, i)'
    BY <1>1, <2>1, <2>2, <2>3, <2>4 DEF Partly, Between
  <2>6. Watching(op)'
    BY <1>1, <1>3, <2>1, <2>2, <2>3, <2>4 DEF Watching, Nothing
  <2> QED BY <1>1, <1>4, <2>1, <2>2, <2>4, <2>5, <2>6
<1>8. CASE PendingLost \/ Abort
  <2>1. UNCHANGED <<world, foot>> /\ pending' \in {pending, Nothing}
    BY <1>8 DEF PendingLost, Abort, routeVars
  <2>2. \A p : Block(p)' = Block(p)
    BY <2>1 DEF Block
  <2>3. Partly(way, i)' /\ Between(way, i)'
    BY <1>1, <2>1, <2>2 DEF Partly, Between
  <2>4. Watching(op)'
    BY <1>1, <1>3, <2>1, <2>2 DEF Watching, Nothing
  <2> QED BY <1>1, <1>4, <2>1, <2>2, <2>3, <2>4
<1>9. ~ PlaceLands
  BY <1>1 DEF PlaceLands, Watching
<1> QED BY <1>5, <1>6, <1>7, <1>8, <1>9

LEMMA AroundHalted ==
  ASSUME NEW way, IsMineWay(way), NEW i, Halted(way, i),
         BotMoves \/ Falls \/ DigLands \/ PlaceLands \/ PendingLost \/ Abort
  PROVE  Halted(way, i)'
<1>1. /\ nav.status = "failed" /\ nav.ops = << >> /\ i \in Steps(way) /\ Partly(way, i)
      /\ Between(way, i) /\ pending.kind # "place"
      /\ pending.kind = "dig" => pending.at \in DigsOf(way, i)
  BY DEF Halted, OnAction
<1>2. IsAction(way, i)
  BY <1>1 DEF IsMineWay, IsRoute
<1>3. (Falls \/ DigLands \/ PendingLost \/ Abort) /\ nav' = nav
  BY <1>1 DEF BotMoves, Acting, Falls, DigLands, PlaceLands, PendingLost, Abort
<1>4. pending' \in {pending, Nothing}
  BY <1>3 DEF Falls, DigLands, PendingLost, Abort
<1>5. Between(way, i)'
  <2>1. ~ Falls => foot' = foot
    BY <1>3 DEF DigLands, PendingLost, Abort
  <2>2. foot' = foot => Between(way, i)'
    BY <1>1 DEF Between
  <2> QED BY <1>1, <1>2, <2>1, <2>2, FallsBetween
<1>6. Partly(way, i)'
  <2>1. CASE DigLands
    <3>1. /\ pending.kind = "dig" /\ Block(pending.at) # "unknown"
          /\ world' = [world EXCEPT ![pending.at] = "air"]
      BY <2>1 DEF DigLands, IsDiggableBlock
    <3>2. \A p : Block(p)' = IF p = pending.at THEN "air" ELSE Block(p)
      BY <3>1, Lands
    <3>3. IsAirBlock("air")
      BY DEF IsAirBlock
    <3> QED BY <1>1, <3>1, <3>2, <3>3 DEF Partly
  <2>2. CASE Falls \/ PendingLost \/ Abort
    <3>1. \A p : Block(p)' = Block(p)
      BY <2>2 DEF Falls, PendingLost, Abort, routeVars, Block
    <3> QED BY <1>1, <3>1 DEF Partly
  <2> QED BY <1>3, <2>1, <2>2
<1> QED BY <1>1, <1>3, <1>4, <1>5, <1>6 DEF Halted, OnAction, Nothing

LEMMA AroundEnd ==
  ASSUME AtEnd, BotMoves \/ Falls \/ DigLands \/ PlaceLands \/ PendingLost \/ Abort
  PROVE  AtEnd'
<1>1. nav' = nav /\ search' = search /\ pending' \in {pending, Nothing}
  BY DEF BotMoves, Falls, DigLands, PlaceLands, PendingLost, Abort, routeVars
<1> QED BY <1>1 DEF AtEnd, Nothing

LEMMA MineWayAround ==
  ASSUME OnMineWay, BotMoves \/ Falls \/ DigLands \/ PlaceLands \/ PendingLost \/ Abort
  PROVE  OnMineWay'
<1>1. search' = search
  BY DEF BotMoves, Falls, DigLands, PlaceLands, PendingLost, Abort, routeVars
<1>2. \A way : IsMineWay(way) => IsMineWay(way)'
  BY <1>1 DEF IsMineWay
<1>3. ASSUME NEW way, IsMineWay(way), MineGoes(way) PROVE MineGoes(way)'
  <2>1. \A i, j : Mines(way, i, j) => Mines(way, i, j)'
    BY <1>3, AroundWay
  <2>2. \A i : Halted(way, i) => Halted(way, i)'
    BY <1>3, AroundHalted
  <2> QED BY <1>3, <2>1, <2>2 DEF MineGoes
<1> QED BY <1>2, <1>3, AroundEnd DEF OnMineWay

LEMMA MineWayStutters ==
  ASSUME OnMineWay, UNCHANGED <<world, foot, nav, pending, search>>
  PROVE  OnMineWay'
<1>1. \A p : Block(p)' = Block(p)
  BY DEF Block
<1>2. AtEnd => AtEnd'
  BY DEF AtEnd
<1>3. \A way, i : OnAction(way, i) => OnAction(way, i)'
  BY <1>1 DEF OnAction, Partly, Between
<1>4. \A way, i : Halted(way, i) => Halted(way, i)'
  BY <1>3 DEF Halted
<1>5. \A op : Watching(op) => Watching(op)'
  BY <1>1 DEF Watching
<1>6. \A way, i, j : Mines(way, i, j) => Mines(way, i, j)'
  BY <1>1, <1>3, <1>5 DEF Mines, Acting
<1> QED BY <1>2, <1>4, <1>6 DEF OnMineWay, MineGoes, IsMineWay

(* If the bot loses its footing, it stands again one block further down.   *)
LEMMA WayLoses ==
  ASSUME NEW way, IsMineWay(way), NEW i, NEW j, Mines(way, i, j), LosesFooting,
         BotMoves \/ Falls \/ DigLands \/ PlaceLands
  PROVE  Stands(world', Above(foot', -1))
<1> DEFINE op == way.scripts[i][j]
<1>1. /\ Between(way, i) /\ IsAction(way, i) /\ Watching(op)
      /\ op.kind = "mineDig" => op.to \in DigsOf(way, i)
  BY MineOpFacts DEF Mines, OnAction
<1> HIDE DEF op
<1>2. Partly(way, i)' /\ Between(way, i)'
  BY AroundWay DEF Mines, OnAction
<1>3. BotMoves => foot' = To(way, i)
  BY MineHeads
<1>4. ~ Falls /\ ~ PlaceLands
  BY <1>1 DEF Falls, LosesFooting, PlaceLands, Watching
<1>5. DigLands => pending.at \in DigsOf(way, i)
  BY <1>1 DEF Watching, DigLands
<1> QED BY <1>1, <1>2, <1>3, <1>4, <1>5, LosesInTheMiddle

LEMMA HaltedLoses ==
  ASSUME NEW way, IsMineWay(way), NEW i, Halted(way, i), LosesFooting,
         BotMoves \/ Falls \/ DigLands \/ PlaceLands
  PROVE  Stands(world', Above(foot', -1))
<1>1. /\ i \in Steps(way) /\ Between(way, i) /\ IsAction(way, i) /\ nav.ops = << >>
      /\ pending.kind # "place" /\ (pending.kind = "dig" => pending.at \in DigsOf(way, i))
  BY DEF Halted, OnAction, IsMineWay, IsRoute
<1>2. Partly(way, i)' /\ Between(way, i)'
  BY AroundHalted DEF Halted, OnAction
<1>3. DigLands
  BY <1>1 DEF BotMoves, Falls, LosesFooting, PlaceLands
<1>4. pending.at \in DigsOf(way, i)
  BY <1>1, <1>3 DEF DigLands
<1> QED BY <1>1, <1>2, <1>3, <1>4, LosesInTheMiddle

LEMMA MineWayLoses ==
  ASSUME OnMineWay, NavFits(nav), "target" \in DOMAIN search.plan, LosesFooting,
         BotMoves \/ Falls \/ DigLands \/ PlaceLands
  PROVE  Stands(world', Above(foot', -1)) \/ DigsTarget
<1>1. CASE AtEnd
  <2>1. ~ BotMoves
    <3>1. ASSUME Acting, nav.ops # << >>
          PROVE  CurrentOp.kind \in {"check", "finalDig"} /\ PcFits(CurrentOp.kind, nav.pc)
      <4>1. 1 \in DOMAIN nav.ops /\ CurrentOp = nav.ops[1]
        BY <1>1, <3>1 DEF AtEnd, EndsAt, CurrentOp
      <4> QED BY <1>1, <3>1, <4>1 DEF AtEnd, EndsAt, NavFits, CurrentOp, Acting
    <3> QED BY <3>1 DEF BotMoves, HeadsSomewhere, PcFits, DIGS
  <2>2. DigLands
    BY <1>1, <2>1 DEF AtEnd, Falls, LosesFooting, PlaceLands
  <2> QED BY <1>1, <2>2 DEF AtEnd, DigLands, DigsTarget
<1>2. CASE ~ AtEnd
  <2>1. PICK way : IsMineWay(way) /\ MineGoes(way)
    BY <1>2 DEF OnMineWay
  <2> QED BY <2>1, WayLoses, HaltedLoses DEF MineGoes
<1> QED BY <1>1, <1>2

(* The steps of the way of a miner.                                        *)
LEMMA MineWayExecutes ==
  ASSUME OnMineWay, NavFits(nav), IsNavigation(nav), MineWalkActs
  PROVE  OnMineWay'
<1>1. search' = search
  BY ExecuteKeeps DEF MineWalkActs, MineBegins, MineEnds, MineChecks, MineDigReads, FinalReads,
                      MineWatches, MineWalks, Execute, routeVars
<1>2. CASE AtEnd
  BY <1>1, <1>2, EndExecutes DEF OnMineWay
<1>3. CASE ~ AtEnd
  <2>1. PICK way : IsMineWay(way) /\ MineGoes(way)
    BY <1>3 DEF OnMineWay
  <2>2. IsMineWay(way)'
    BY <1>1, <2>1 DEF IsMineWay
  <2>3. \A i : ~ Halted(way, i)
    BY DEF Halted, MineWalkActs, MineBegins, MineEnds, MineChecks, MineDigReads, FinalReads,
           MineWatches, MineWalks, DigStarts, MoveStarts, PathfinderEnds, StepToFoot, DropStarts,
           HeightReached, In, Acting
  <2>4. PICK i, j \in Nat : Mines(way, i, j)
    BY <2>1, <2>3 DEF MineGoes
  <2>5. AtEnd' \/ MineGoes(way)'
    BY <1>1, <2>1, <2>4, WayExecutes
  <2> QED BY <2>2, <2>5 DEF OnMineWay
<1> QED BY <1>2, <1>3

-----------------------------------------------------------------------------
(***************************************************************************)
(* Between its ways a miner rests.                                         *)
(***************************************************************************)

(* Nothing is owed, or only what the action of a failed approach owed.     *)
Resting ==
  nav.ops = << >> /\ (Quiet \/ \E walk : IsWalk(walk) /\ \E i \in Nat : Stopped(walk, i))

LEMMA RestingStutters ==
  ASSUME Resting, UNCHANGED <<world, foot, nav, pending>>
  PROVE  Resting'
<1>1. \A p : Block(p)' = Block(p)
  BY DEF Block
<1>2. Quiet => Quiet'
  BY <1>1 DEF Quiet, Block
<1>3. \A walk, i : Stopped(walk, i) => Stopped(walk, i)'
  BY <1>1 DEF Stopped, Mid, Between, Owed, Block
<1> QED BY <1>2, <1>3 DEF Resting

LEMMA RestingAround ==
  ASSUME Resting, BotMoves \/ Falls \/ DigLands \/ PlaceLands \/ PendingLost \/ Abort
  PROVE  Resting'
<1>1. CASE Abort
  BY <1>1, RestingStutters DEF Abort, routeVars
<1>2. CASE BotMoves \/ Falls \/ DigLands \/ PlaceLands \/ PendingLost
  <2>1. nav' = nav
    BY <1>2 DEF BotMoves, Falls, DigLands, PlaceLands, PendingLost
  <2>2. CASE Quiet
    <3>1. Falls \/ PendingLost
      BY <1>2, <2>2 DEF Resting, Quiet, BotMoves, DigLands, PlaceLands, IsEmptyBlock,
                        IsReplaceable
    <3>2. world' = world /\ pending' \in {pending, Nothing}
      BY <3>1 DEF Falls, PendingLost, routeVars
    <3>3. Quiet'
      BY <2>2, <3>2 DEF Quiet, Nothing, Block
    <3> QED BY <2>1, <3>3 DEF Resting
  <2>3. CASE ~ Quiet
    <3>1. PICK walk : IsWalk(walk) /\ \E i \in Nat : Stopped(walk, i)
      BY <2>3 DEF Resting
    <3>2. \E i \in Nat : Stopped(walk, i)'
      BY <1>2, <3>1, AroundStopped
    <3> QED BY <2>1, <3>1, <3>2 DEF Resting
  <2> QED BY <2>2, <2>3
<1> QED BY <1>1, <1>2

LEMMA RestingLoses ==
  ASSUME Resting, LosesFooting, BotMoves \/ Falls \/ DigLands \/ PlaceLands
  PROVE  Stands(world', Above(foot', -1))
<1>1. ~ Quiet
  BY QuietLoses DEF Resting
<1> QED BY <1>1, StoppedLoses DEF Resting

(* A navigation that is over leaves a miner at rest.                       *)
LEMMA EndedRests ==
  ASSUME OnFoot, nav.status \in {"completed", "failed"}
  PROVE  Resting
<1>1. ~ Ready /\ ~ Acting
  BY DEF Ready, Planning, Acting
<1>2. CASE Still
  BY <1>2 DEF Still, Resting
<1>3. CASE OnTheWay
  <2>1. PICK walk : IsWalk(walk) /\ \E i \in Nat : Stopped(walk, i)
    BY <1>1, <1>3 DEF OnTheWay, Going, Walks
  <2> QED BY <2>1 DEF Resting, Stopped
<1> QED BY <1>1, <1>2, <1>3 DEF OnFoot

(* The ghost of a navigation stays as it began.                            *)
LEMMA KeepsAlone ==
  ASSUME IsNavigation(nav), Execute \/ MineWalkActs
  PROVE  nav'.alone = nav.alone
<1> USE DEF IsNavigation, Fields, In, Acting
<1>1. CASE StartActing \/ RouteNotFound \/ SeesAbort \/ Finish
  BY <1>1 DEF StartActing, RouteNotFound, SeesAbort, Finish, Throw, OpDone
<1>2. CASE DigReads \/ DigStarts \/ DigWatches \/ MoveStarts \/ PathfinderEnds
  BY <1>2 DEF DigReads, DigStarts, DigWatches, MoveStarts, PathfinderEnds, Throw, OpDone
<1>3. CASE StepToFoot \/ DropStarts \/ HeightReached \/ Centre
  BY <1>3 DEF StepToFoot, DropStarts, HeightReached, Centre, Throw, OpDone
<1>4. CASE PlaceStarts \/ PlaceTries \/ PlaceAsks \/ PlaceSucceeds
  BY <1>4 DEF PlaceStarts, PlaceTries, PlaceAsks, PlaceSucceeds, Throw, OpDone
<1>5. CASE PlaceFails \/ PlaceMissed \/ PlaceClears \/ PlaceCleared
  BY <1>5 DEF PlaceFails, PlaceMissed, PlaceClears, PlaceCleared, Throw, OpDone
<1>6. CASE MineBegins \/ MineEnds \/ MineChecks
  BY <1>6 DEF MineBegins, MineEnds, MineChecks, Throw, OpDone
<1>7. CASE MineDigReads \/ FinalReads \/ MineWatches
  BY <1>7 DEF MineDigReads, FinalReads, MineWatches, Throw, OpDone
<1> QED BY <1>1, <1>2, <1>3, <1>4, <1>5, <1>6, <1>7 DEF Execute, MineWalkActs, MineWalks

-----------------------------------------------------------------------------
(***************************************************************************)
(* The invariant of a miner's fall is inductive.                           *)
(***************************************************************************)

(* Where a miner is in its rounds says what it may owe.                    *)
MineFoot ==
  /\ mine.pc \in {"scan", "plan", "settle", "approach"} => Resting
  /\ mine.pc = "navigate" => OnFoot
  /\ mine.pc = "act" => OnMineWay
MineFallInv ==
  /\ MinerInv /\ disturbances \in Nat
  /\ mine.pc = "plan" => search.start = foot
  /\ disturbances = 0 /\ nav.alone => MineFoot

LEMMA MineFallInitially == MineInit => MineFallInv
<1> SUFFICES ASSUME MineInit PROVE MineFallInv
  OBVIOUS
<1>1. MinerInv
  BY MinerInitially
<1>2. disturbances = 0 /\ nav = Idle /\ pending = Nothing /\ mine.pc = "scan"
  BY DEF MineInit, Init
<1>3. Resting
  BY <1>2, IdleFacts DEF Resting, Quiet, Nothing
<1> QED BY <1>1, <1>2, <1>3 DEF MineFallInv, MineFoot

(* The searches.                                                           *)
LEMMA SearchesFall ==
  ASSUME MineFallInv, MinerInv', Searches
  PROVE  MineFallInv'
<1> USE DEF MineFallInv
<1>1. IsSearch(search)
  BY DEF MinerInv, MineShape
<1>2. CASE MinePlans
  <2>1. /\ mine.pc = "plan" /\ UNCHANGED <<world, foot, nav, pending, mine, disturbances>>
        /\ search'.start = search.start
    BY <1>1, <1>2, MineSearchKeepsItsShape DEF MinePlans, navVars, mineVars
  <2>2. Resting => Resting'
    BY <2>1, RestingStutters
  <2> QED BY <2>1, <2>2 DEF MineFoot
<1>3. CASE RoutePlans
  <2>1. mine.pc = "navigate" /\ Plan /\ UNCHANGED <<mine, nav, disturbances>>
    BY <1>3 DEF RoutePlans, Plan, navVars, mineVars
  <2>2. OnFoot => OnFoot'
    BY <1>1, <2>1, FootPlans
  <2> QED BY <2>1, <2>2 DEF MineFoot
<1> QED BY <1>2, <1>3 DEF Searches

(* The miner looks for targets.                                            *)
LEMMA ScanFalls ==
  ASSUME MineFallInv, MinerInv', MineScan
  PROVE  MineFallInv'
<1> USE DEF MineFallInv
<1>1. mine.pc = "scan" /\ UNCHANGED <<world, foot, nav, pending, disturbances>>
  BY DEF MineScan
<1>2. mine'.pc = "failed" \/ (mine'.pc = "plan" /\ search'.start = foot)
  BY DEF MineScan, Fails, MineSearchFrom, SearchFrom, MinerInv, MineShape, IsMine, MineFields
<1>3. Resting => Resting'
  BY <1>1, RestingStutters
<1> QED BY <1>1, <1>2, <1>3 DEF MineFoot

(* A plan is walked from where it begins.                                  *)
LEMMA StartFalls ==
  ASSUME MineFallInv, MinerInv', MineStarts
  PROVE  MineFallInv'
<1> USE DEF MineFallInv
<1> DEFINE ops == FlattenSeq([i \in DOMAIN search.plan.actions |->
                                MineScript(search.plan.actions[i])])
                    \o <<Op("check", search.plan.finalFoot), Op("finalDig", search.plan.target)>>
<1>1. /\ nav' = [Begun EXCEPT !.status = "acting", !.ops = ops]
      /\ mine' = [mine EXCEPT !.pc = "act"] /\ mine.pc = "plan" /\ search.status = "solved"
      /\ UNCHANGED <<world, foot, search, pending, disturbances>>
  BY DEF MineStarts, routeVars
<1>2. mine'.pc = "act"
  BY <1>1 DEF MinerInv, MineShape, IsMine, MineFields
<1>3. LeadsToTarget(search.plan) /\ search.start = foot /\ foot \in Positions
  BY <1>1 DEF MinerInv, Found, MineFinds, Places
<1>4. PICK way : PlansWay(way)
  BY <1>3, PlanIsMineWay
<1>5. /\ IsMineWay(way) /\ way.at[0] = foot /\ way.later[0] = ops
      /\ \A p \in Positions : way.cell[0][p] = Block(p)
  BY <1>4 DEF PlansWay
<1> HIDE DEF ops
<1>6. /\ nav'.status = "acting" /\ nav'.ops = ops /\ nav'.pc = "start"
      /\ nav'.alone = (pending = Nothing)
  BY <1>1 DEF Idle, Begun
<1>7. ASSUME pending = Nothing PROVE OnMineWay'
  <2>1. Len(way.steps) \in Nat /\ 0 \in 0 .. Len(way.steps)
    BY <1>5 DEF IsMineWay, IsRoute
  <2>2. \A p \in Positions : Alike(Block(p)', way.cell[0][p])
    BY <1>1, <1>5 DEF Alike, Block
  <2>3. AtEnd' \/ Mines(way, 0 + 1, 1)'
    BY <1>1, <1>5, <1>6, <1>7, <2>1, <2>2, MineArrives DEF Acting, Nothing
  <2>4. IsMineWay(way)'
    BY <1>1, <1>5 DEF IsMineWay
  <2> QED BY <2>3, <2>4 DEF OnMineWay, MineGoes
<1>8. nav'.alone => pending = Nothing
  BY <1>6, Zenon
<1> QED BY <1>1, <1>2, <1>7, <1>8 DEF MineFoot

(* It is walked.                                                           *)
LEMMA WalksFall ==
  ASSUME MineFallInv, MinerInv', MineWalkActs
  PROVE  MineFallInv'
<1> USE DEF MineFallInv
<1>1. IsNavigation(nav) /\ NavFits(nav) /\ AbortInv'
  BY DEF MinerInv, MineShape, AbortInv, Walking
<1>2. mine.pc = "act"
  BY <1>1, ActsOfMine DEF MineWalkActs, MineWalks
<1>3. mine'.pc = mine.pc
  BY <1>1 DEF MineWalkActs, MineBegins, MineEnds, MineChecks, MineDigReads, FinalReads, MineWatches,
         MineWalks, mineVars, MinerInv, MineShape, IsMine, MineFields
<1>4. disturbances' = disturbances
  BY <1>1, ExecuteKeeps DEF MineWalkActs, MineBegins, MineEnds, MineChecks, MineDigReads,
                            FinalReads, MineWatches, MineWalks, Execute
<1>5. nav'.alone = nav.alone
  BY <1>1, KeepsAlone
<1>6. OnMineWay => OnMineWay'
  BY <1>1, MineWayExecutes
<1> QED BY <1>2, <1>3, <1>4, <1>5, <1>6 DEF MineFoot

(* The ends of rounds and calls, and what comes between the approaches.    *)
LEMMA RoundsFall ==
  ASSUME MineFallInv, MinerInv',
         \/ MineStepFails \/ MineRoundEnds \/ MineSettles \/ ApproachBegins \/ Approach
         \/ ApproachEnds \/ NoApproach
  PROVE  MineFallInv'
<1> USE DEF MineFallInv
<1>1. CASE MineStepFails \/ MineSettles \/ NoApproach
  <2>1. disturbances' = disturbances
    BY <1>1 DEF MineStepFails, MineSettles, NoApproach, vars, navVars
  <2>2. mine'.pc \in {"failed", "completed"}
    BY <1>1 DEF MineStepFails, MineSettles, NoApproach, Fails, MinerInv, MineShape, IsMine,
                MineFields
  <2> QED BY <2>1, <2>2 DEF MineFoot
<1>2. CASE MineRoundEnds
  <2>1. nav' = Begun /\ UNCHANGED <<world, pending, disturbances>>
    BY <1>2 DEF MineRoundEnds, routeVars
  <2>2. mine'.pc \in {"settle", "scan"}
    BY <1>2 DEF MineRoundEnds, MinerInv, MineShape, IsMine, MineFields
  <2>3. nav'.alone => Resting'
    <3>1. nav'.ops = << >> /\ nav'.alone = (pending = Nothing)
      BY <2>1, IdleFacts
    <3>2. nav'.alone => pending = Nothing
      BY <3>1, Zenon
    <3>3. pending = Nothing => Resting'
      BY <2>1, <3>1 DEF Resting, Quiet, Nothing
    <3> QED BY <3>2, <3>3
  <2> QED BY <2>1, <2>2, <2>3 DEF MineFoot
<1>3. CASE ApproachBegins
  <2>1. mine.pc = "plan" /\ UNCHANGED <<world, foot, nav, pending, disturbances>>
    BY <1>3 DEF ApproachBegins, vars, routeVars, navVars
  <2>2. mine'.pc = "approach"
    BY <1>3 DEF ApproachBegins, MinerInv, MineShape, IsMine, MineFields
  <2>3. Resting => Resting'
    BY <2>1, RestingStutters
  <2> QED BY <2>1, <2>2, <2>3 DEF MineFoot
<1>4. CASE Approach
  <2>1. /\ nav' = Begun /\ search' = SearchFrom(foot, 1, 0)
        /\ UNCHANGED <<world, foot, pending, disturbances>>
    BY <1>4 DEF Approach
  <2>2. mine'.pc \in {"approach", "navigate"}
    BY <1>4 DEF Approach, MinerInv, MineShape, IsMine, MineFields
  <2>3. nav'.alone => Resting'
    <3>1. nav'.ops = << >> /\ nav'.alone = (pending = Nothing)
      BY <2>1, IdleFacts
    <3>2. nav'.alone => pending = Nothing
      BY <3>1, Zenon
    <3>3. pending = Nothing => Resting'
      BY <2>1, <3>1 DEF Resting, Quiet, Nothing
    <3> QED BY <3>2, <3>3
  <2>4. search'.start = foot /\ foot \in Positions
    BY <2>1, FirstSearch DEF MinerInv, Places
  <2>5. nav'.alone => Ready'
    BY <2>1, <2>4, IdleFacts DEF Ready, Planning
  <2> QED BY <2>1, <2>2, <2>3, <2>5 DEF MineFoot, OnFoot
<1>5. CASE ApproachEnds
  <2>1. /\ mine.pc = "navigate" /\ nav.status \in {"completed", "failed"}
        /\ UNCHANGED <<world, foot, nav, pending, disturbances>>
    BY <1>5 DEF ApproachEnds, vars, routeVars, navVars
  <2>2. mine'.pc \in {"approach", "failed", "scan", "settle"}
    BY <1>5 DEF ApproachEnds, Fails, MinerInv, MineShape, IsMine, MineFields
  <2>3. OnFoot => Resting'
    BY <2>1, EndedRests, RestingStutters
  <2> QED BY <2>1, <2>2, <2>3 DEF MineFoot
<1> QED BY <1>1, <1>2, <1>3, <1>4, <1>5

(* The way nearer to a target.                                             *)
LEMMA NavigatesFall ==
  ASSUME MineFallInv, MinerInv', Navigates
  PROVE  MineFallInv'
<1> USE DEF MineFallInv
<1>1. mine.pc = "navigate" /\ Execute /\ mine' = mine
  BY DEF Navigates, mineVars
<1>2. RouteInv /\ IsNavigation(nav)
  BY <1>1 DEF MinerInv, MineShape, Found, RouteInv, AbortInv
<1>3. disturbances' = disturbances /\ nav'.alone = nav.alone
  BY <1>1, <1>2, ExecuteKeeps, KeepsAlone
<1>4. OnFoot => OnFoot'
  BY <1>1, <1>2, FootExecutes
<1> QED BY <1>1, <1>3, <1>4 DEF MineFoot

(* The server, the others and the abort.                                   *)
LEMMA AroundFalls ==
  ASSUME MineFallInv, MinerInv', MineAround
  PROVE  MineFallInv'
<1> USE DEF MineFallInv
<1>1. CASE OthersChangeBlock \/ OthersPush
  <2>1. disturbances' = disturbances + 1 /\ mine'.pc # "plan"
    BY <1>1 DEF OthersChangeBlock, OthersPush, MineAround, Waits, MineDigLands, PicksUp, mineVars
  <2>2. disturbances' \in Nat /\ disturbances' # 0
    BY <2>1
  <2> QED BY <2>1, <2>2
<1>2. CASE PicksUp
  <2>1. UNCHANGED <<world, foot, nav, pending, search, disturbances, mine>>
    BY <1>2 DEF PicksUp, vars, routeVars, navVars
  <2>2. (Resting => Resting') /\ (OnFoot => OnFoot')
    BY <2>1, RestingStutters, FootStutters
  <2>3. OnMineWay => OnMineWay'
    BY <2>1, MineWayStutters
  <2> QED BY <2>1, <2>2, <2>3 DEF MineFoot
<1>3. CASE BotMoves \/ Falls \/ DigLands \/ PlaceLands \/ PendingLost \/ Abort
  <2>1. UNCHANGED <<search, nav, disturbances>>
    BY <1>3 DEF BotMoves, Falls, DigLands, PlaceLands, PendingLost, Abort, routeVars
  <2>2. mine' = mine
    BY DEF MineAround, MineDigLands, PicksUp, mineVars
  <2>3. mine.pc # "plan" /\ (mine.pc = "navigate" => ~ Planning)
    BY DEF MineAround, Waits
  <2>4. Resting => Resting'
    BY <1>3, RestingAround
  <2>5. OnMineWay => OnMineWay'
    BY <1>3, MineWayAround
  <2>6. OnFoot /\ ~ Planning => OnFoot'
    <3>1. CASE Abort
      BY <3>1, FootStutters DEF Abort, routeVars
    <3> QED BY <1>3, <3>1, FootAround
  <2> QED BY <2>1, <2>2, <2>3, <2>4, <2>5, <2>6 DEF MineFoot
<1> QED BY <1>1, <1>2, <1>3 DEF MineAround, MineDigLands

(* Every step keeps it.                                                    *)
LEMMA MineFallStep == MineFallInv /\ [MineNext]_allVars => MineFallInv'
<1> SUFFICES ASSUME MineFallInv, [MineNext]_allVars PROVE MineFallInv'
  OBVIOUS
<1>1. MinerInv'
  BY MinerStep DEF MineFallInv
<1>2. CASE Searches
  BY <1>1, <1>2, SearchesFall
<1>3. CASE MineActs
  BY <1>1, <1>3, ScanFalls, StartFalls, WalksFall, RoundsFall, NavigatesFall
     DEF MineActs, MineWalkActs
<1>4. CASE MineAround
  BY <1>1, <1>4, AroundFalls
<1>5. CASE UNCHANGED allVars
  <2>1. UNCHANGED <<world, foot, nav, pending, search, disturbances, mine>>
    BY <1>5 DEF allVars, vars, routeVars, navVars, mineVars
  <2>2. (Resting => Resting') /\ (OnFoot => OnFoot') /\ (OnMineWay => OnMineWay')
    BY <2>1, RestingStutters, FootStutters, MineWayStutters
  <2> QED BY <1>1, <2>1, <2>2 DEF MineFallInv, MineFoot
<1> QED BY <1>2, <1>3, <1>4, <1>5 DEF MineNext

(* What a miner does itself leaves the world and its own place.            *)
LEMMA MinersStand ==
  ASSUME IsNavigation(nav), Searches \/ MineActs
  PROVE  UNCHANGED <<world, foot>>
<1>1. CASE Navigates \/ MineWalks
  BY <1>1, ExecuteKeeps, ExecuteStands DEF Navigates, MineWalks, Execute
<1>2. CASE Searches
  BY <1>2 DEF Searches, MinePlans, RoutePlans, Plan, SearchStep, ExpandNode, EndPhase, navVars
<1>3. CASE MineActs /\ ~ Navigates /\ ~ MineWalks
  BY <1>3 DEF MineActs, MineScan, MineStarts, MineBegins, MineEnds, MineChecks, MineDigReads,
              FinalReads, MineWatches, MineStepFails, MineRoundEnds, MineSettles, ApproachBegins,
              Approach, ApproachEnds, NoApproach, vars, routeVars, navVars
<1> QED BY <1>1, <1>2, <1>3

(* Unless others interfere, a miner that loses its footing stands again    *)
(* one block further down, on its own ways, on those nearer to its targets *)
(* and between them: but where its target is dug from under its feet, or   *)
(* on a way begun while an earlier dig could still land.                   *)
THEOREM MinerFallsByOne == MineSpec => FallsOneBlock
<1>1. MineSpec => []MineFallInv
  BY MineFallInitially, MineFallStep, PTL DEF MineSpec
<1>2. ASSUME MineFallInv, [MineNext]_allVars, disturbances' = 0, nav.alone, LosesFooting
      PROVE  Stands(world', Above(foot', -1)) \/ DigsTarget
  <2>1. MinerInv /\ disturbances \in Nat /\ NavFits(nav) /\ IsNavigation(nav)
    BY <1>2 DEF MineFallInv, MinerInv, MineShape, AbortInv, Walking
  <2>2. ~ UNCHANGED allVars /\ ~ PicksUp
    BY <1>2, FootIsLost DEF allVars, PicksUp, vars, routeVars, navVars
  <2>3. ~ Searches /\ ~ MineActs
    BY <1>2, <2>1, FootIsLost, MinersStand
  <2>4. ~ OthersChangeBlock /\ ~ OthersPush
    BY <1>2, <2>1 DEF OthersChangeBlock, OthersPush
  <2>5. ~ PendingLost /\ ~ Abort
    BY <1>2, FootIsLost DEF PendingLost, Abort, routeVars
  <2>6. Waits /\ (BotMoves \/ Falls \/ DigLands \/ PlaceLands)
    BY <1>2, <2>2, <2>3, <2>4, <2>5 DEF MineNext, MineAround, MineDigLands
  <2>7. disturbances = 0
    BY <1>2, <2>6 DEF BotMoves, Falls, DigLands, PlaceLands
  <2>8. MineFoot
    BY <1>2, <2>7 DEF MineFallInv
  <2>9. CASE mine.pc = "act"
    BY <1>2, <2>1, <2>6, <2>8, <2>9, MineWayLoses DEF MineFoot, MinerInv, Found
  <2>10. CASE mine.pc \in {"approach", "settle"}
    BY <1>2, <2>6, <2>8, <2>10, RestingLoses DEF MineFoot
  <2>11. CASE mine.pc = "navigate" /\ ~ Planning
    BY <1>2, <2>6, <2>8, <2>11, FootLoses DEF MineFoot
  <2> QED BY <2>6, <2>9, <2>10, <2>11 DEF Waits
<1>3. MineFallInv /\ [MineNext]_allVars =>
        [disturbances' = 0 /\ nav.alone /\ LosesFooting =>
           Stands(world', Above(foot', -1)) \/ DigsTarget]_vars
  BY <1>2
<1> QED BY <1>1, <1>3, PTL DEF FallsOneBlock, MineSpec
=============================================================================

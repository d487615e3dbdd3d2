---------------------------- MODULE WorldProofs ----------------------------
(***************************************************************************)
(* The chunks of the threads partition the map, and the worlds generated   *)
(* and stored keep their seas fenced, their cities apart and their rows    *)
(* settled, for every size, every number of chunks, seas and cities and    *)
(* whatever the threads roll.                                              *)
(***************************************************************************)
EXTENDS World, FiniteSetTheorems, TLAPS

-----------------------------------------------------------------------------
(* Chunks                                                                  *)

\* A side of at least one chunk fits ChunkInSide times.
LEMMA SideFits == /\ Size \div ChunkInSide \in Nat
                  /\ (Size \div ChunkInSide) * ChunkInSide <= Size
BY WorldAssumption

\* One coordinate: some chunk has it.
LEMMA SomeChunk ==
    ASSUME NEW a \in 0..Size - 1
    PROVE  \E k \in 0..ChunkInSide - 1 : Start(k) <= a /\ a < End(k)
<1> DEFINE q == Size \div ChunkInSide
<1>0. q \in Nat /\ q * ChunkInSide <= Size
  BY SideFits
<1>1. /\ ChunkInSide \in Nat \ {0} /\ Size \in Nat \ {0} /\ a \in Nat /\ a < Size
      /\ Start(ChunkInSide - 1) = (ChunkInSide - 1) * q /\ End(ChunkInSide - 1) = Size
  BY WorldAssumption DEF Start, End
<1>2. CASE (ChunkInSide - 1) * q <= a
  BY <1>1, <1>2
<1>3. CASE ~((ChunkInSide - 1) * q <= a)
  <2> HIDE DEF q
  <2> DEFINE n == ChunkInSide - 1
  <2>0. n \in Nat /\ n * q \in Nat /\ a < n * q
    BY <1>0, <1>1, <1>3
  <2>1. q > 0
    BY <2>0, <1>0, <1>1
  <2> DEFINE k == a \div q
  <2>2. k \in Nat /\ k * q <= a /\ a < (k + 1) * q
    BY <2>1, <1>0, <1>1
  <2> HIDE DEF k
  <2>3. k < n
    <3>1. ASSUME n <= k PROVE FALSE
      <4>1. n * q <= k * q
        BY <3>1, <2>0, <2>2, <1>0
      <4> HIDE DEF n
      <4>2. k * q \in Nat
        BY <2>2, <1>0
      <4> QED BY <4>1, <4>2, <2>0, <2>2, <1>1
    <3> HIDE DEF n
    <3> QED BY <3>1, <2>0, <2>2
  <2>4. k \in 0..ChunkInSide - 1 /\ k # ChunkInSide - 1
    BY <2>2, <2>3, <2>0
  <2>5. Start(k) = k * q /\ End(k) = (k + 1) * q
    BY <2>4 DEF Start, End, q
  <2> QED BY <2>2, <2>4, <2>5
<1> QED BY <1>2, <1>3

\* One coordinate: a later chunk starts where an earlier one has ended.
LEMMA ChunksInOrder ==
    ASSUME NEW j \in 0..ChunkInSide - 1, NEW k \in 0..ChunkInSide - 1, j < k
    PROVE  End(j) <= Start(k)
<1> DEFINE q == Size \div ChunkInSide
<1>1. q \in Nat
  BY SideFits
<1>2. j # ChunkInSide - 1 /\ j \in Nat /\ k \in Nat /\ j + 1 <= k
  BY WorldAssumption
<1>3. End(j) = (j + 1) * q /\ Start(k) = k * q
  BY <1>2 DEF Start, End
<1> HIDE DEF q
<1>4. (j + 1) * q <= k * q
  BY <1>1, <1>2
<1> QED BY <1>3, <1>4

LEMMA OneChunk ==
    ASSUME NEW j \in 0..ChunkInSide - 1, NEW k \in 0..ChunkInSide - 1, NEW a \in Int,
           Start(j) <= a, a < End(j), Start(k) <= a, a < End(k)
    PROVE  j = k
<1>0. /\ Start(j) \in Int /\ End(j) \in Int /\ Start(k) \in Int /\ End(k) \in Int
      /\ j \in Int /\ k \in Int
  BY SideFits, WorldAssumption DEF Start, End
<1>1. ~(j < k)
  BY <1>0, ChunksInOrder
<1>2. ~(k < j)
  BY <1>0, ChunksInOrder
<1> QED BY <1>0, <1>1, <1>2

\* No square is without a thread and none has two, also when the map is smaller
\* than ChunkInSide and all chunks but the last are empty.
THEOREM ChunksPartition == OneThreadPerSquare
<1> SUFFICES ASSUME NEW s \in Squares
             PROVE  \E c \in Chunks : s \in Area(c) /\ \A d \in Chunks \ {c} : s \notin Area(d)
  BY DEF OneThreadPerSquare
<1>0. s[1] \in 0..Size - 1 /\ s[2] \in 0..Size - 1 /\ s = <<s[1], s[2]>>
  BY DEF Squares
<1>1. PICK i \in 0..ChunkInSide - 1 : Start(i) <= s[1] /\ s[1] < End(i)
  BY <1>0, SomeChunk
<1>2. PICK j \in 0..ChunkInSide - 1 : Start(j) <= s[2] /\ s[2] < End(j)
  BY <1>0, SomeChunk
<1>3. <<i, j>> \in Chunks /\ s \in Area(<<i, j>>)
  BY <1>1, <1>2 DEF Chunks, Area
<1>4. ASSUME NEW d \in Chunks, s \in Area(d) PROVE d = <<i, j>>
  <2>1. d[1] \in 0..ChunkInSide - 1 /\ d[2] \in 0..ChunkInSide - 1 /\ d = <<d[1], d[2]>>
    BY DEF Chunks
  <2>2. /\ Start(d[1]) <= s[1] /\ s[1] < End(d[1])
        /\ Start(d[2]) <= s[2] /\ s[2] < End(d[2])
    BY <1>4 DEF Area
  <2>3. d[1] = i
    BY <2>1, <2>2, <1>0, <1>1, OneChunk
  <2>4. d[2] = j
    BY <2>1, <2>2, <1>0, <1>2, OneChunk
  <2> QED BY <2>1, <2>3, <2>4
<1> QED BY <1>3, <1>4

\* Every square has a chunk: what the threads of the first round need.
LEMMA EverySquareHasChunk == \A s \in Squares : \E c \in Chunks : s \in Area(c)
BY ChunksPartition DEF OneThreadPerSquare

-----------------------------------------------------------------------------
(* The inductive invariant                                                 *)

Generating == {"seas", "shores", "cities", "fill"}
Full(m) == \A s \in Squares : m.terrain[s] # Nothing
Apart(m) == /\ m.cities \subseteq Inner
            /\ \A c, d \in m.cities : c # d => Distance(c, d) >= 3
Grown(m) == \A s \in Squares : m.resources[s] \subseteq
                Yields(m.terrain[s]) \cup Yields(m.terrain[Mirror(s)])

\* A request works on the map it has generated for a game without rows, or on the
\* rows; then no sea is drawn and no city placed, for no square is free.
FreshIsFirst ==
    /\ phase # "idle" => IF fresh THEN saves = 0 /\ rows = EmptyMap
                         ELSE /\ saves > 0 /\ seas = {} /\ markers = {}
                              /\ map.terrain = rows.terrain /\ map.cities = rows.cities
    /\ phase \in {"idle", "save"} => seas = {} /\ markers = {}
    /\ phase # "idle" => saves < MaxSaves

FirstRows == saves = 0 => rows = EmptyMap
LaterRows == saves > 0 => Full(rows)

\* While seas are drawn on a new map, they are its only terrain.
OnlySeas ==
    fresh /\ phase \in {"seas", "shores"} =>
        /\ map.cities = {} /\ markers = {}
        /\ \A s \in Squares : /\ map.terrain[s] \in {Nothing, "DeepWater"}
                              /\ map.terrain[s] = "DeepWater" <=> s \in seas

\* Free squares are those of threads that run.
ThreadsFill ==
    /\ phase = "fill" =>
           \A s \in Squares : Free(s) => \E c \in running : s \in Area(c)
    /\ phase \in {"find", "save"} => Full(map)

Fences == (phase \notin {"seas", "shores"} => Fenced(map)) /\ Fenced(rows)

\* Cities stand on fields; those placed just now are the markers.
CitiesStand ==
    /\ phase # "idle" /\ fresh =>
           \A c \in map.cities : map.terrain[c] = "Field"
    /\ \A c \in rows.cities : rows.terrain[Mirror(c)] = "Field"
    /\ fresh /\ phase \in {"cities", "fill"} => map.cities = markers
    /\ Apart(map) /\ Apart(rows)

ResourcesGrow ==
    /\ fresh /\ phase \in Generating => \A s \in Squares : map.resources[s] = {}
    /\ fresh /\ phase \in {"find", "save"} =>
           \A s \in Squares : map.resources[s] \subseteq Yields(map.terrain[s])
    /\ Grown(map) /\ Grown(rows)

IInv == /\ TypeOK /\ FreshIsFirst /\ FirstRows /\ LaterRows /\ OnlySeas
        /\ ThreadsFill /\ Fences /\ CitiesStand /\ ResourcesGrow

-----------------------------------------------------------------------------
(* Geometry                                                                *)

LEMMA MirrorBack ==
    \A s \in Squares : /\ Mirror(s) \in Squares /\ Mirror(Mirror(s)) = s
                       /\ s \in Inner => Mirror(s) \in Inner
BY DEF Squares, Mirror, Inner

LEMMA InnerSquares == Inner \subseteq Squares
BY WorldAssumption DEF Inner, Squares

\* Distance is a number, and the same from the other end and in the mirror.
LEMMA DistanceFacts ==
    ASSUME NEW p \in Squares, NEW q \in Squares
    PROVE  /\ Distance(p, q) \in Int
           /\ Distance(p, q) = Distance(q, p)
           /\ Distance(Mirror(p), Mirror(q)) = Distance(p, q)
<1>1. p[1] \in Int /\ p[2] \in Int /\ q[1] \in Int /\ q[2] \in Int
  BY DEF Squares
<1> QED BY <1>1 DEF Distance, Mirror

\* Cities apart stay apart in the mirror.
LEMMA ApartMirrored ==
    ASSUME NEW m \in Maps, NEW n \in Maps, Apart(m),
           n.cities = {Mirror(s) : s \in m.cities}
    PROVE  Apart(n)
<1>1. n.cities \subseteq Inner
  BY MirrorBack, InnerSquares DEF Apart
<1>2. ASSUME NEW c \in n.cities, NEW d \in n.cities, c # d PROVE Distance(c, d) >= 3
  <2>1. PICK x \in m.cities : c = Mirror(x)
    OBVIOUS
  <2>2. PICK y \in m.cities : d = Mirror(y)
    OBVIOUS
  <2>3. x # y /\ x \in Squares /\ y \in Squares
    BY <2>1, <2>2, <1>2, InnerSquares DEF Apart
  <2> QED BY <2>1, <2>2, <2>3, DistanceFacts DEF Apart
<1> QED BY <1>1, <1>2 DEF Apart

-----------------------------------------------------------------------------
(* The steps of generateMap                                                *)

\* A map is typed when its parts are, and has the parts it is made of.
LEMMA MapParts ==
    /\ \A m \in Maps : /\ m.terrain \in [Squares -> Terrain \cup {Nothing}]
                       /\ m.cities \subseteq Squares
                       /\ m.resources \in [Squares -> SUBSET Resource]
    /\ \A t, c, r : /\ With(t, c, r).terrain = t
                    /\ With(t, c, r).cities = c
                    /\ With(t, c, r).resources = r
    /\ \A t \in [Squares -> Terrain \cup {Nothing}], c \in SUBSET Squares,
          r \in [Squares -> SUBSET Resource] : With(t, c, r) \in Maps
BY DEF Maps, With

LEMMA EmptyMapFacts ==
    /\ EmptyMap \in Maps /\ Fenced(EmptyMap) /\ Apart(EmptyMap) /\ Grown(EmptyMap)
    /\ EmptyMap.cities = {}
    /\ \A s \in Squares : EmptyMap.terrain[s] = Nothing /\ EmptyMap.resources[s] = {}
<1> DEFINE t == [s \in Squares |-> Nothing]
           r == [s \in Squares |-> {}]
<1>1. t \in [Squares -> Terrain \cup {Nothing}] /\ r \in [Squares -> SUBSET Resource]
  OBVIOUS
<1>2. /\ EmptyMap \in Maps /\ EmptyMap.terrain = t /\ EmptyMap.cities = {}
      /\ EmptyMap.resources = r
  BY <1>1, MapParts DEF EmptyMap
<1> QED BY <1>2 DEF Fenced, Apart, Grown, Nothing

LEMMA InitIInv == Init => IInv
<1> SUFFICES ASSUME Init PROVE IInv
  OBVIOUS
<1>1. /\ map = EmptyMap /\ rows = EmptyMap /\ saves = 0 /\ phase = "idle" /\ fresh = FALSE
      /\ seas = {} /\ markers = {}
  BY DEF Init
<1>2. TypeOK
  <2>1. map \in Maps /\ rows \in Maps
    BY <1>1, EmptyMapFacts, Zenon
  <2>2. saves \in 0..MaxSaves
    BY <1>1, WorldAssumption
  <2> QED BY <2>1, <2>2 DEF Init, TypeOK
<1> QED BY <1>1, <1>2, EmptyMapFacts
      DEF IInv, FreshIsFirst, FirstRows, LaterRows, OnlySeas, ThreadsFill, Fences,
          CitiesStand, ResourcesGrow, Generating

LEMMA TrySeaKeepsIInv == IInv /\ TrySea => IInv'
<1> SUFFICES ASSUME IInv, TrySea PROVE IInv'
  OBVIOUS
<1> USE DEF IInv
<1>0. /\ map \in Maps /\ phase = "seas" /\ phase' = "seas" /\ fresh' = fresh
      /\ rows' = rows /\ saves' = saves /\ markers' = markers
  BY DEF TrySea, TypeOK
<1>1. PICK s \in SeaSquares :
        \/ /\ Hits(s)
           /\ map' = With([map.terrain EXCEPT ![s] = "DeepWater"], map.cities, map.resources)
           /\ seas' = seas \cup {s}
           /\ left' = left - 1 /\ placed' = placed + 1
        \/ ~Hits(s) /\ Miss
  BY DEF TrySea
<1>2. s \in Squares
  BY DrawsAssumption
<1>3. CASE Hits(s)
  <2>1. map.terrain[s] = Nothing
    BY <1>3 DEF Hits, Free
  <2>2. /\ map' \in Maps /\ seas' = seas \cup {s} /\ map'.cities = map.cities
        /\ map'.resources = map.resources
        /\ map'.terrain = [map.terrain EXCEPT ![s] = "DeepWater"]
    <3>1. map' = With([map.terrain EXCEPT ![s] = "DeepWater"], map.cities, map.resources)
      BY <1>1, <1>3 DEF Hits, Miss
    <3>2. [map.terrain EXCEPT ![s] = "DeepWater"] \in [Squares -> Terrain \cup {Nothing}]
      BY <1>0, <1>2, MapParts DEF Terrain
    <3> QED BY <3>1, <3>2, <1>0, <1>1, <1>3, MapParts
  <2>3. fresh
    BY <1>0, <1>2, <2>1 DEF FreshIsFirst, LaterRows, Full
  <2>4. TypeOK'
    BY <1>0, <1>1, <1>2, <1>3, <2>2 DEF TypeOK, TrySea
  <2>5. OnlySeas'
    BY <1>0, <1>2, <2>1, <2>2, <2>3, MapParts DEF OnlySeas
  <2>6. FreshIsFirst' /\ FirstRows' /\ LaterRows' /\ ThreadsFill'
    BY <1>0, <2>3 DEF FreshIsFirst, FirstRows, LaterRows, ThreadsFill, Full
  <2>7. Fences'
    BY <1>0 DEF Fences, Fenced
  <2>8. CitiesStand'
    BY <1>0, <2>2, <2>3 DEF CitiesStand, OnlySeas, Apart
  <2>9. ResourcesGrow'
    BY <1>0, <2>2, <2>3 DEF ResourcesGrow, Grown, Generating
  <2> QED BY <2>4, <2>5, <2>6, <2>7, <2>8, <2>9
<1>4. CASE ~Hits(s)
  <2>1. map' = map /\ seas' = seas
    BY <1>1, <1>4 DEF Miss
  <2>2. TypeOK'
    BY <1>0, <1>1, <1>4 DEF TypeOK, TrySea, Miss
  <2> QED BY <1>0, <2>1, <2>2 DEF FreshIsFirst, FirstRows, LaterRows, OnlySeas,
          ThreadsFill, Fences, CitiesStand, ResourcesGrow, Full, Fenced, Apart, Grown, Generating
<1> QED BY <1>1, <1>3, <1>4

LEMMA SeasEndKeepsIInv == IInv /\ SeasEnd => IInv'
<1> SUFFICES ASSUME IInv, SeasEnd PROVE IInv'
  OBVIOUS
<1> USE DEF IInv
<1>0. /\ phase = "seas" /\ phase' = "shores" /\ map' = map /\ fresh' = fresh
      /\ rows' = rows /\ saves' = saves /\ markers' = markers /\ seas' = seas
  BY DEF SeasEnd, local
<1>1. TypeOK'
  BY DEF TypeOK, SeasEnd, local
<1> QED BY <1>0, <1>1 DEF FreshIsFirst, FirstRows, LaterRows, OnlySeas, ThreadsFill,
          Fences, CitiesStand, ResourcesGrow, Full, Fenced, Apart, Grown, Generating

\* The drawn seas get their shores: all deep water is drawn, and what lies beside it
\* is free or deep, so that it becomes water.
LEMMA ShoresKeepIInv == IInv /\ Shores => IInv'
<1> SUFFICES ASSUME IInv, Shores PROVE IInv'
  OBVIOUS
<1> USE DEF IInv
<1> DEFINE t == [s \in Squares |-> IF (\E d \in seas : s \in Beside(d)) /\ Shore(s)
                                   THEN "Water" ELSE map.terrain[s]]
<1>0. /\ phase = "shores" /\ phase' = "cities" /\ fresh' = fresh /\ rows' = rows
      /\ saves' = saves /\ markers' = markers /\ seas' = seas
      /\ map \in Maps /\ map' = With(t, map.cities, map.resources)
  BY DEF Shores, local, TypeOK
<1>1. t \in [Squares -> Terrain \cup {Nothing}]
  BY <1>0, MapParts DEF Terrain
<1>2. /\ map' \in Maps /\ map'.terrain = t /\ map'.cities = map.cities
      /\ map'.resources = map.resources
  BY <1>0, <1>1, MapParts
<1>3. TypeOK'
  BY <1>0, <1>2 DEF TypeOK, Shores, local
<1>4. CASE fresh
  <2>1. Fenced(map')
    <3> SUFFICES ASSUME NEW s \in Squares, t[s] = "DeepWater", NEW n \in Beside(s)
                 PROVE  t[n] = "Water"
      BY <1>2 DEF Fenced
    <3>1. s \in seas /\ n \in Squares
      BY <1>0, <1>4 DEF OnlySeas, Beside
    <3>2. map.terrain[n] \in {Nothing, "DeepWater"}
      BY <1>0, <1>4, <3>1 DEF OnlySeas
    <3> QED BY <3>1, <3>2 DEF Shore, Free
  <2>2. FreshIsFirst' /\ FirstRows' /\ LaterRows' /\ OnlySeas' /\ ThreadsFill' /\ Fences'
    BY <1>0, <1>4, <2>1 DEF FreshIsFirst, FirstRows, LaterRows, OnlySeas, ThreadsFill,
                            Fences, Fenced, Full
  <2>3. CitiesStand' /\ ResourcesGrow'
    BY <1>0, <1>2, <1>4 DEF CitiesStand, OnlySeas, ResourcesGrow, Apart, Grown, Generating
  <2> QED BY <1>3, <2>2, <2>3
<1>5. CASE ~fresh
  <2>1. t = map.terrain
    BY <1>0, <1>5, MapParts DEF FreshIsFirst
  <2> QED BY <1>0, <1>2, <1>3, <1>5, <2>1
        DEF FreshIsFirst, FirstRows, LaterRows, OnlySeas, ThreadsFill, Fences,
            CitiesStand, ResourcesGrow, Full, Fenced, Apart, Grown, Generating
<1> QED BY <1>4, <1>5

\* A city is placed on a free square, hence on a new map, and far from the others.
LEMMA PlaceCityKeepsIInv == ASSUME NEW count \in CityCounts, IInv, PlaceCity(count) PROVE IInv'
<1> USE DEF IInv
<1>1. PICK s \in Candidates :
        /\ markers' = markers \cup {s}
        /\ map' = With([map.terrain EXCEPT ![s] = "Field"], map.cities \cup {s}, map.resources)
  BY DEF PlaceCity
<1> DEFINE t == [map.terrain EXCEPT ![s] = "Field"]
<1>0. /\ phase = "cities" /\ phase' = "cities" /\ fresh' = fresh /\ rows' = rows
      /\ saves' = saves /\ seas' = seas /\ map \in Maps
  BY DEF PlaceCity, TypeOK
<1>2. s \in Squares /\ s \in Inner /\ map.terrain[s] = Nothing /\ ~TooClose(s)
  BY InnerSquares DEF Candidates, Free
<1>3. t \in [Squares -> Terrain \cup {Nothing}]
  BY <1>0, MapParts DEF Terrain, Land
<1>4. /\ map' \in Maps /\ map'.terrain = t /\ map'.cities = map.cities \cup {s}
      /\ map'.resources = map.resources
  <2>1. map.cities \cup {s} \in SUBSET Squares
    BY <1>0, <1>2, MapParts
  <2> QED BY <1>0, <1>1, <1>3, <2>1, MapParts
<1>5. fresh
  BY <1>0, <1>2 DEF FreshIsFirst, LaterRows, Full
<1>6. TypeOK'
  BY <1>0, <1>1, <1>2, <1>4 DEF TypeOK, PlaceCity
<1>7. FreshIsFirst' /\ FirstRows' /\ LaterRows' /\ OnlySeas' /\ ThreadsFill'
  BY <1>0, <1>5 DEF FreshIsFirst, FirstRows, LaterRows, OnlySeas, ThreadsFill, Full
<1>8. Fences'
  <2>1. \A q \in Squares : map.terrain[q] = "Water" => q # s
    BY <1>2 DEF Nothing
  <2>2. map.terrain \in [Squares -> Terrain \cup {Nothing}]
    BY <1>0, MapParts
  <2> QED BY <1>0, <1>2, <1>4, <2>1, <2>2 DEF Fences, Fenced, Beside
<1>9. CitiesStand'
  <2>1. map.cities = markers
    BY <1>0, <1>5 DEF CitiesStand
  <2>2. \A c \in markers : Distance(c, s) >= 3 /\ Distance(s, c) >= 3
    <3>1. markers \subseteq Squares
      BY DEF TypeOK
    <3> QED BY <1>2, <3>1, DistanceFacts DEF TooClose
  <2>3. Apart(map')
    BY <1>2, <1>4, <2>1, <2>2 DEF CitiesStand, Apart
  <2>4. map.terrain \in [Squares -> Terrain \cup {Nothing}] /\ map.cities \subseteq Squares
    BY <1>0, MapParts
  <2> QED BY <1>0, <1>1, <1>2, <1>4, <1>5, <2>1, <2>3, <2>4 DEF CitiesStand, Apart
<1>10. ResourcesGrow'
  BY <1>0, <1>4, <1>5 DEF ResourcesGrow, Grown, Generating
<1> QED BY <1>6, <1>7, <1>8, <1>9, <1>10

LEMMA CitiesEndKeepsIInv == ASSUME NEW count \in CityCounts, IInv, CitiesEnd(count) PROVE IInv'
<1> USE DEF IInv
<1>0. /\ phase = "cities" /\ phase' = "fill" /\ map' = map /\ fresh' = fresh /\ rows' = rows
      /\ saves' = saves /\ seas' = seas /\ markers' = markers /\ running' = Chunks
  BY DEF CitiesEnd
<1>1. TypeOK'
  BY DEF TypeOK, CitiesEnd
<1>2. ThreadsFill'
  BY <1>0, EverySquareHasChunk DEF ThreadsFill
<1> QED BY <1>0, <1>1, <1>2 DEF FreshIsFirst, FirstRows, LaterRows, OnlySeas, Fences,
          CitiesStand, ResourcesGrow, Full, Fenced, Apart, Grown, Generating

\* A thread that ends leaves no free square in its chunk.
LEMMA FillKeepsIInv ==
    ASSUME NEW c \in Chunks, NEW roll \in Rolls, IInv, Fill(c, roll) PROVE IInv'
<1> USE DEF IInv
<1> DEFINE t == [s \in Squares |-> IF s \in Area(c) /\ Free(s) THEN roll[s] ELSE map.terrain[s]]
<1>0. /\ phase = "fill" /\ phase' = "fill" /\ fresh' = fresh /\ rows' = rows
      /\ saves' = saves /\ seas' = seas /\ markers' = markers /\ running' = running \ {c}
      /\ map \in Maps /\ map' = With(t, map.cities, map.resources)
  BY DEF Fill, TypeOK
<1>1. roll \in [Squares -> Land \cup {"Water"}]
  BY DrawsAssumption
<1>2. t \in [Squares -> Terrain \cup {Nothing}]
  BY <1>0, <1>1, MapParts DEF Terrain
<1>3. /\ map' \in Maps /\ map'.terrain = t /\ map'.cities = map.cities
      /\ map'.resources = map.resources
  BY <1>0, <1>2, MapParts
<1>4. TypeOK'
  BY <1>0, <1>3 DEF TypeOK, Fill
<1>5. \A s \in Squares :
        /\ t[s] # map.terrain[s] => map.terrain[s] = Nothing /\ t[s] # "DeepWater"
        /\ t[s] = Nothing => map.terrain[s] = Nothing /\ s \notin Area(c)
  BY <1>1 DEF Free, Land, Nothing
<1>6. ThreadsFill'
  <2> SUFFICES ASSUME NEW s \in Squares, t[s] = Nothing
               PROVE  \E d \in running \ {c} : s \in Area(d)
    BY <1>0, <1>3 DEF ThreadsFill, Free
  <2>1. Free(s) /\ s \notin Area(c)
    BY <1>5 DEF Free
  <2> QED BY <2>1, <1>0 DEF ThreadsFill
<1>7. Fences'
  BY <1>0, <1>3, <1>5 DEF Fences, Fenced, Beside, Nothing
<1>8. CASE fresh
  <2>1. CitiesStand'
    <3>1. map.cities \subseteq Squares
      BY <1>0, MapParts
    <3> QED BY <3>1, <1>0, <1>3, <1>5, <1>8 DEF CitiesStand, Apart, Nothing
  <2>2. ResourcesGrow'
    BY <1>0, <1>3, <1>8 DEF ResourcesGrow, Grown, Generating
  <2> QED BY <1>0, <1>4, <1>6, <1>7, <1>8, <2>1, <2>2
        DEF FreshIsFirst, FirstRows, LaterRows, OnlySeas, Full
<1>9. CASE ~fresh
  <2>1. t = map.terrain
    BY <1>0, <1>5, <1>9, MapParts DEF FreshIsFirst, LaterRows, Full
  <2> QED BY <1>0, <1>3, <1>4, <1>6, <1>7, <1>9, <2>1
        DEF FreshIsFirst, FirstRows, LaterRows, OnlySeas, CitiesStand, ResourcesGrow,
            Full, Apart, Grown, Generating
<1> QED BY <1>8, <1>9

LEMMA FillEndKeepsIInv == IInv /\ FillEnd => IInv'
<1> SUFFICES ASSUME IInv, FillEnd PROVE IInv'
  OBVIOUS
<1> USE DEF IInv
<1>0. /\ phase = "fill" /\ phase' = "find" /\ map' = map /\ fresh' = fresh /\ rows' = rows
      /\ saves' = saves /\ seas' = seas /\ markers' = markers /\ running = {}
  BY DEF FillEnd
<1>1. TypeOK'
  BY DEF TypeOK, FillEnd
<1>2. ThreadsFill'
  BY <1>0 DEF ThreadsFill, Full, Free
<1>3. ResourcesGrow'
  BY <1>0 DEF ResourcesGrow, Grown, Generating
<1> QED BY <1>0, <1>1, <1>2, <1>3 DEF FreshIsFirst, FirstRows, LaterRows, OnlySeas, Fences,
          CitiesStand, Full, Fenced, Apart

\* What a thread finds belongs to the terrain.
LEMMA FoundBelongs ==
    ASSUME NEW s \in Squares, NEW find
    PROVE  Found(s, find) \subseteq Yields(map.terrain[s])
BY DEF Found, Yields

LEMMA YieldsAreResources == \A t : Yields(t) \subseteq Resource
BY DEF Yields, Always, Sometimes, Resource

LEMMA FindKeepsIInv ==
    ASSUME NEW c \in Chunks, NEW find \in Finds, IInv, Find(c, find) PROVE IInv'
<1> USE DEF IInv
<1> DEFINE r == [s \in Squares |-> map.resources[s] \cup
                                   (IF s \in Area(c) THEN Found(s, find) ELSE {})]
<1>0. /\ phase = "find" /\ phase' = "find" /\ fresh' = fresh /\ rows' = rows
      /\ saves' = saves /\ seas' = seas /\ markers' = markers
      /\ map \in Maps /\ map' = With(map.terrain, map.cities, r)
  BY DEF Find, TypeOK
<1>1. \A s \in Squares : r[s] \subseteq map.resources[s] \cup Yields(map.terrain[s])
  BY FoundBelongs
<1>2. r \in [Squares -> SUBSET Resource]
  <2>1. map.resources \in [Squares -> SUBSET Resource]
    BY <1>0, MapParts
  <2>2. \A s \in Squares : r[s] \subseteq Resource
    BY <2>1, <1>1, YieldsAreResources
  <2> HIDE DEF r
  <2>3. r = [s \in Squares |-> r[s]]
    BY DEF r
  <2> QED BY <2>2, <2>3
<1>3. /\ map' \in Maps /\ map'.terrain = map.terrain /\ map'.cities = map.cities
      /\ map'.resources = r
  <2> HIDE DEF r
  <2> QED BY <1>0, <1>2, MapParts
<1> HIDE DEF r
<1>4. TypeOK'
  BY <1>0, <1>3 DEF TypeOK, Find
<1>5. ResourcesGrow'
  BY <1>0, <1>1, <1>3 DEF ResourcesGrow, Grown, Generating
<1> QED BY <1>0, <1>3, <1>4, <1>5
      DEF FreshIsFirst, FirstRows, LaterRows, OnlySeas, ThreadsFill, Fences, CitiesStand,
          Full, Fenced, Apart

LEMMA FindEndKeepsIInv == IInv /\ FindEnd => IInv'
<1> SUFFICES ASSUME IInv, FindEnd PROVE IInv'
  OBVIOUS
<1> USE DEF IInv
<1>0. /\ phase = "find" /\ phase' = "save" /\ map' = map /\ fresh' = fresh /\ rows' = rows
      /\ saves' = saves /\ seas' = {} /\ markers' = {}
  BY DEF FindEnd
<1>1. TypeOK'
  BY DEF TypeOK, FindEnd
<1> QED BY <1>0, <1>1 DEF FreshIsFirst, FirstRows, LaterRows, OnlySeas, ThreadsFill, Fences,
          CitiesStand, ResourcesGrow, Full, Fenced, Apart, Grown, Generating

-----------------------------------------------------------------------------
(* The requests                                                            *)

LEMMA GenerateTyped ==
    ASSUME NEW n \in SeaCounts, TypeOK, Generate(n)
    PROVE  /\ phase' = "seas" /\ left' \in Nat /\ placed' \in Nat /\ unluck' \in Nat
           /\ seas' = {} /\ markers' = {} /\ running' = {}
BY WorldAssumption DEF Generate, TypeOK

LEMMA CreateKeepsIInv == ASSUME NEW n \in SeaCounts, IInv, Create(n) PROVE IInv'
<1> USE DEF IInv
<1>0. /\ map' = EmptyMap /\ fresh' = TRUE /\ rows' = rows /\ saves' = saves
      /\ saves = 0 /\ saves < MaxSaves
      /\ phase' = "seas" /\ seas' = {} /\ markers' = {}
  BY GenerateTyped DEF Create
<1>1. TypeOK'
  BY <1>0, GenerateTyped, EmptyMapFacts DEF TypeOK, Create
<1>2. rows = EmptyMap
  BY <1>0 DEF FirstRows
<1> QED BY <1>0, <1>1, <1>2, EmptyMapFacts
      DEF FreshIsFirst, FirstRows, LaterRows, OnlySeas, ThreadsFill, Fences, CitiesStand,
          ResourcesGrow, Full, Nothing, Generating

LEMMA LaunchKeepsIInv == ASSUME NEW n \in SeaCounts, IInv, Launch(n) PROVE IInv'
<1> USE DEF IInv
<1>0. /\ map' = rows /\ fresh' = FALSE /\ rows' = rows /\ saves' = saves
      /\ saves > 0 /\ saves < MaxSaves
      /\ phase' = "seas" /\ seas' = {} /\ markers' = {}
  BY GenerateTyped DEF Launch
<1>1. TypeOK'
  BY <1>0, GenerateTyped DEF TypeOK, Launch
<1> QED BY <1>0, <1>1
      DEF FreshIsFirst, FirstRows, LaterRows, OnlySeas, ThreadsFill, Fences, CitiesStand,
          ResourcesGrow, Full, Fenced, Apart, Grown, Generating


LEMMA ResaveKeepsIInv == IInv /\ Resave => IInv'
<1> SUFFICES ASSUME IInv, Resave PROVE IInv'
  OBVIOUS
<1> USE DEF IInv
<1>0. /\ map' = rows /\ fresh' = FALSE /\ rows' = rows /\ saves' = saves
      /\ saves > 0 /\ saves < MaxSaves
      /\ phase = "idle" /\ phase' = "save" /\ seas' = seas /\ markers' = markers
  BY DEF Resave, local
<1>1. TypeOK'
  BY <1>0 DEF TypeOK, Resave, local
<1> QED BY <1>0, <1>1
      DEF FreshIsFirst, FirstRows, LaterRows, OnlySeas, ThreadsFill, Fences, CitiesStand,
          ResourcesGrow, Full, Fenced, Apart, Grown, Generating

\* The rows after a save: the terrain of the map, the cities mirrored by the first save
\* and kept by the others, and the resources of every square and of its mirror.
LEMMA SavedRows ==
    ASSUME IInv, Save
    PROVE  /\ rows' \in Maps /\ rows'.terrain = map.terrain
           /\ rows'.cities = IF fresh THEN {Mirror(s) : s \in map.cities} ELSE rows.cities
           /\ \A s \in Squares :
                 rows'.resources[s] = rows.resources[s] \cup map.resources[Mirror(s)]
<1> USE DEF IInv
<1>0. phase = "save" /\ map \in Maps /\ rows \in Maps /\ rows' = Saved(map)
  BY DEF Save, TypeOK
<1> DEFINE cs == rows.cities \cup {CityRow(s) : s \in map.cities}
           r == [s \in Squares |-> rows.resources[s] \cup
                    UNION {map.resources[p] : p \in {q \in Squares : ResourceRow(q) = s}}]
<1>1. \A s \in Squares : r[s] = rows.resources[s] \cup map.resources[Mirror(s)]
  <2> SUFFICES ASSUME NEW s \in Squares
               PROVE  r[s] = rows.resources[s] \cup map.resources[Mirror(s)]
    OBVIOUS
  <2>1. {q \in Squares : ResourceRow(q) = s} = {Mirror(s)}
    <3>1. \A q \in Squares : Mirror(q) = s => q = Mirror(s)
      BY MirrorBack
    <3> QED BY <3>1, MirrorBack DEF ResourceRow
  <2> QED BY <2>1
<1>2. r \in [Squares -> SUBSET Resource]
  <2>1. /\ map.resources \in [Squares -> SUBSET Resource]
        /\ rows.resources \in [Squares -> SUBSET Resource]
    BY <1>0, MapParts
  <2>2. \A s \in Squares : r[s] \subseteq Resource
    BY <2>1, <1>1, MirrorBack
  <2> HIDE DEF r
  <2>3. r = [s \in Squares |-> r[s]]
    BY DEF r
  <2> QED BY <2>2, <2>3
<1>3. cs = IF fresh THEN {Mirror(s) : s \in map.cities} ELSE rows.cities
  <2>1. CASE fresh
    <3>1. rows.cities = {}
      BY <1>0, <2>1, EmptyMapFacts DEF FreshIsFirst
    <3> QED BY <2>1, <3>1 DEF CityRow
  <2>2. CASE ~fresh
    <3>1. map.cities = rows.cities
      BY <1>0, <2>2 DEF FreshIsFirst
    <3> QED BY <2>2, <3>1 DEF CityRow
  <2> QED BY <2>1, <2>2
<1>4. cs \subseteq Squares
  BY <1>0, <1>3, MapParts, MirrorBack
<1>5. rows' = With(map.terrain, cs, r)
  BY <1>0 DEF Saved
<1>6. map.terrain \in [Squares -> Terrain \cup {Nothing}]
  BY <1>0, MapParts
<1> HIDE DEF cs, r
<1>7. /\ rows' \in Maps /\ rows'.terrain = map.terrain /\ rows'.cities = cs
      /\ rows'.resources = r
  BY <1>2, <1>4, <1>5, <1>6, MapParts
<1> QED BY <1>1, <1>3, <1>7

LEMMA SaveKeepsIInv == ASSUME IInv, Save PROVE IInv'
<1> USE DEF IInv
<1>0. /\ phase = "save" /\ phase' = "idle" /\ map' = map /\ fresh' = fresh
      /\ saves' = saves + 1 /\ seas' = seas /\ markers' = markers
      /\ saves \in Nat /\ map \in Maps /\ rows \in Maps
  BY WorldAssumption DEF Save, local, TypeOK
<1>1. TypeOK'
  <2>1. saves' \in 0..MaxSaves
    BY <1>0, WorldAssumption DEF FreshIsFirst
  <2>2. rows' \in Maps
    BY SavedRows
  <2> QED BY <1>0, <2>1, <2>2 DEF TypeOK, Save, local
<1>2. FreshIsFirst' /\ FirstRows' /\ OnlySeas' /\ ThreadsFill'
  BY <1>0 DEF FreshIsFirst, FirstRows, OnlySeas, ThreadsFill
<1>3. LaterRows' /\ Fences'
  <2>1. rows'.terrain = map.terrain
    BY SavedRows
  <2> QED BY <1>0, <2>1 DEF LaterRows, ThreadsFill, Fences, Fenced, Full
<1>4. CitiesStand'
  <2>1. Apart(rows')
    <3>1. CASE fresh
      BY <1>0, <3>1, SavedRows, ApartMirrored DEF CitiesStand
    <3>2. CASE ~fresh
      BY <3>2, SavedRows DEF CitiesStand, Apart
    <3> QED BY <3>1, <3>2
  <2>2. \A c \in rows'.cities : rows'.terrain[Mirror(c)] = "Field"
    <3>1. CASE fresh
      <4>1. map.cities \subseteq Squares
        BY <1>0, MapParts
      <4> QED BY <1>0, <3>1, <4>1, SavedRows, MirrorBack DEF CitiesStand
    <3>2. CASE ~fresh
      BY <1>0, <3>2, SavedRows DEF CitiesStand, FreshIsFirst
    <3> QED BY <3>1, <3>2
  <2>3. Apart(map')
    BY <1>0 DEF CitiesStand, Apart
  <2> QED BY <1>0, <2>1, <2>2, <2>3 DEF CitiesStand
<1>5. ResourcesGrow'
  <2>1. Grown(rows')
    <3> SUFFICES ASSUME NEW s \in Squares
                 PROVE  rows'.resources[s] \subseteq Yields(map.terrain[s])
                                                \cup Yields(map.terrain[Mirror(s)])
      BY SavedRows DEF Grown
    <3>1. rows'.resources[s] = rows.resources[s] \cup map.resources[Mirror(s)]
      BY SavedRows
    <3>2. Mirror(s) \in Squares /\ Mirror(Mirror(s)) = s
      BY MirrorBack
    <3>3. map.resources[Mirror(s)] \subseteq Yields(map.terrain[s])
                                      \cup Yields(map.terrain[Mirror(s)])
      BY <3>2 DEF ResourcesGrow, Grown
    <3>4. rows.resources[s] \subseteq Yields(map.terrain[s])
                                      \cup Yields(map.terrain[Mirror(s)])
      <4>1. CASE fresh
        BY <1>0, <4>1, EmptyMapFacts DEF FreshIsFirst
      <4>2. CASE ~fresh
        BY <1>0, <4>2 DEF FreshIsFirst, ResourcesGrow, Grown
      <4> QED BY <4>1, <4>2
    <3> QED BY <3>1, <3>3, <3>4
  <2> QED BY <1>0, <2>1 DEF ResourcesGrow, Grown, Generating
<1> QED BY <1>1, <1>2, <1>3, <1>4, <1>5

LEMMA StutterKeepsIInv == IInv /\ UNCHANGED vars => IInv'
BY DEF IInv, vars, TypeOK, FreshIsFirst, FirstRows, LaterRows, OnlySeas, ThreadsFill, Fences,
       CitiesStand, ResourcesGrow, Full, Fenced, Apart, Grown, Free

LEMMA NextKeepsIInv == IInv /\ [Next]_vars => IInv'
<1> SUFFICES ASSUME IInv, [Next]_vars PROVE IInv'
  OBVIOUS
<1>1. CASE \E n \in CityCounts : PlaceCity(n) \/ CitiesEnd(n)
  BY <1>1, PlaceCityKeepsIInv, CitiesEndKeepsIInv
<1>2. CASE \E c \in Chunks, r \in Rolls : Fill(c, r)
  BY <1>2, FillKeepsIInv
<1>3. CASE \E c \in Chunks, f \in Finds : Find(c, f)
  BY <1>3, FindKeepsIInv
<1>4. CASE \E n \in SeaCounts : Create(n) \/ Launch(n)
  BY <1>4, CreateKeepsIInv, LaunchKeepsIInv
<1>5. CASE TrySea \/ SeasEnd \/ Shores \/ FillEnd \/ FindEnd
  BY <1>5, TrySeaKeepsIInv, SeasEndKeepsIInv, ShoresKeepIInv, FillEndKeepsIInv,
     FindEndKeepsIInv
<1>6. CASE Resave \/ Save
  BY <1>6, ResaveKeepsIInv, SaveKeepsIInv
<1>7. CASE Done \/ UNCHANGED vars
  BY <1>7, StutterKeepsIInv DEF Done
<1> QED BY <1>1, <1>2, <1>3, <1>4, <1>5, <1>6, <1>7 DEF Next, Running

LEMMA Inductive == Spec => []IInv
BY InitIInv, NextKeepsIInv, PTL DEF Spec

-----------------------------------------------------------------------------
(* The properties                                                          *)

\* TypeOK: every reachable world is typed.
THEOREM TypeCorrect == Spec => []TypeOK
<1>1. IInv => TypeOK
  BY DEF IInv
<1> QED BY <1>1, Inductive, PTL

\* SeasAreFenced: no number of seas, tries, threads and saves puts deep water next to
\* anything but shallow water.
THEOREM SeasStayFenced == Spec => []SeasAreFenced
<1>1. IInv => SeasAreFenced
  BY DEF IInv, Fences, SeasAreFenced
<1> QED BY <1>1, Inductive, PTL

\* MapIsSound: chunks of any size partition the map, and deep water is fenced.
THEOREM MapStaysSound == Spec => []MapIsSound
<1>1. SeasAreFenced => MapIsSound
  BY ChunksPartition DEF MapIsSound
<1> QED BY <1>1, SeasStayFenced, PTL

\* CitiesKeepTheirDistance: neither the order of the shuffle nor the mirrored rows
\* bring two cities closer than three squares or to the border.
THEOREM CitiesStayApart == Spec => []CitiesKeepTheirDistance
<1>1. IInv => CitiesKeepTheirDistance
  BY DEF IInv, CitiesStand, Apart, CitiesKeepTheirDistance
<1> QED BY <1>1, Inductive, PTL

\* CityIsMirrored: after any number of saves and starts the mirror of a stored city is
\* the field that was made for it.
THEOREM CitiesAreMirrored == Spec => []CityIsMirrored
<1>1. IInv => CityIsMirrored
  BY DEF IInv, CitiesStand, CityIsMirrored
<1> QED BY <1>1, Inductive, PTL

\* CitiesStandApart: cities keep their distance, and the fields cleared for them.
THEOREM CitiesStayPut == Spec => []CitiesStandApart
<1>1. CitiesKeepTheirDistance /\ CityIsMirrored => CitiesStandApart
  BY DEF CitiesStandApart
<1> QED BY <1>1, CitiesStayApart, CitiesAreMirrored, PTL

\* ResourceHasItsTerrain: resources are found on their terrain and copied to its mirror
\* by each save, which after the second copies nothing new.
THEOREM ResourcesHaveTheirTerrain == Spec => []ResourceHasItsTerrain
<1>1. IInv => ResourceHasItsTerrain
  BY DEF IInv, ResourcesGrow, Grown, ResourceHasItsTerrain
<1> QED BY <1>1, Inductive, PTL

\* WorldIsSettled: the generation that start runs over a loaded map finds no free square
\* and draws no sea, so that the rows keep their terrain and their cities.
THEOREM WorldsAreSettled == Spec => WorldIsSettled
<1> DEFINE Settled ==
             saves > 0 => /\ rows'.terrain = rows.terrain /\ rows'.cities = rows.cities
                          /\ \A s \in Squares : rows.resources[s] \subseteq rows'.resources[s]
<1>1. IInv /\ [Next]_vars => [Settled]_vars
  <2> SUFFICES ASSUME IInv, [Next]_vars, saves > 0
               PROVE  /\ rows'.terrain = rows.terrain /\ rows'.cities = rows.cities
                      /\ \A s \in Squares : rows.resources[s] \subseteq rows'.resources[s]
    OBVIOUS
  <2>1. CASE Save
    <3>1. ~fresh /\ map.terrain = rows.terrain
      BY <2>1 DEF IInv, FreshIsFirst, Save, TypeOK
    <3> QED BY <2>1, <3>1, SavedRows
  <2>2. CASE rows' = rows
    BY <2>2
  <2> QED BY <2>1, <2>2 DEF Next, Running, TrySea, SeasEnd, Shores, PlaceCity, CitiesEnd,
        Fill, FillEnd, Find, FindEnd, Create, Launch, Resave, Done, vars
<1> QED BY <1>1, Inductive, PTL DEF Spec, WorldIsSettled
-----------------------------------------------------------------------------
(* The variant                                                             *)

\* The phases in the order of generateMap, and what is left to do in one that loops.
Rank == CASE phase = "seas" -> 6
          [] phase = "shores" -> 5
          [] phase = "cities" -> 4
          [] phase = "fill" -> 3
          [] phase = "find" -> 2
          [] phase = "save" -> 1
          [] OTHER -> 0

Todo == CASE phase = "seas" -> unluck - placed
          [] phase = "cities" -> Cardinality(Squares \ markers)
          [] phase \in {"fill", "find"} -> Cardinality(running)
          [] OTHER -> 0

\* A step that goes on to a later phase, or stays in its phase with less to do.
GoesOn == \/ Rank' < Rank
          \/ phase' = phase /\ Todo' \in Nat /\ Todo' < Todo

LEMMA FiniteMap == IsFiniteSet(Squares) /\ IsFiniteSet(Chunks)
<1>1. Size - 1 \in Int /\ ChunkInSide - 1 \in Int /\ 0 \in Int
  BY WorldAssumption
<1>2. IsFiniteSet(0..Size - 1) /\ IsFiniteSet(0..ChunkInSide - 1)
  BY <1>1, FS_Interval
<1> QED BY <1>2, FS_Product DEF Squares, Chunks

\* A finite set without one of its elements is smaller.
LEMMA OneFewer ==
    ASSUME NEW S, IsFiniteSet(S), NEW x \in S
    PROVE  Cardinality(S \ {x}) \in Nat /\ Cardinality(S \ {x}) < Cardinality(S)
<1>1. Cardinality(S) \in Nat
  BY FS_CardinalityType
<1>2. IsFiniteSet(S \ {x}) /\ Cardinality(S \ {x}) = Cardinality(S) - 1
  BY FS_RemoveElement
<1>3. Cardinality(S \ {x}) \in Nat
  BY <1>2, FS_CardinalityType
<1> QED BY <1>1, <1>2, <1>3

LEMMA TriesRunOut == TypeOK /\ TrySea => GoesOn
<1> SUFFICES ASSUME TypeOK, TrySea PROVE GoesOn
  OBVIOUS
<1>1. /\ phase = "seas" /\ phase' = "seas" /\ placed \in Nat /\ unluck \in Nat
      /\ placed < unluck /\ unluck' = unluck /\ placed' = placed + 1
  BY DEF TrySea, Miss, TypeOK
<1>2. Todo = unluck - placed /\ Todo' = unluck' - placed'
  BY <1>1 DEF Todo
<1> QED BY <1>1, <1>2 DEF GoesOn

\* A city is never placed twice: a marker is too close to itself.
LEMMA SitesRunOut == ASSUME NEW n \in CityCounts, TypeOK, PlaceCity(n) PROVE GoesOn
<1>1. PICK s \in Candidates : markers' = markers \cup {s}
  BY DEF PlaceCity
<1>2. s \in Squares /\ ~TooClose(s)
  BY <1>1, InnerSquares DEF Candidates
<1>3. Distance(s, s) = 0
  <2>1. s[1] \in Int /\ s[2] \in Int
    BY <1>2 DEF Squares
  <2> QED BY <2>1 DEF Distance
<1>4. s \in Squares \ markers
  BY <1>2, <1>3 DEF TooClose
<1>5. Squares \ markers' = (Squares \ markers) \ {s}
  BY <1>1
<1>6. IsFiniteSet(Squares \ markers)
  BY FiniteMap, FS_Difference
<1>7. phase = "cities" /\ phase' = "cities"
  BY DEF PlaceCity
<1>8. Todo = Cardinality(Squares \ markers) /\ Todo' = Cardinality(Squares \ markers')
  BY <1>7 DEF Todo
<1> QED BY <1>4, <1>5, <1>6, <1>7, <1>8, OneFewer DEF GoesOn

LEMMA ThreadsRunOut ==
    ASSUME TypeOK, NEW c \in running, phase \in {"fill", "find"}, phase' = phase,
           running' = running \ {c}
    PROVE  GoesOn
<1>1. IsFiniteSet(running)
  BY FiniteMap, FS_Subset DEF TypeOK
<1>2. Todo = Cardinality(running) /\ Todo' = Cardinality(running')
  <2>1. phase = "fill" \/ phase = "find"
    OBVIOUS
  <2>2. phase' = "fill" \/ phase' = "find"
    BY <2>1
  <2> QED BY <2>1, <2>2 DEF Todo
<1> QED BY <1>1, <1>2, OneFewer DEF GoesOn

\* Every step of a request goes on: it leaves its phase for a later one, or counts a try,
\* marks a square or ends a thread, of which there are finitely many.  With fairness of
\* Running, and a step possible in every phase, this is why GenerationEnds.
THEOREM GenerationGoesOn == Spec => [][phase # "idle" => GoesOn]_vars
<1> DEFINE Advances == phase # "idle" => GoesOn
<1>1. IInv /\ [Next]_vars => [Advances]_vars
  <2> SUFFICES ASSUME TypeOK, Next, phase # "idle" PROVE GoesOn
    BY DEF IInv
  <2>1. CASE TrySea
    BY <2>1, TriesRunOut
  <2>2. CASE SeasEnd \/ Shores \/ FillEnd \/ FindEnd \/ Save
    BY <2>2 DEF SeasEnd, Shores, FillEnd, FindEnd, Save, GoesOn, Rank
  <2>3. CASE \E n \in CityCounts : PlaceCity(n)
    BY <2>3, SitesRunOut
  <2>4. CASE \E n \in CityCounts : CitiesEnd(n)
    BY <2>4 DEF CitiesEnd, GoesOn, Rank
  <2>5. CASE \/ \E c \in Chunks, r \in Rolls : Fill(c, r)
             \/ \E c \in Chunks, f \in Finds : Find(c, f)
    BY <2>5, ThreadsRunOut DEF Fill, Find
  <2>6. ~Resave /\ ~Done /\ ~(\E n \in SeaCounts : Create(n) \/ Launch(n))
    BY DEF Resave, Done, Create, Launch
  <2> QED BY <2>1, <2>2, <2>3, <2>4, <2>5, <2>6 DEF Next, Running
<1> QED BY <1>1, Inductive, PTL DEF Spec
=============================================================================

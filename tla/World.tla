------------------------------- MODULE World -------------------------------
(***************************************************************************)
(* Map::generateMap and what the rows keep of it.  A square is the pair of *)
(* indices of tileMap.  create generates an empty map; start runs the same *)
(* function over a map that was loaded; every other request loads and      *)
(* saves what it finds.  The function places seas, shores and cities one   *)
(* after the other and then joins two rounds of threads, one per chunk.    *)
(***************************************************************************)
EXTENDS Integers, FiniteSets

CONSTANTS Size,          \* map_size
          ChunkInSide,   \* 4 in the code
          SeaSquares,    \* squares the coordinates of seas are drawn from
          SeaCounts,     \* values of countOfDeepSees
          TriesPerSea,   \* 100 in the code
          CityCounts,    \* values of realCitiesCount
          Rolls,         \* terrain a thread may roll: square -> terrain
          Finds,         \* resources a thread may roll: square -> resources
          MaxSaves       \* bound on saves

ASSUME WorldAssumption ==
    /\ Size \in Nat \ {0} /\ ChunkInSide \in Nat \ {0} /\ TriesPerSea \in Nat \ {0}
    /\ SeaCounts \subseteq Nat \ {0} /\ CityCounts \subseteq Nat /\ MaxSaves \in Nat

Squares == (0..Size - 1) \X (0..Size - 1)
Land == {"Mountain", "Forest", "Field"}
Terrain == Land \cup {"Water", "DeepWater"}
Nothing == "null"
Resource == {"Fish", "Forest", "Animal", "Mining", "Fruit", "Farm"}

ASSUME DrawsAssumption ==
    /\ SeaSquares \subseteq Squares
    /\ Rolls \subseteq [Squares -> Land \cup {"Water"}]
    /\ Finds \subseteq [Squares -> SUBSET Resource]

Mirror(s) == <<s[2], s[1]>>
Distance(p, q) ==
    LET Abs(n) == IF n < 0 THEN -n ELSE n
        dx == Abs(p[1] - q[1])
        dy == Abs(p[2] - q[2])
    IN  IF dx > dy THEN dx ELSE dy
Beside(s) == {n \in Squares : \/ n[1] = s[1] /\ n[2] \in {s[2] - 1, s[2] + 1}
                              \/ n[2] = s[2] /\ n[1] \in {s[1] - 1, s[1] + 1}}
Inner == (1..Size - 2) \X (1..Size - 2)

\* The chunks: equal sides of Size \div ChunkInSide, the last takes the rest.
Chunks == (0..ChunkInSide - 1) \X (0..ChunkInSide - 1)
Start(k) == k * (Size \div ChunkInSide)
End(k) == IF k = ChunkInSide - 1 THEN Size ELSE (k + 1) * (Size \div ChunkInSide)
Area(c) == {s \in Squares : /\ Start(c[1]) <= s[1] /\ s[1] < End(c[1])
                            /\ Start(c[2]) <= s[2] /\ s[2] < End(c[2])}

Always(t) == IF t = "Forest" THEN {"Forest"} ELSE {}
Sometimes(t) == CASE t = "Water" -> {"Fish"}
                  [] t = "Forest" -> {"Animal"}
                  [] t = "Mountain" -> {"Mining"}
                  [] t = "Field" -> {"Fruit", "Farm"}
                  [] OTHER -> {}
Yields(t) == Always(t) \cup Sometimes(t)

With(t, c, r) == [terrain |-> t, cities |-> c, resources |-> r]
EmptyMap == With([s \in Squares |-> Nothing], {}, [s \in Squares |-> {}])

VARIABLES
    map,       \* the tileMap of the running request; cities: their main tiles
    fresh,     \* was the map generated here?  Then its tiles hold mirrored x, y
    rows,      \* tiles, cities and resources as stored
    saves,     \* saves so far
    phase,     \* where generateMap is; "idle" between requests
    left,      \* countOfDeepSees
    placed,    \* tries so far
    unluck,    \* the bound on tries
    seas,      \* deepSeesCord
    markers,   \* cityMarkers
    running    \* chunks whose thread has not ended

vars == <<map, fresh, rows, saves, phase, left, placed, unluck, seas, markers, running>>
local == <<left, placed, unluck, seas, markers, running>>

Maps == [terrain : [Squares -> Terrain \cup {Nothing}], cities : SUBSET Squares,
         resources : [Squares -> SUBSET Resource]]

TypeOK ==
    /\ map \in Maps /\ rows \in Maps
    /\ fresh \in BOOLEAN /\ saves \in 0..MaxSaves
    /\ phase \in {"idle", "seas", "shores", "cities", "fill", "find", "save"}
    /\ left \in Nat /\ placed \in Nat /\ unluck \in Nat
    /\ seas \subseteq Squares /\ markers \subseteq Squares /\ running \subseteq Chunks

Init ==
    /\ map = EmptyMap /\ rows = EmptyMap /\ fresh = FALSE
    /\ saves = 0 /\ phase = "idle"
    /\ left = 0 /\ placed = 0 /\ unluck = 0
    /\ seas = {} /\ markers = {} /\ running = {}
-----------------------------------------------------------------------------
(***************************************************************************)
(* generateMap.                                                            *)
(***************************************************************************)
Free(s) == map.terrain[s] = Nothing

Generate(n) == /\ phase' = "seas" /\ left' = n
               /\ placed' = 0 /\ unluck' = n * TriesPerSea
               /\ seas' = {} /\ markers' = {} /\ running' = {}

\* Mutant: only tries that succeed count.
MissUncounted == /\ UNCHANGED <<map, left, placed, seas>>
Miss == /\ placed' = placed + 1
        /\ UNCHANGED <<map, left, seas>>

\* Mutant: the square need not be free.
HitsAnywhere(s) == TRUE
Hits(s) == Free(s)

\* One try: a drawn square becomes deep sea unless it is taken.
TrySea ==
    /\ phase = "seas" /\ left > 0 /\ placed < unluck
    /\ \E s \in SeaSquares :
          \/ /\ Hits(s)
             /\ map' = With([map.terrain EXCEPT ![s] = "DeepWater"], map.cities, map.resources)
             /\ seas' = seas \cup {s}
             /\ left' = left - 1 /\ placed' = placed + 1
          \/ ~Hits(s) /\ Miss
    /\ UNCHANGED <<fresh, rows, saves, phase, unluck, markers, running>>

SeasEnd == /\ phase = "seas" /\ ~(left > 0 /\ placed < unluck)
           /\ phase' = "shores"
           /\ UNCHANGED <<map, fresh, rows, saves, local>>

\* The neighbours of every drawn square become water, deep ones included.
\* Mutant: only those that are not deep.
ShoreDry(n) == Free(n) \/ map.terrain[n] = "Water"
Shore(n) == Free(n) \/ map.terrain[n] \in {"DeepWater", "Water"}

Shores ==
    /\ phase = "shores" /\ phase' = "cities"
    /\ map' = With([s \in Squares |-> IF (\E d \in seas : s \in Beside(d)) /\ Shore(s)
                                      THEN "Water" ELSE map.terrain[s]],
                   map.cities, map.resources)
    /\ UNCHANGED <<fresh, rows, saves, local>>

TooClose(s) == \E c \in markers : Distance(c, s) < 3

Candidates == {s \in Inner : Free(s) /\ ~TooClose(s)}

\* The candidates are shuffled: the next city is any that is not too close.
PlaceCity(count) ==
    /\ phase = "cities" /\ Cardinality(markers) < count
    /\ \E s \in Candidates :
          /\ markers' = markers \cup {s}
          /\ map' = With([map.terrain EXCEPT ![s] = "Field"],
                         map.cities \cup {s}, map.resources)
    /\ UNCHANGED <<fresh, rows, saves, phase, left, placed, unluck, seas, running>>

CitiesEnd(count) ==
    /\ phase = "cities" /\ (Cardinality(markers) >= count \/ Candidates = {})
    /\ phase' = "fill" /\ running' = Chunks
    /\ UNCHANGED <<map, fresh, rows, saves, left, placed, unluck, seas, markers>>

\* The thread of a chunk, first round: terrain for the squares still free.
Fill(c, roll) ==
    /\ phase = "fill" /\ c \in running /\ running' = running \ {c}
    /\ map' = With([s \in Squares |-> IF s \in Area(c) /\ Free(s) THEN roll[s]
                                      ELSE map.terrain[s]],
                   map.cities, map.resources)
    /\ UNCHANGED <<fresh, rows, saves, phase, left, placed, unluck, seas, markers>>

FillEnd == /\ phase = "fill" /\ running = {}
           /\ phase' = "find" /\ running' = Chunks
           /\ UNCHANGED <<map, fresh, rows, saves, left, placed, unluck, seas, markers>>

\* Second round: resources for the squares without a city.
Found(s, find) == IF s \in map.cities THEN {}
                  ELSE LET t == map.terrain[s] IN Always(t) \cup (Sometimes(t) \cap find[s])

Find(c, find) ==
    /\ phase = "find" /\ c \in running /\ running' = running \ {c}
    /\ map' = With(map.terrain, map.cities,
                   [s \in Squares |-> map.resources[s] \cup
                                      (IF s \in Area(c) THEN Found(s, find) ELSE {})])
    /\ UNCHANGED <<fresh, rows, saves, phase, left, placed, unluck, seas, markers>>

FindEnd == /\ phase = "find" /\ running = {}
           /\ phase' = "save"
           /\ left' = 0 /\ placed' = 0 /\ unluck' = 0
           /\ seas' = {} /\ markers' = {} /\ UNCHANGED running
           /\ UNCHANGED <<map, fresh, rows, saves>>
-----------------------------------------------------------------------------
(***************************************************************************)
(* The requests.  A tile is stored under its position, a city under the    *)
(* x and y of its tile, a resource under the position mirrored.  Rows are  *)
(* inserted or updated, never deleted.                                     *)
(***************************************************************************)
\* Mutant: the row of a city is looked up mirrored, as that of a resource is.
CityRowMirrored(s) == Mirror(s)
CityRow(s) == IF fresh THEN Mirror(s) ELSE s

\* Mutant: the row of a resource is looked up by (x, x).
ResourceRowByColumn(s) == <<s[2], s[2]>>
ResourceRow(s) == Mirror(s)

Saved(m) ==
    With(m.terrain, rows.cities \cup {CityRow(s) : s \in m.cities},
         [s \in Squares |-> rows.resources[s] \cup
                            UNION {m.resources[p] : p \in {q \in Squares : ResourceRow(q) = s}}])

Create(n) == /\ phase = "idle" /\ saves = 0 /\ saves < MaxSaves
             /\ map' = EmptyMap /\ fresh' = TRUE /\ Generate(n)
             /\ UNCHANGED <<rows, saves>>

\* launchGame generates again, over the loaded map.
Launch(n) == /\ phase = "idle" /\ saves > 0 /\ saves < MaxSaves
             /\ map' = rows /\ fresh' = FALSE /\ Generate(n)
             /\ UNCHANGED <<rows, saves>>

\* ready, tribe selection and most actions save the map as they loaded it.
Resave == /\ phase = "idle" /\ saves > 0 /\ saves < MaxSaves
          /\ map' = rows /\ fresh' = FALSE /\ phase' = "save"
          /\ UNCHANGED <<rows, saves, local>>

Save == /\ phase = "save" /\ phase' = "idle"
        /\ rows' = Saved(map) /\ saves' = saves + 1
        /\ UNCHANGED <<map, fresh, local>>

Running == \/ TrySea \/ SeasEnd \/ Shores \/ FillEnd \/ FindEnd \/ Save
           \/ \E n \in CityCounts : PlaceCity(n) \/ CitiesEnd(n)
           \/ \E c \in Chunks, r \in Rolls : Fill(c, r)
           \/ \E c \in Chunks, f \in Finds : Find(c, f)

Done == phase = "idle" /\ saves = MaxSaves /\ UNCHANGED vars

Next == \/ Running
        \/ \E n \in SeaCounts : Create(n) \/ Launch(n)
        \/ Resave \/ Done

Spec == Init /\ [][Next]_vars /\ WF_vars(Running)
-----------------------------------------------------------------------------
(***************************************************************************)
(* Properties.                                                             *)
(***************************************************************************)
\* OneThreadPerSquare: the chunks of the threads that write tileMap without a
\* lock cover the map and do not meet, also on a map smaller than ChunkInSide.
OneThreadPerSquare ==
    \A s \in Squares : \E c \in Chunks :
        s \in Area(c) /\ \A d \in Chunks \ {c} : s \notin Area(d)

Fenced(m) == \A s \in Squares : m.terrain[s] = "DeepWater" =>
                 \A n \in Beside(s) : m.terrain[n] = "Water"

\* SeasAreFenced: whatever seas were drawn, in any order, and whatever the
\* threads rolled afterwards, deep water touches nothing but shallow water.
SeasAreFenced == (phase \notin {"seas", "shores"} => Fenced(map)) /\ Fenced(rows)

\* MapIsSound: the order in which seas and threads take squares leaves no trace in
\* the map: every square is one thread's and every deep sea is fenced.
MapIsSound == OneThreadPerSquare /\ SeasAreFenced

\* CitiesKeepTheirDistance: cities are three squares apart and off the border, in
\* the map and in the rows, though the rows have them on other squares.
CitiesKeepTheirDistance ==
    \A m \in {map, rows} :
        /\ m.cities \subseteq Inner
        /\ \A c, d \in m.cities : c # d => Distance(c, d) >= 3

\* CityIsMirrored: once stored, a city stands on the square whose mirror was made
\* a field for it, whatever the terrain of its own square, and stays there.
CityIsMirrored ==
    \A c \in rows.cities : rows.terrain[Mirror(c)] = "Field"

\* CitiesStandApart: the rows of the cities are the mirror image of the map, no more
\* crowded than the map, after any number of saves and starts.
CitiesStandApart == CitiesKeepTheirDistance /\ CityIsMirrored

\* ResourceHasItsTerrain: a stored resource belongs to the terrain of its square or
\* of the mirrored one; no number of saves and starts spreads it further.
ResourceHasItsTerrain ==
    \A s \in Squares : rows.resources[s] \subseteq
        Yields(rows.terrain[s]) \cup Yields(rows.terrain[Mirror(s)])

\* WorldIsSettled: start runs the whole generation again over the loaded map; once
\* stored, a world keeps its terrain and its cities and loses no resource.
WorldIsSettled ==
    [][saves > 0 => /\ rows'.terrain = rows.terrain /\ rows'.cities = rows.cities
                    /\ \A s \in Squares : rows.resources[s] \subseteq rows'.resources[s]]_vars

\* GenerationEnds: also on a map without a free square, where no sea can be placed.
GenerationEnds == phase # "idle" ~> phase = "idle"
=============================================================================

------------------------------ MODULE Economy ------------------------------
(***************************************************************************)
(* One tribe's coins, cities, squares and technologies: Tribe.cpp,         *)
(* City.cpp and Tile.cpp.  In the game library they work on a map of their *)
(* own.  On the server every operation runs on a game that                 *)
(* GameRepository::load has just built: its cities have no map and its     *)
(* squares do not know their city, so population and income recalculation  *)
(* return early; an operation that throws or crashes there is rolled back  *)
(* and changes nothing.  In the library what it did before the throw stays.*)
(***************************************************************************)
EXTENDS Integers, FiniteSets, Techs

CONSTANTS
    Cities,      \* cities of the map
    Squares,     \* squares near them
    Around,      \* Around[c]: the squares within one step of city c
    Territory,   \* Territory[c]: the squares within one step of c's mirror image
    Near,        \* Near[s]: the squares within one step of s, s included
    Resources,   \* resource kinds on this map, a subset of DOMAIN Resource
    Kinds,       \* building kinds, a subset of DOMAIN BuildingCost
    Learnable,   \* the technologies that may be learned
    Modes,       \* values of loaded
    StartBalance,
    MaxStack,    \* bound: buildings of one kind on one square
    MaxBalance   \* bound: coins beyond this are not counted

\* FruitResource .. MiningResource: price, population, sprite building
Resource == [
    Fruit  |-> [cost |-> 2, value |-> 1, sprite |-> "None"],
    Animal |-> [cost |-> 2, value |-> 1, sprite |-> "None"],
    Fish   |-> [cost |-> 2, value |-> 1, sprite |-> "None"],
    Forest |-> [cost |-> 3, value |-> 1, sprite |-> "ForestHouse"],
    Farm   |-> [cost |-> 5, value |-> 2, sprite |-> "Farming"],
    Mining |-> [cost |-> 5, value |-> 2, sprite |-> "Mining"]]

\* What TypeMatcher::getBuildByBuildingType makes, and its price.
BuildingCost == [
    Forge |-> 5, Mill |-> 5, LumberHat |-> 5, Market |-> 5, Temple |-> 20,
    WaterTemple |-> 20, MountainTemple |-> 20, ForestTemple |-> 20, Port |-> 7]

\* The sprite building each of the three workshops lives on.
Feed == [Forge |-> "Mining", Mill |-> "Farming", LumberHat |-> "ForestHouse"]

\* Buildings whose population is 1 whatever is near them.
Steady == {"Temple", "WaterTemple", "MountainTemple", "ForestTemple", "Port"}

ASSUME EconomyAssumption ==
    /\ IsFiniteSet(Cities) /\ IsFiniteSet(Squares) /\ "none" \notin Cities
    /\ Around \in [Cities -> SUBSET Squares]
    /\ Territory \in [Cities -> SUBSET Squares]
    /\ Near \in [Squares -> SUBSET Squares]
    /\ Resources \subseteq DOMAIN Resource
    /\ Kinds \subseteq DOMAIN BuildingCost
    /\ Learnable \subseteq TechNames
    /\ Modes \subseteq BOOLEAN
    /\ MaxBalance \in Nat /\ StartBalance \in 0 .. MaxBalance
    /\ MaxStack \in Nat \ {0}

NoCity == "none"
Sprites == {"Mining", "Farming", "ForestHouse"}
Building == [at : Squares, kind : Kinds \cup Sprites, n : 1 .. MaxStack]

VARIABLES
    balance,    \* Tribe::balance
    cities,     \* Tribe::cities
    city,       \* size, currentPopulation and basicEconomic of each city
    ownedBy,    \* the city a square belongs to: set with ownerTribeId
    resources,  \* Tile::resources
    buildings,  \* Tile::buildings, numbered within a square and kind
    known,      \* Tribe::knownTechs
    bought,     \* history: technologies paid for
    loaded      \* is this a game that was loaded, or the library?  See above

vars == <<balance, cities, city, ownedBy, resources, buildings, known, bought, loaded>>

-----------------------------------------------------------------------------
(* Cities                                                                  *)

\* Mutant of Grow: the surplus is kept whole.
GrowKeepingAll(ct, n) ==
    IF ct.pop + n >= ct.size
    THEN [size |-> ct.size + 1, pop |-> ct.pop + n, basic |-> ct.basic + 1]
    ELSE [ct EXCEPT !.pop = @ + n]

\* City::addPopulation
Grow(ct, n) ==
    IF ct.pop + n >= ct.size
    THEN [size |-> ct.size + 1, pop |-> (ct.pop + n) % (ct.size + 1),
          basic |-> ct.basic + 1]
    ELSE [ct EXCEPT !.pop = @ + n]

Of(bs, s, k) == {b \in bs : b.at = s /\ b.kind = k}

\* The pairs of a workshop near c and a sprite next to it that it lives on: a
\* workshop counts the eight squares around its own, never its own.
Fed(bs, c, k) ==
    {p \in bs \X bs : /\ p[1].kind = k /\ p[1].at \in Around[c]
                      /\ ownedBy[p[1].at] # NoCity
                      /\ p[2].kind = Feed[k] /\ p[2].at \in Near[p[1].at] \ {p[1].at}}

\* What the buildings around c add up to, on squares of the tribe, whichever city
\* claimed them; a forge counts each mine twice.
Total(bs, c) ==
    2 * Cardinality(Fed(bs, c, "Forge"))
    + Cardinality(Fed(bs, c, "Mill")) + Cardinality(Fed(bs, c, "LumberHat"))
    + Cardinality({b \in bs : b.kind \in Steady /\ b.at \in Around[c]
                              /\ ownedBy[b.at] # NoCity})

\* Mutant of Recalculated: the total is added to what is there.
RecalculatedOnTop(ct, total) == Grow(ct, total)

\* City::RecalculatePopulation: the total replaces whatever the city had, also
\* what it earned from resources.
Recalculated(ct, total) == Grow(ct, total - ct.pop)

\* Tribe::checkCities
CheckCities(bs) ==
    [c \in Cities |->
        IF c \in cities /\ ~ loaded THEN Recalculated(city[c], Total(bs, c)) ELSE city[c]]

\* Tribe::produceIncome over the cities as they are after checkCities; no building
\* yields coins of its own.
Income(cs) == Cardinality({p \in cities \X (1 .. MaxBalance) : p[2] <= cs[p[1]].basic})

\* City::getStartTerritory: it looks up (y, x) where recalculation looks up (x, y),
\* so what a city claims lies around the mirror image of its own square.  Generated
\* cities are three steps apart: no two claim the same square.
Claimed(c) ==
    [s \in Squares |-> IF s \in Territory[c] /\ ownedBy[s] = NoCity THEN c ELSE ownedBy[s]]

(* Technologies                                                            *)

FullCost(t) == 4 + Tech[t].tier + Tech[t].tier * Cardinality(cities)

Literate == \E t \in known : Tech[t].ability = "Literacy"

\* What learnTech compares the balance with; what it takes is FullCost.
AskedCost(t) == IF Literate THEN (FullCost(t) * 2) \div 3 ELSE FullCost(t)

\* Mutant of Affordable: the server asks for the price learnTech checks.
AffordableAsAsked(t) == AskedCost(t) <= balance

\* TribeRevealAction asks for the full price before it calls learnTech.
Affordable(t) == loaded => FullCost(t) <= balance

\* A pointer made for the request is never the one in knownTechs.
SeenBefore(t) == ~ loaded /\ t \in known

-----------------------------------------------------------------------------
Init ==
    /\ balance = StartBalance
    /\ cities = {}
    /\ city = [c \in Cities |-> [size |-> 1, pop |-> 0, basic |-> 0]]
    /\ ownedBy = [s \in Squares |-> NoCity]
    /\ resources \in [Squares -> SUBSET Resources]
    /\ buildings = {}
    /\ known \in {{StartTech[n]} : n \in DOMAIN StartTech} \cap SUBSET Learnable
    /\ bought = [t \in Learnable |-> 0]
    /\ loaded \in Modes

\* Tribe::addCity.  The server calls it once, when the tribe is selected.
AddCity(c) ==
    /\ c \notin cities
    /\ loaded => cities = {}
    /\ cities' = cities \cup {c}
    /\ ownedBy' = Claimed(c)
    /\ UNCHANGED <<balance, city, resources, buildings, known, bought, loaded>>

\* Tribe::collectResource when the square has the resource.  On the server the
\* price is all that lasts: save() deletes no row of resources, so the next
\* request finds the resource again, and no city is known to grow.
Collect(s, r) ==
    /\ ownedBy[s] # NoCity
    /\ r \in resources[s]
    /\ \E t \in known : Tech[t].resource = r
    /\ Resource[r].cost <= balance
    /\ balance' = balance - Resource[r].cost
    /\ IF loaded
       THEN UNCHANGED <<city, resources, buildings>>
       ELSE /\ resources' = [resources EXCEPT ![s] = @ \ {r}]
            /\ city' = [city EXCEPT ![ownedBy[s]] = Grow(@, Resource[r].value)]
            /\ buildings' =
                 IF Resource[r].sprite = "None" THEN buildings
                 ELSE buildings \cup {[at |-> s, kind |-> Resource[r].sprite, n |-> 1]}
    /\ UNCHANGED <<cities, ownedBy, known, bought, loaded>>

\* The square has resources but not r: the price is taken before the throw.
CollectMissing(s, r) ==
    /\ ~ loaded
    /\ ownedBy[s] # NoCity
    /\ resources[s] # {} /\ r \notin resources[s]
    /\ \E t \in known : Tech[t].resource = r
    /\ Resource[r].cost <= balance
    /\ balance' = balance - Resource[r].cost
    /\ UNCHANGED <<cities, city, ownedBy, resources, buildings, known, bought, loaded>>

\* assertNeccessaryConditions, for the kinds that look around; terrain is left out.
Conditions(s, k) ==
    IF k \in DOMAIN Feed
    THEN \E q \in Near[s] : Of(buildings, q, Feed[k]) # {}
    ELSE k = "Market" => \E q \in Near[s], w \in DOMAIN Feed : Of(buildings, q, w) # {}

\* Tribe::build; on a loaded game Tile::build follows the null ownedBy and the
\* process dies.
Build(s, k) ==
    LET b == [at |-> s, kind |-> k, n |-> Cardinality(Of(buildings, s, k)) + 1] IN
    /\ ~ loaded
    /\ ownedBy[s] # NoCity
    /\ \E t \in known : Grants(t, k)
    /\ BuildingCost[k] <= balance
    /\ Conditions(s, k)
    /\ b.n <= MaxStack
    /\ balance' = balance - BuildingCost[k]
    /\ buildings' = buildings \cup {b}
    /\ city' = CheckCities(buildings')
    /\ UNCHANGED <<cities, ownedBy, resources, known, bought, loaded>>

\* Tribe::learnTech, through TribeRevealAction when loaded.
Learn(t) ==
    /\ ~ SeenBefore(t)
    /\ Affordable(t)
    /\ AskedCost(t) <= balance
    /\ balance' = balance - FullCost(t)
    /\ known' = known \cup {t}
    /\ bought' = [bought EXCEPT ![t] = @ + 1]
    /\ UNCHANGED <<cities, city, ownedBy, resources, buildings, loaded>>

\* Tribe::recruitUnit, its price; the unit itself is on the Board.
Recruit(price) ==
    /\ cities # {}
    /\ price <= balance
    /\ balance' = balance - price
    /\ UNCHANGED <<cities, city, ownedBy, resources, buildings, known, bought, loaded>>

\* Tribe::endTurn
EndTurn ==
    /\ city' = CheckCities(buildings)
    /\ LET gained == balance + Income(city')
       IN  balance' = IF gained > MaxBalance THEN MaxBalance ELSE gained
    /\ UNCHANGED <<cities, ownedBy, resources, buildings, known, bought, loaded>>

Next ==
    \/ \E c \in Cities : AddCity(c)
    \/ \E s \in Squares, r \in Resources : Collect(s, r) \/ CollectMissing(s, r)
    \/ \E s \in Squares, k \in Kinds : Build(s, k)
    \/ \E t \in Learnable : Learn(t)
    \/ \E price \in {2, 3, 5, 8} : Recruit(price)
    \/ EndTurn

Spec == Init /\ [][Next]_vars

\* The players of a game end their turns.
FairSpec == Spec /\ WF_vars(EndTurn)

-----------------------------------------------------------------------------
(* Properties                                                              *)

\* Every field holds a value of its kind.
TypeOK ==
    /\ balance \in Int /\ balance <= MaxBalance
    /\ cities \in SUBSET Cities
    /\ city \in [Cities -> [size : Nat \ {0}, pop : Nat, basic : Nat]]
    /\ ownedBy \in [Squares -> Cities \cup {NoCity}]
    /\ resources \in [Squares -> SUBSET Resources]
    /\ buildings \in SUBSET Building
    /\ known \in SUBSET Learnable
    /\ bought \in [Learnable -> Nat]
    /\ loaded \in Modes

\* Whatever is added, replaced or taken away, a city's population stays below its
\* size: addPopulation keeps a remainder by the new size, recalculation may add a
\* negative difference, and the total of the buildings may jump far beyond the
\* size in one step.
PopulationBelowSize ==
    \A c \in Cities : 0 <= city[c].pop /\ city[c].pop < city[c].size

\* A city earns one coin for each step it has grown, whether resources, buildings
\* or the end of a turn made it grow.
IncomeIsGrowth == \A c \in Cities : city[c].basic = city[c].size - 1

\* Resources, buildings, recalculation and turns leave every city of a size, a
\* population and an income that belong together.
CitiesGrowSoundly == PopulationBelowSize /\ IncomeIsGrowth

\* In the library a balance can become negative: learnTech compares it with the
\* price for literate tribes and takes the full price.  The debt is at most the
\* discount on one technology, a third of its price, because a tribe in debt can
\* buy nothing.
DebtIsOneDiscount ==
    balance < 0 => Literate /\ \E t \in known : 3 * balance + FullCost(t) + 2 >= 0

\* On the server it cannot: load() teaches the tribe its technologies again, each
\* for its price, and throws when the balance does not cover the price asked;
\* nothing catches that, so a tribe in debt would stop the server at every request.
LoadedTribeIsSolvent == loaded => balance >= 0

\* What learnTech takes beyond what it asks for never adds up: no debt on the
\* server, and at most one discount in the library.
NoDebtPilesUp == DebtIsOneDiscount /\ LoadedTribeIsSolvent

\* Cities stop growing once nothing is built or collected: the turns bring every
\* city of the tribe to a size above the total of its buildings, with exactly
\* that total as its population.
CitiesSettle ==
    \A c \in Cities :
        <>[](c \in cities => city[c].pop = Total(buildings, c)
                             /\ city[c].size > Total(buildings, c))

\* learnTech throws "Technology already learned" (Tribe.cpp:49): a tribe pays for
\* a technology once, and never for the one it starts with.
PaidOnce == \A t \in Learnable : bought[t] <= 1
=============================================================================

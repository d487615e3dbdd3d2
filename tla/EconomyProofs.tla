--------------------------- MODULE EconomyProofs ---------------------------
(***************************************************************************)
(* Type correctness, population below size, income equal to growth and the *)
(* bound on debt, for every map, every set of technologies and both kinds  *)
(* of game.  TypeOK is inductive; every other invariant needs it only to   *)
(* know that prices, totals and incomes are natural numbers.               *)
(***************************************************************************)
EXTENDS Economy, FiniteSetTheorems, FunctionTheorems, TLAPS

-----------------------------------------------------------------------------
(* Prices and totals are numbers                                           *)

\* Every technology has tier 1, 2 or 3.
LEMMA Tiers == \A t \in TechNames : Tech[t].tier \in 1 .. 3
<1> SUFFICES ASSUME NEW t \in TechNames PROVE Tech[t].tier \in 1 .. 3
  OBVIOUS
<1>1. CASE t \in DOMAIN FirstTier
  <2>1. FirstTier[t].tier = 1
    BY <1>1 DEF FirstTier, Gives
  <2> QED BY <2>1, <1>1 DEF Tech
<1>2. CASE t \notin DOMAIN FirstTier /\ t \in DOMAIN SecondTier
  <2>1. SecondTier[t].tier = 2
    BY <1>2 DEF SecondTier, Gives
  <2> QED BY <2>1, <1>2 DEF Tech
<1>3. CASE t \notin DOMAIN FirstTier /\ t \notin DOMAIN SecondTier
  <2>0. t \in DOMAIN ThirdTier
    BY <1>3 DEF TechNames
  <2>1. ThirdTier[t].tier = 3
    BY <2>0 DEF ThirdTier, Gives
  <2> QED BY <2>1, <1>3 DEF Tech
<1> QED BY <1>1, <1>2, <1>3

\* Resources cost something and feed at least one inhabitant.
LEMMA ResourceValues ==
    \A r \in Resources : /\ Resource[r].cost \in Nat /\ Resource[r].value \in Nat
                         /\ Resource[r].sprite \in Sprites \cup {"None"}
BY EconomyAssumption DEF Resource, Sprites

LEMMA BuildingCosts == \A k \in Kinds : BuildingCost[k] \in Nat
BY EconomyAssumption DEF BuildingCost

LEMMA ThreeFinite == \A x, y, z : IsFiniteSet({x, y, z})
<1> SUFFICES ASSUME NEW x, NEW y, NEW z PROVE IsFiniteSet({x, y, z})
  OBVIOUS
<1>1. IsFiniteSet({x}) /\ IsFiniteSet({y}) /\ IsFiniteSet({z})
  BY FS_Singleton
<1>2. IsFiniteSet({x} \cup {y})
  BY <1>1, FS_Union
<1>3. IsFiniteSet(({x} \cup {y}) \cup {z})
  BY <1>1, <1>2, FS_Union
<1>4. {x, y, z} = ({x} \cup {y}) \cup {z}
  OBVIOUS
<1> QED BY <1>3, <1>4

\* A set of buildings is finite.
LEMMA BuildingsFinite ==
    ASSUME NEW bs \in SUBSET Building PROVE IsFiniteSet(bs)
<1> DEFINE K == Kinds \cup Sprites
           F == (Squares \X K) \X (1 .. MaxStack)
           f == [b \in bs |-> <<<<b.at, b.kind>>, b.n>>]
<1>1. IsFiniteSet(K)
  <2>1. IsFiniteSet(DOMAIN BuildingCost)
    <3>1. DOMAIN BuildingCost =
            ({"Forge", "Mill", "LumberHat"} \cup {"Market", "Temple", "WaterTemple"})
            \cup {"MountainTemple", "ForestTemple", "Port"}
      BY DEF BuildingCost
    <3>2. IsFiniteSet({"Forge", "Mill", "LumberHat"} \cup {"Market", "Temple", "WaterTemple"})
      BY ThreeFinite, FS_Union
    <3>3. IsFiniteSet({"MountainTemple", "ForestTemple", "Port"})
      BY ThreeFinite
    <3>4. IsFiniteSet(({"Forge", "Mill", "LumberHat"} \cup {"Market", "Temple", "WaterTemple"})
                      \cup {"MountainTemple", "ForestTemple", "Port"})
      BY <3>2, <3>3, FS_Union
    <3> QED BY <3>1, <3>4, Zenon
  <2>2. IsFiniteSet(Kinds)
    BY <2>1, EconomyAssumption, FS_Subset
  <2>3. IsFiniteSet(Sprites)
    BY ThreeFinite DEF Sprites
  <2> QED BY <2>2, <2>3, FS_Union
<1>2. IsFiniteSet(F)
  <2>1. IsFiniteSet(Squares \X K)
    BY <1>1, EconomyAssumption, FS_Product
  <2>2. IsFiniteSet(1 .. MaxStack)
    BY EconomyAssumption, FS_Interval
  <2> QED BY <2>1, <2>2, FS_Product
<1>3. f \in Injection(bs, F)
  <2>1. \A x \in bs : /\ x.at \in Squares /\ x.kind \in K /\ x.n \in 1 .. MaxStack
                     /\ x = [at |-> x.at, kind |-> x.kind, n |-> x.n]
    BY DEF Building
  <2>2. f \in [bs -> F]
    BY <2>1
  <2>3. ASSUME NEW x \in bs, NEW y \in bs, f[x] = f[y] PROVE x = y
    <3>1. x.at = y.at /\ x.kind = y.kind /\ x.n = y.n
      BY <2>3
    <3> QED BY <3>1, <2>1
  <2> HIDE DEF f, F
  <2> QED BY <2>2, <2>3, Fun_IsInj
<1> HIDE DEF F, f
<1> QED BY <1>2, <1>3, FS_Injection

\* What the buildings around a city add up to is never negative.
LEMMA TotalIsNat ==
    ASSUME NEW bs \in SUBSET Building, NEW c PROVE Total(bs, c) \in Nat
<1>1. IsFiniteSet(bs)
  BY BuildingsFinite
<1>2. \A k : Cardinality(Fed(bs, c, k)) \in Nat
  <2> SUFFICES ASSUME NEW k PROVE Cardinality(Fed(bs, c, k)) \in Nat
    OBVIOUS
  <2>1. IsFiniteSet(bs \X bs)
    BY <1>1, FS_Product
  <2>2. Fed(bs, c, k) \subseteq bs \X bs
    BY DEF Fed
  <2> QED BY <2>1, <2>2, FS_Subset, FS_CardinalityType
<1>3. Cardinality({b \in bs : b.kind \in Steady /\ b.at \in Around[c]
                              /\ ownedBy[b.at] # NoCity}) \in Nat
  BY <1>1, FS_Subset, FS_CardinalityType
<1> QED BY <1>2, <1>3 DEF Total

LEMMA IncomeIsNat ==
    ASSUME NEW cs, cities \in SUBSET Cities PROVE Income(cs) \in Nat
<1>1. IsFiniteSet(cities) /\ IsFiniteSet(1 .. MaxBalance)
  BY EconomyAssumption, FS_Subset, FS_Interval
<1>2. IsFiniteSet(cities \X (1 .. MaxBalance))
  BY <1>1, FS_Product
<1> QED BY <1>2, FS_Subset, FS_CardinalityType DEF Income

LEMMA FullCostIsNat ==
    ASSUME cities \in SUBSET Cities, NEW t \in TechNames PROVE FullCost(t) \in Nat
<1>1. Cardinality(cities) \in Nat
  BY EconomyAssumption, FS_Subset, FS_CardinalityType
<1>2. Tech[t].tier \in 1 .. 3
  BY Tiers
<1>3. Tech[t].tier * Cardinality(cities) \in Nat
  BY <1>1, <1>2
<1> QED BY <1>2, <1>3 DEF FullCost

\* The discount: what is asked is at most the full price, and by less than a third
\* of it.
LEMMA Discount ==
    ASSUME cities \in SUBSET Cities, NEW t \in TechNames
    PROVE  /\ AskedCost(t) \in Nat
           /\ AskedCost(t) < FullCost(t) => Literate
           /\ 3 * AskedCost(t) + 2 >= 2 * FullCost(t)
<1>1. FullCost(t) \in Nat
  BY FullCostIsNat
<1>2. CASE Literate
  <2>1. AskedCost(t) = (FullCost(t) * 2) \div 3
    BY <1>2 DEF AskedCost
  <2> HIDE DEF FullCost
  <2> QED BY <1>1, <1>2, <2>1
<1>3. CASE ~ Literate
  <2>1. AskedCost(t) = FullCost(t)
    BY <1>3 DEF AskedCost
  <2> QED BY <1>1, <2>1
<1> QED BY <1>2, <1>3

-----------------------------------------------------------------------------
(* Cities                                                                  *)

CityRec == [size : Nat \ {0}, pop : Nat, basic : Nat]

\* The two facts about a city that every growth preserves.
Sound(ct) == ct.pop < ct.size /\ ct.basic = ct.size - 1

\* addPopulation, given any change that does not take the population below zero.
LEMMA GrowIsSound ==
    ASSUME NEW ct \in CityRec, NEW n \in Int, ct.pop + n >= 0
    PROVE  /\ Grow(ct, n) \in CityRec
           /\ Sound(ct) => Sound(Grow(ct, n))
<1>1. /\ ct.size \in Nat \ {0} /\ ct.pop \in Nat /\ ct.basic \in Nat
      /\ ct = [size |-> ct.size, pop |-> ct.pop, basic |-> ct.basic]
  BY DEF CityRec
<1>2. CASE ct.pop + n >= ct.size
  <2>1. Grow(ct, n) = [size |-> ct.size + 1, pop |-> (ct.pop + n) % (ct.size + 1),
                       basic |-> ct.basic + 1]
    BY <1>2 DEF Grow
  <2>2. (ct.pop + n) % (ct.size + 1) \in 0 .. ct.size
    BY <1>1
  <2> QED BY <1>1, <2>1, <2>2 DEF Sound, CityRec
<1>3. CASE ~ (ct.pop + n >= ct.size)
  <2>1. Grow(ct, n) = [ct EXCEPT !.pop = @ + n]
    BY <1>3 DEF Grow
  <2>2. Grow(ct, n) = [size |-> ct.size, pop |-> ct.pop + n, basic |-> ct.basic]
    BY <1>1, <2>1
  <2> QED BY <1>1, <1>3, <2>2 DEF Sound, CityRec
<1> QED BY <1>2, <1>3

\* checkCities after any building: the totals replace the populations.
LEMMA CheckCitiesIsSound ==
    ASSUME city \in [Cities -> CityRec], NEW bs \in SUBSET Building
    PROVE  /\ CheckCities(bs) \in [Cities -> CityRec]
           /\ (\A c \in Cities : Sound(city[c])) => \A c \in Cities : Sound(CheckCities(bs)[c])
<1>1. ASSUME NEW c \in Cities
      PROVE  /\ CheckCities(bs)[c] \in CityRec
             /\ Sound(city[c]) => Sound(CheckCities(bs)[c])
  <2>1. CASE c \in cities /\ ~ loaded
    <3> DEFINE n == Total(bs, c) - city[c].pop
    <3>1. CheckCities(bs)[c] = Grow(city[c], n)
      BY <2>1 DEF CheckCities, Recalculated
    <3>2. city[c] \in CityRec /\ city[c].pop \in Nat
      BY DEF CityRec
    <3>3. Total(bs, c) \in Nat
      BY TotalIsNat
    <3>4. n \in Int /\ city[c].pop + n >= 0
      BY <3>2, <3>3
    <3> HIDE DEF n
    <3> QED BY <3>1, <3>2, <3>4, GrowIsSound
  <2>2. CASE ~ (c \in cities /\ ~ loaded)
    <3>1. CheckCities(bs)[c] = city[c]
      BY <2>2 DEF CheckCities
    <3> QED BY <3>1
  <2> QED BY <2>1, <2>2
<1>2. CheckCities(bs) \in [Cities -> CityRec]
  <2>1. CheckCities(bs) = [c \in Cities |-> CheckCities(bs)[c]]
    BY DEF CheckCities
  <2> QED BY <1>1, <2>1, Zenon
<1> QED BY <1>1, <1>2

-----------------------------------------------------------------------------
(* Type correctness                                                        *)

LEMMA TypeInit == Init => TypeOK
<1> SUFFICES ASSUME Init PROVE TypeOK
  OBVIOUS
<1>1. balance \in Int /\ balance <= MaxBalance
  BY EconomyAssumption DEF Init
<1> QED BY <1>1 DEF Init, TypeOK

LEMMA TypeStep == TypeOK /\ [Next]_vars => TypeOK'
<1> SUFFICES ASSUME TypeOK, [Next]_vars PROVE TypeOK'
  OBVIOUS
<1> USE EconomyAssumption
<1>0. /\ city \in [Cities -> CityRec] /\ cities \in SUBSET Cities
      /\ buildings \in SUBSET Building
      /\ balance \in Int /\ MaxBalance \in Nat /\ balance <= MaxBalance
  BY DEF TypeOK, CityRec
<1>1. ASSUME NEW c \in Cities, AddCity(c) PROVE TypeOK'
  <2>1. ownedBy' \in [Squares -> Cities \cup {NoCity}]
    BY <1>1 DEF AddCity, Claimed, TypeOK
  <2> QED BY <1>1, <2>1 DEF AddCity, TypeOK
<1>2. ASSUME NEW s \in Squares, NEW r \in Resources, Collect(s, r) PROVE TypeOK'
  <2>1. balance' \in Int /\ balance' <= MaxBalance
    BY <1>0, <1>2, ResourceValues DEF Collect
  <2>2. resources' \in [Squares -> SUBSET Resources]
    BY <1>2 DEF Collect, TypeOK
  <2>3. city' \in [Cities -> CityRec]
    <3>1. CASE loaded
      BY <1>0, <1>2, <3>1 DEF Collect
    <3>2. CASE ~ loaded
      <4>1. ownedBy[s] \in Cities
        BY <1>2 DEF Collect, TypeOK
      <4>2. Grow(city[ownedBy[s]], Resource[r].value) \in CityRec
        <5>1. city[ownedBy[s]] \in CityRec /\ city[ownedBy[s]].pop \in Nat
          BY <1>0, <4>1 DEF CityRec
        <5>2. Resource[r].value \in Nat
          BY ResourceValues
        <5> QED BY <5>1, <5>2, GrowIsSound
      <4>3. city' = [city EXCEPT ![ownedBy[s]] =
                       Grow(city[ownedBy[s]], Resource[r].value)]
        BY <1>2, <3>2 DEF Collect
      <4> QED BY <1>0, <4>1, <4>2, <4>3
    <3> QED BY <3>1, <3>2
  <2>4. buildings' \in SUBSET Building
    <3>1. Resource[r].sprite = "None" \/ Resource[r].sprite \in Sprites
      BY ResourceValues
    <3>2. 1 \in 1 .. MaxStack
      OBVIOUS
    <3>3. Resource[r].sprite \in Sprites =>
            [at |-> s, kind |-> Resource[r].sprite, n |-> 1] \in Building
      BY <3>2 DEF Building
    <3> QED BY <1>0, <1>2, <3>1, <3>3 DEF Collect
  <2> QED BY <1>2, <2>1, <2>2, <2>3, <2>4 DEF Collect, TypeOK, CityRec
<1>3. ASSUME NEW s \in Squares, NEW r \in Resources, CollectMissing(s, r) PROVE TypeOK'
  <2>1. balance' \in Int /\ balance' <= MaxBalance
    BY <1>0, <1>3, ResourceValues DEF CollectMissing
  <2> QED BY <1>3, <2>1 DEF CollectMissing, TypeOK
<1>4. ASSUME NEW s \in Squares, NEW k \in Kinds, Build(s, k) PROVE TypeOK'
  <2>1. balance' \in Int /\ balance' <= MaxBalance
    BY <1>0, <1>4, BuildingCosts DEF Build
  <2>2. buildings' \in SUBSET Building
    <3> DEFINE n == Cardinality(Of(buildings, s, k)) + 1
    <3>1. n \in Nat /\ n >= 1
      <4>1. IsFiniteSet(Of(buildings, s, k))
        BY <1>0, BuildingsFinite, FS_Subset DEF Of
      <4> QED BY <4>1, FS_CardinalityType
    <3>2. n <= MaxStack /\ buildings' = buildings \cup {[at |-> s, kind |-> k, n |-> n]}
      BY <1>4 DEF Build
    <3> HIDE DEF n
    <3>3. [at |-> s, kind |-> k, n |-> n] \in Building
      BY <3>1, <3>2 DEF Building
    <3> QED BY <1>0, <3>2, <3>3
  <2>3. city' = CheckCities(buildings')
    BY <1>4 DEF Build
  <2>4. city' \in [Cities -> CityRec]
    BY <1>0, <2>2, <2>3, CheckCitiesIsSound
  <2> QED BY <1>4, <2>1, <2>2, <2>4 DEF Build, TypeOK, CityRec
<1>5. ASSUME NEW t \in Learnable, Learn(t) PROVE TypeOK'
  <2>1. FullCost(t) \in Nat
    BY <1>0, FullCostIsNat
  <2>2. balance' \in Int /\ balance' <= MaxBalance
    BY <1>0, <1>5, <2>1 DEF Learn
  <2> QED BY <1>5, <2>2 DEF Learn, TypeOK
<1>6. ASSUME NEW price \in {2, 3, 5, 8}, Recruit(price) PROVE TypeOK'
  BY <1>0, <1>6 DEF Recruit, TypeOK
<1>7. ASSUME EndTurn PROVE TypeOK'
  <2>1. city' \in [Cities -> CityRec]
    BY <1>0, <1>7, CheckCitiesIsSound DEF EndTurn
  <2>2. Income(city') \in Nat
    BY <1>0, IncomeIsNat
  <2>3. balance' \in Int /\ balance' <= MaxBalance
    BY <1>0, <1>7, <2>2 DEF EndTurn
  <2> QED BY <1>7, <2>1, <2>3 DEF EndTurn, TypeOK, CityRec
<1>8. CASE UNCHANGED vars
  BY <1>8 DEF vars, TypeOK
<1> QED BY <1>1, <1>2, <1>3, <1>4, <1>5, <1>6, <1>7, <1>8 DEF Next

\* Every reachable state is typed: in particular no city's population is ever
\* negative, whatever the buildings around it add up to.
THEOREM TypeCorrect == Spec => []TypeOK
BY TypeInit, TypeStep, PTL DEF Spec

-----------------------------------------------------------------------------
(* Growth                                                                  *)

AllSound == \A c \in Cities : Sound(city[c])

LEMMA SoundStep == TypeOK /\ AllSound /\ [Next]_vars => AllSound'
<1> SUFFICES ASSUME TypeOK, AllSound, [Next]_vars PROVE AllSound'
  OBVIOUS
<1>0. /\ city \in [Cities -> CityRec] /\ cities \in SUBSET Cities
      /\ buildings \in SUBSET Building
  BY DEF TypeOK, CityRec
<1>1. buildings' \in SUBSET Building
  BY TypeStep DEF TypeOK
<1>2. CASE UNCHANGED city
  BY <1>2 DEF AllSound
<1>3. ASSUME NEW s \in Squares, NEW r \in Resources, Collect(s, r) PROVE AllSound'
  <2>1. CASE UNCHANGED city
    BY <2>1 DEF AllSound
  <2>2. CASE ~ loaded
    <3>1. ownedBy[s] \in Cities
      BY <1>3 DEF Collect, TypeOK
    <3>2. city[ownedBy[s]] \in CityRec /\ city[ownedBy[s]].pop \in Nat
      BY <1>0, <3>1 DEF CityRec
    <3>3. Sound(Grow(city[ownedBy[s]], Resource[r].value))
      <4>1. Resource[r].value \in Nat
        BY ResourceValues
      <4> QED BY <3>1, <3>2, <4>1, GrowIsSound DEF AllSound
    <3>4. city' = [city EXCEPT ![ownedBy[s]] =
                     Grow(city[ownedBy[s]], Resource[r].value)]
      BY <1>3, <2>2 DEF Collect
    <3>5. ASSUME NEW c \in Cities PROVE Sound(city'[c])
      <4>1. CASE c = ownedBy[s]
        BY <1>0, <3>3, <3>4, <4>1
      <4>2. CASE c # ownedBy[s]
        <5>1. city'[c] = city[c]
          BY <1>0, <3>4, <4>2
        <5> QED BY <5>1 DEF AllSound
      <4> QED BY <4>1, <4>2
    <3> QED BY <3>5 DEF AllSound
  <2> QED BY <1>3, <2>1, <2>2 DEF Collect
<1>4. ASSUME NEW bs \in SUBSET Building, city' = CheckCities(bs) PROVE AllSound'
  BY <1>0, <1>4, CheckCitiesIsSound DEF AllSound
<1>5. ASSUME NEW s \in Squares, NEW k \in Kinds, Build(s, k) PROVE AllSound'
  BY <1>1, <1>4, <1>5 DEF Build
<1>6. ASSUME EndTurn PROVE AllSound'
  BY <1>0, <1>4, <1>6 DEF EndTurn
<1> QED BY <1>2, <1>3, <1>5, <1>6
       DEF Next, AddCity, CollectMissing, Learn, Recruit, vars

LEMMA SoundAlways == Spec => []AllSound
<1>1. Init => AllSound
  BY DEF Init, AllSound, Sound
<1> QED BY <1>1, TypeCorrect, SoundStep, PTL DEF Spec

\* A city's population is never negative and always below its size, whatever is
\* collected, built or counted again.
THEOREM PopulationStaysBelowSize == Spec => []PopulationBelowSize
<1>1. TypeOK /\ AllSound => PopulationBelowSize
  BY DEF TypeOK, AllSound, Sound, PopulationBelowSize
<1> QED BY <1>1, TypeCorrect, SoundAlways, PTL

\* A city earns one coin a turn for every step it has grown.
THEOREM IncomeFollowsGrowth == Spec => []IncomeIsGrowth
<1>1. AllSound => IncomeIsGrowth
  BY DEF AllSound, Sound, IncomeIsGrowth
<1> QED BY <1>1, SoundAlways, PTL

\* A city's size, population and income belong together, whatever makes it grow.
THEOREM CitiesStaySound == Spec => []CitiesGrowSoundly
<1>1. PopulationBelowSize /\ IncomeIsGrowth => CitiesGrowSoundly
  BY DEF CitiesGrowSoundly
<1> QED BY <1>1, PopulationStaysBelowSize, IncomeFollowsGrowth, PTL

-----------------------------------------------------------------------------
(* Debt                                                                    *)

\* Nothing but a technology can take a balance below zero, and income never
\* lowers it.
LEMMA OtherPrices ==
    TypeOK /\ [Next]_vars =>
        \/ balance' >= 0
        \/ balance' >= balance /\ known' = known /\ cities \subseteq cities'
        \/ \E t \in Learnable : Learn(t)
<1> SUFFICES ASSUME TypeOK, [Next]_vars, ~ \E t \in Learnable : Learn(t)
             PROVE  \/ balance' >= 0
                    \/ balance' >= balance /\ known' = known /\ cities \subseteq cities'
  OBVIOUS
<1>0. balance \in Int /\ MaxBalance \in Nat /\ cities \in SUBSET Cities
  BY EconomyAssumption DEF TypeOK
<1>1. ASSUME NEW c \in Cities, AddCity(c) PROVE balance' = balance /\ cities \subseteq cities'
  BY <1>1 DEF AddCity
<1>2. ASSUME NEW s \in Squares, NEW r \in Resources, Collect(s, r) \/ CollectMissing(s, r)
      PROVE  balance' >= 0
  BY <1>0, <1>2, ResourceValues DEF Collect, CollectMissing
<1>3. ASSUME NEW s \in Squares, NEW k \in Kinds, Build(s, k) PROVE balance' >= 0
  BY <1>0, <1>3, BuildingCosts DEF Build
<1>4. ASSUME NEW price \in {2, 3, 5, 8}, Recruit(price) PROVE balance' >= 0
  BY <1>0, <1>4 DEF Recruit
<1>5. ASSUME EndTurn PROVE balance' >= 0 \/ balance' >= balance
  <2>1. Income(city') \in Nat
    BY <1>0, IncomeIsNat
  <2> QED BY <1>0, <1>5, <2>1 DEF EndTurn
<1> QED BY <1>0, <1>1, <1>2, <1>3, <1>4, <1>5 DEF Next, AddCity, EndTurn, vars

\* On the server no tribe is ever in debt: the reveal handler asks for the full
\* price, and every other price is checked as it is taken.
THEOREM LoadedSolvency == Spec => []LoadedTribeIsSolvent
<1>1. Init => LoadedTribeIsSolvent
  BY EconomyAssumption DEF Init, LoadedTribeIsSolvent
<1>2. TypeOK /\ LoadedTribeIsSolvent /\ [Next]_vars => LoadedTribeIsSolvent'
  <2>0. [Next]_vars => loaded' = loaded
    BY DEF Next, vars, AddCity, Collect, CollectMissing, Build, Learn, Recruit, EndTurn
  <2> SUFFICES ASSUME TypeOK, loaded, balance >= 0, [Next]_vars PROVE balance' >= 0
    BY <2>0 DEF LoadedTribeIsSolvent
  <2>1. ASSUME NEW t \in Learnable, Learn(t) PROVE balance' >= 0
    <3>1. FullCost(t) \in Nat
      BY EconomyAssumption, FullCostIsNat DEF TypeOK
    <3> QED BY <2>1, <3>1 DEF Learn, Affordable, TypeOK
  <2>2. balance \in Int /\ balance' \in Int
    BY TypeStep DEF TypeOK
  <2> QED BY <2>1, <2>2, OtherPrices
<1> QED BY <1>1, <1>2, TypeCorrect, PTL DEF Spec

\* In the library a debt is at most a third of the price of one technology the
\* tribe knows, rounded up, and only a literate tribe has one.
THEOREM DebtIsBounded == Spec => []DebtIsOneDiscount
<1>1. Init => DebtIsOneDiscount
  BY EconomyAssumption DEF Init, DebtIsOneDiscount
<1>2. TypeOK /\ DebtIsOneDiscount /\ [Next]_vars => DebtIsOneDiscount'
  <2> SUFFICES ASSUME TypeOK, DebtIsOneDiscount, [Next]_vars, balance' < 0
               PROVE  Literate' /\ \E t \in known' : 3 * balance' + (FullCost(t))' + 2 >= 0
    BY DEF DebtIsOneDiscount
  <2> USE EconomyAssumption
  <2>0. /\ balance \in Int /\ balance' \in Int
        /\ cities \in SUBSET Cities /\ cities' \in SUBSET Cities /\ known \in SUBSET TechNames
    BY TypeStep DEF TypeOK
  <2>1. ASSUME NEW t \in Learnable, Learn(t)
        PROVE  Literate' /\ \E u \in known' : 3 * balance' + (FullCost(u))' + 2 >= 0
    <3>1. /\ FullCost(t) \in Nat /\ AskedCost(t) \in Nat
          /\ AskedCost(t) < FullCost(t) => Literate
          /\ 3 * AskedCost(t) + 2 >= 2 * FullCost(t)
      BY <2>0, FullCostIsNat, Discount
    <3>2. /\ AskedCost(t) <= balance /\ balance' = balance - FullCost(t)
          /\ known' = known \cup {t} /\ cities' = cities
      BY <2>1 DEF Learn
    <3>3. Literate
      BY <2>0, <3>1, <3>2
    <3>4. 3 * balance' + FullCost(t) + 2 >= 0
      BY <2>0, <3>1, <3>2
    <3>5. (FullCost(t))' = FullCost(t)
      BY <3>2 DEF FullCost
    <3>6. t \in known' /\ Literate'
      BY <3>2, <3>3 DEF Literate
    <3> QED BY <3>4, <3>5, <3>6
  <2>2. ASSUME balance' >= balance, known' = known, cities \subseteq cities'
        PROVE  Literate' /\ \E t \in known' : 3 * balance' + (FullCost(t))' + 2 >= 0
    <3>1. balance < 0
      BY <2>0, <2>2
    <3>2. PICK t \in known : 3 * balance + FullCost(t) + 2 >= 0
      BY <3>1 DEF DebtIsOneDiscount
    <3>3. Literate'
      BY <3>1, <2>2 DEF DebtIsOneDiscount, Literate
    <3>4. Tech[t].tier \in 1 .. 3
      BY <2>0, Tiers
    <3>5. FullCost(t) <= (FullCost(t))' /\ FullCost(t) \in Nat /\ (FullCost(t))' \in Nat
      <4> DEFINE n == Cardinality(cities)
                 m == Cardinality(cities')
      <4>1. n \in Nat /\ m \in Nat /\ n <= m
        BY <2>0, <2>2, FS_Subset, FS_CardinalityType
      <4>2. FullCost(t) = 4 + Tech[t].tier + Tech[t].tier * n
        BY DEF FullCost
      <4>3. (FullCost(t))' = 4 + Tech[t].tier + Tech[t].tier * m
        BY DEF FullCost
      <4> HIDE DEF n, m
      <4>4. ASSUME NEW k \in 1 .. 3 PROVE k * n <= k * m /\ k * n \in Nat /\ k * m \in Nat
        <5>1. CASE k = 1
          BY <4>1, <5>1
        <5>2. CASE k = 2
          BY <4>1, <5>2
        <5>3. CASE k = 3
          BY <4>1, <5>3
        <5> QED BY <5>1, <5>2, <5>3
      <4> QED BY <3>4, <4>2, <4>3, <4>4
    <3>6. 3 * balance' + (FullCost(t))' + 2 >= 0
      BY <2>0, <2>2, <3>2, <3>5
    <3> QED BY <2>2, <3>3, <3>6
  <2> QED BY <2>0, <2>1, <2>2, OtherPrices
<1> QED BY <1>1, <1>2, TypeCorrect, PTL DEF Spec

\* Debt does not pile up, for any map, prices and order of operations.
THEOREM DebtNeverPilesUp == Spec => []NoDebtPilesUp
<1>1. DebtIsOneDiscount /\ LoadedTribeIsSolvent => NoDebtPilesUp
  BY DEF NoDebtPilesUp
<1> QED BY <1>1, DebtIsBounded, LoadedSolvency, PTL
-----------------------------------------------------------------------------
(* Cities come to rest                                                     *)

\* No building is stored on the server and nothing there makes a city grow.
LoadedIsBare ==
    loaded => buildings = {} /\ \A c \in Cities : city[c].pop = 0 /\ city[c].size = 1

LEMMA BareStep == LoadedIsBare /\ [Next]_vars => LoadedIsBare'
<1> SUFFICES ASSUME LoadedIsBare, [Next]_vars, loaded' PROVE LoadedIsBare'
  BY DEF LoadedIsBare
<1>1. loaded
  BY DEF Next, vars, AddCity, Collect, CollectMissing, Build, Learn, Recruit, EndTurn
<1>2. ASSUME EndTurn PROVE \A c \in Cities : city'[c] = city[c]
  BY <1>1, <1>2 DEF EndTurn, CheckCities
<1>3. buildings' = buildings /\ \A c \in Cities : city'[c] = city[c]
  BY <1>1, <1>2 DEF Next, vars, AddCity, Collect, CollectMissing, Build, Learn, Recruit, EndTurn
<1> QED BY <1>1, <1>3 DEF LoadedIsBare

LEMMA NothingTotals == \A c \in Cities : Total({}, c) = 0
<1> SUFFICES ASSUME NEW c \in Cities PROVE Total({}, c) = 0
  OBVIOUS
<1>1. \A k : Fed({}, c, k) = {}
  BY DEF Fed
<1>2. {b \in {} : b.kind \in Steady /\ b.at \in Around[c] /\ ownedBy[b.at] # NoCity} = {}
  OBVIOUS
<1> QED BY <1>1, <1>2, FS_EmptySet DEF Total

\* Nothing takes a size back: neither resources nor a recalculation, also one that
\* lowers the population.
LEMMA SizesOnlyGrow ==
    TypeOK /\ [Next]_vars => \A c \in Cities : city'[c].size >= city[c].size
<1> SUFFICES ASSUME TypeOK, [Next]_vars, NEW c \in Cities
             PROVE  city'[c].size >= city[c].size
  OBVIOUS
<1>0. city \in [Cities -> CityRec] /\ city[c] \in CityRec /\ city[c].size \in Nat
  BY DEF TypeOK, CityRec
<1>1. \A n : Grow(city[c], n).size \in {city[c].size, city[c].size + 1}
  BY <1>0 DEF Grow, CityRec
<1>2. CASE city'[c] = city[c]
  BY <1>0, <1>2
<1>3. ASSUME NEW n, city'[c] = Grow(city[c], n) PROVE city'[c].size >= city[c].size
  BY <1>0, <1>1, <1>3
<1>4. ASSUME NEW bs, city' = CheckCities(bs) PROVE city'[c].size >= city[c].size
  BY <1>2, <1>3, <1>4 DEF CheckCities, Recalculated
<1>5. ASSUME NEW s \in Squares, NEW r \in Resources, Collect(s, r)
      PROVE  city'[c].size >= city[c].size
  <2>1. \/ city' = city
        \/ city' = [city EXCEPT ![ownedBy[s]] = Grow(city[ownedBy[s]], Resource[r].value)]
    BY <1>5 DEF Collect
  <2> QED BY <2>1, <1>0, <1>2, <1>3
<1>6. ASSUME NEW s \in Squares, NEW k \in Kinds, Build(s, k)
      PROVE  city'[c].size >= city[c].size
  BY <1>4, <1>6 DEF Build
<1>7. ASSUME EndTurn PROVE city'[c].size >= city[c].size
  BY <1>4, <1>7 DEF EndTurn
<1> QED BY <1>2, <1>5, <1>6, <1>7 DEF Next, AddCity, CollectMissing, Learn, Recruit, vars

AtRest(c) == city[c].pop = Total(buildings, c) /\ city[c].size > Total(buildings, c)

LEMMA TurnSettles ==
    ASSUME TypeOK, LoadedIsBare, EndTurn, NEW c \in cities
    PROVE  \/ AtRest(c)'
           \/ /\ Total(buildings, c)' = Total(buildings, c)
              /\ city[c].size <= Total(buildings, c) /\ city'[c].size = city[c].size + 1
<1> DEFINE total == Total(buildings, c)
<1>0. /\ c \in Cities /\ city[c] \in CityRec /\ total \in Nat
      /\ city[c].size \in Nat /\ city[c].pop \in Nat
      /\ city[c] = [size |-> city[c].size, pop |-> city[c].pop, basic |-> city[c].basic]
  BY TotalIsNat DEF TypeOK, CityRec
<1>1. total' = total /\ loaded' = loaded
  BY DEF EndTurn, Total, Fed
<1>2. CASE loaded
  <2>1. total = 0
    BY <1>0, <1>2, NothingTotals DEF LoadedIsBare
  <2>2. city'[c] = city[c]
    BY <1>0, <1>2 DEF EndTurn, CheckCities
  <2> QED BY <1>0, <1>1, <1>2, <2>1, <2>2 DEF LoadedIsBare, AtRest
<1>3. CASE ~ loaded
  <2>1. city'[c] = Grow(city[c], total - city[c].pop)
    BY <1>0, <1>3 DEF EndTurn, CheckCities, Recalculated
  <2> HIDE DEF total
  <2>2. city[c].pop + (total - city[c].pop) = total
    BY <1>0
  <2>3. CASE total >= city[c].size
    <3>1. city'[c].size = city[c].size + 1
      BY <2>1, <2>2, <2>3 DEF Grow
    <3> QED BY <1>0, <1>1, <2>3, <3>1 DEF total
  <2>4. CASE ~ (total >= city[c].size)
    <3>1. city'[c] = [city[c] EXCEPT !.pop = city[c].pop + (total - city[c].pop)]
      BY <2>1, <2>2, <2>4 DEF Grow
    <3>2. city'[c].pop = total /\ city'[c].size = city[c].size
      BY <1>0, <2>2, <3>1
    <3>3. city[c].size > total
      BY <1>0, <2>4
    <3>4. AtRest(c)' <=> city'[c].pop = total' /\ city'[c].size > total'
      BY DEF AtRest, total
    <3> QED BY <1>1, <3>2, <3>3, <3>4
  <2> QED BY <2>3, <2>4
<1> QED BY <1>2, <1>3

\* No step shrinks a city, and a turn leaves it at rest or brings it one size nearer to
\* the total of its buildings, which the turn does not change: a city that nobody builds
\* in comes to rest, and turns keep it there.  This is the step behind CitiesSettle.
THEOREM TurnsSettleCities ==
    Spec => [][\A c \in cities :
                  /\ city'[c].size >= city[c].size
                  /\ EndTurn =>
                        \/ AtRest(c)'
                        \/ /\ Total(buildings, c)' = Total(buildings, c)
                           /\ city[c].size <= Total(buildings, c)
                           /\ city'[c].size = city[c].size + 1]_vars
<1> DEFINE Step == \A c \in cities :
                  /\ city'[c].size >= city[c].size
                  /\ EndTurn =>
                        \/ AtRest(c)'
                        \/ /\ Total(buildings, c)' = Total(buildings, c)
                           /\ city[c].size <= Total(buildings, c)
                           /\ city'[c].size = city[c].size + 1
<1>1. Init => LoadedIsBare
  BY DEF Init, LoadedIsBare
<1>2. TypeOK /\ LoadedIsBare /\ [Next]_vars => [Step]_vars
  <2> SUFFICES ASSUME TypeOK, LoadedIsBare, [Next]_vars PROVE Step
    OBVIOUS
  <2>1. cities \subseteq Cities
    BY DEF TypeOK
  <2> QED BY <2>1, SizesOnlyGrow, TurnSettles
<1> QED BY <1>1, <1>2, BareStep, TypeCorrect, PTL DEF Spec
=============================================================================

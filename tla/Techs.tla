------------------------------- MODULE Techs -------------------------------
(***************************************************************************)
(* The 25 technologies of Techs.h, the index by which the client names     *)
(* them, and the coding GameRepository uses for them: a row of             *)
(* technologies is found by all seven things a technology gives, and read  *)
(* back from four of them.                                                 *)
(***************************************************************************)
EXTENDS Naturals, Sequences

\* BasicTech(4 + tier, tier, builds, unit, achive, resource, defence, ability)
Gives(tier, builds, unit, achive, resource, defence, ability) ==
    [tier |-> tier, builds |-> builds, unit |-> unit, achive |-> achive,
     resource |-> resource, defence |-> defence, ability |-> ability]

FirstTier == [
    Organization |-> Gives(1, << >>, "None", "None", "Fruit", "None", "None"),
    Climbing     |-> Gives(1, << >>, "None", "None", "None", "Mountain", "Climbing"),
    Fishing      |-> Gives(1, <<"Port">>, "Boat", "None", "Fish", "None", "Floating"),
    Hunting      |-> Gives(1, << >>, "None", "None", "Animal", "None", "None"),
    Riding       |-> Gives(1, << >>, "Rider", "None", "None", "None", "None")]

SecondTier == [
    Farming    |-> Gives(2, << >>, "None", "None", "Farm", "None", "None"),
    Strategy   |-> Gives(2, << >>, "Defender", "None", "None", "None", "None"),
    Mining     |-> Gives(2, << >>, "None", "None", "Mining", "None", "None"),
    Meditation |-> Gives(2, <<"MountainTemple">>, "None", "Peace", "None", "None", "None"),
    Scouting   |-> Gives(2, << >>, "Scout", "None", "None", "None", "DeepFloating"),
    Ramming    |-> Gives(2, << >>, "Ram", "None", "None", "None", "None"),
    Archery    |-> Gives(2, << >>, "Archer", "None", "None", "Forest", "None"),
    Forestry   |-> Gives(2, << >>, "None", "None", "Forest", "None", "Cutting"),
    Roads      |-> Gives(2, <<"Road", "Bridge">>, "None", "None", "None", "None", "None"),
    FreeSpirit |-> Gives(2, <<"Temple">>, "None", "None", "None", "None", "Disband")]

ThirdTier == [
    Construction |-> Gives(3, <<"Mill">>, "None", "None", "None", "None", "Burning"),
    Diplomacy    |-> Gives(3, << >>, "None", "None", "None", "None", "None"),
    Smithery     |-> Gives(3, <<"Forge">>, "Swordsman", "None", "None", "None", "None"),
    Philosophy   |-> Gives(3, << >>, "Priest", "Wisdom", "None", "None", "Literacy"),
    Navigation   |-> Gives(3, << >>, "Squadron", "None", "None", "None", "None"),
    Aquatism     |-> Gives(3, <<"WaterTemple">>, "None", "None", "None", "Water", "None"),
    Spiritualism |-> Gives(3, <<"ForestTemple">>, "None", "None", "None", "None", "Growing"),
    Mathematics  |-> Gives(3, <<"LumberHat">>, "Catapult", "None", "None", "None", "None"),
    Trade        |-> Gives(3, <<"Market">>, "None", "Economic", "None", "None", "None"),
    Chivalry     |-> Gives(3, << >>, "Knight", "None", "None", "None", "Destroying")]

TechNames == DOMAIN FirstTier \cup DOMAIN SecondTier \cup DOMAIN ThirdTier

Tech == [t \in TechNames |->
            IF t \in DOMAIN FirstTier THEN FirstTier[t]
            ELSE IF t \in DOMAIN SecondTier THEN SecondTier[t] ELSE ThirdTier[t]]

Grants(t, kind) == {Tech[t].builds[i] : i \in DOMAIN Tech[t].builds} \cap {kind} # {}

\* IndexDisposer::getTechByIndex(x, y)
TechAt == <<
    <<"Organization", "Climbing", "Fishing", "Hunting", "Riding">>,
    <<"Farming", "Strategy", "Mining", "Meditation", "Scouting", "Ramming",
      "Archery", "Forestry", "Roads", "FreeSpirit">>,
    <<"Construction", "Diplomacy", "Smithery", "Philosophy", "Navigation",
      "Aquatism", "Spiritualism", "Mathematics", "Trade", "Chivalry">> >>

\* The technology a nation starts with.  "Rich" has none: the matcher returns a
\* null pointer, which the constructor of Tribe dereferences.
StartTech == [
    Climbers |-> "Climbing", FruitCollectors |-> "Organization", Hunters |-> "Hunting",
    Riders |-> "Riding", Fishermen |-> "Fishing", Archers |-> "Archery",
    Swordsmen |-> "Smithery", Farmers |-> "Farming", Peacemakers |-> "Philosophy",
    ShieldBearers |-> "Diplomacy", RoadCreators |-> "Roads"]

-----------------------------------------------------------------------------
\* techImplacer fills technologies row by row: ids 1..5, 6..15, 16..25.
Implaced == TechAt[1] \o TechAt[2] \o TechAt[3]
Ids      == DOMAIN Implaced

\* Mutant of Coded: the column of the unit is left empty.
CodedWithoutUnit(t) ==
    [unit |-> "None", resource |-> Tech[t].resource, achive |-> Tech[t].achive,
     defence |-> Tech[t].defence, ability |-> Tech[t].ability,
     first |-> IF Tech[t].builds = << >> THEN "None" ELSE Tech[t].builds[1],
     second |-> IF Len(Tech[t].builds) = 2 THEN Tech[t].builds[2] ELSE "None"]

\* The columns a row of technologies keeps of a technology.
Coded(t) ==
    [unit |-> Tech[t].unit, resource |-> Tech[t].resource, achive |-> Tech[t].achive,
     defence |-> Tech[t].defence, ability |-> Tech[t].ability,
     first |-> IF Tech[t].builds = << >> THEN "None" ELSE Tech[t].builds[1],
     second |-> IF Len(Tech[t].builds) = 2 THEN Tech[t].builds[2] ELSE "None"]

\* Mutant of SavedAs: rows are numbered from 0.
SavedAsFromZero(t) == {i - 1 : i \in {j \in Ids : Coded(Implaced[j]) = Coded(t)}}

\* loadTechFromList: the ids LIMIT 1 may pick.
SavedAs(t) == {i \in Ids : Coded(Implaced[i]) = Coded(t)}

ByUnit == [Rider |-> "Riding", Boat |-> "Fishing", Scout |-> "Scouting",
           Squadron |-> "Navigation", Ram |-> "Ramming", Archer |-> "Archery",
           Catapult |-> "Mathematics", Knight |-> "Chivalry", Defender |-> "Strategy",
           Swordsman |-> "Smithery", Priest |-> "Philosophy"]
ByResource == [Fruit |-> "Organization", Animal |-> "Hunting", Farm |-> "Farming",
               Forest |-> "Forestry", Mining |-> "Mining"]
ByAbility == [Climbing |-> "Climbing", Burning |-> "Construction",
              Disband |-> "FreeSpirit"]
ByBuilding == [MountainTemple |-> "Meditation", WaterTemple |-> "Aquatism",
               Road |-> "Roads", Market |-> "Trade", ForestTemple |-> "Spiritualism"]

\* Mutant of Estimate: buildings are looked at before abilities and units.
EstimateByBuilding(c) ==
    IF c.first \in DOMAIN ByBuilding THEN ByBuilding[c.first]
    ELSE IF c.resource \in DOMAIN ByResource THEN ByResource[c.resource]
    ELSE "Diplomacy"

\* InfoEstimator::estimateTech: the first of the four that decides.
Estimate(c) ==
    IF c.unit \in DOMAIN ByUnit THEN ByUnit[c.unit]
    ELSE IF c.resource \in DOMAIN ByResource THEN ByResource[c.resource]
    ELSE IF c.ability \in DOMAIN ByAbility THEN ByAbility[c.ability]
    ELSE IF c.first \in DOMAIN ByBuilding THEN ByBuilding[c.first]
    ELSE "Diplomacy"

\* loadTechByIndex
LoadedFrom(id) == Estimate(Coded(Implaced[id]))
=============================================================================

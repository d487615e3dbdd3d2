# MiniCiv, specified and checked

MiniCiv is a turn-based 4X game: a C++ game library (`src/backend`), an HTTP
server that plays it over PostgreSQL (`src/server`, `src/migrations`) and a Qt
client (`src/frontend`).  This directory holds TLA+ modules translated from that
source, TLC configurations that check them on small instances, and TLAPS proofs
about eight of them for every instance.

    tlc -config MCLobby.cfg Lobby            # likewise the other rows of "Runs"
    tlapm LobbyProofs.tla                    # likewise the other *Proofs.tla

## How the system works

One `io_context` thread runs the HTTP handlers of `http_server.cpp` one after the
other.  Nothing of a game lasts in memory between two requests.  A handler calls
`GameRepository::load`, which builds a whole `GameSession` (map, tribes, cities,
units, technologies) from rows, works on that copy through the library, and calls
`GameRepository::save`, which writes all of it back.  An action
(`handle_game_action`) does so in one transaction; tribe selection commits three
times.  Because `load` does not restore everything (a loaded city has no map, a
loaded square does not know its city, a loaded unit has lost its class), the
library behaves differently on the server than in its own unit tests.

| Component | State | Operations | What makes it correct |
|---|---|---|---|
| Lobby: `http_server.cpp`, `GameSession`, `GameSessionManager` | rows of games, tribes, cities, game_players; `last_game_id_` | create, ready, start, select a tribe, end a turn; crash, refused commit, refused read of a seat | the turn indexes a tribe; index and tribe id agree; nobody shares a tribe or a capital; a seat names a stored tribe |
| Repository: `GameRepository.cpp` | one connection, `in_transaction_`, the rows | load, save statement by statement, begin, commit, roll back | a game is replaced whole or not at all; no request leaves a transaction or the flag behind |
| Map: `Map.cpp` | terrain, cities, resources | `generateMap` with its concurrent chunks; the first save; `start` over a loaded map | every square has one thread; seas are fenced; cities three apart; a stored world stays as it is |
| Tribe economy: `Tribe.cpp` | coins, cities, known technologies, open kinds | add a city, collect, build, learn, hire, end a turn | no debt the next load cannot pay; nothing is paid for twice (it is) |
| Cities, buildings: `City.cpp`, `Tile.cpp`, `PopulationBuildings.cpp` | size, population, income; owner of a square; buildings | growth, recalculation, territory | population below size; income follows growth; turns settle |
| Technologies: `Techs.h`, `IndexDisposer.h`, `InfoEstimator.h` | 25 constants, their rows | code, look up, estimate | what a tribe learned is what it knows after a reload |
| Hiring: `main.qml`, `GameClient.cpp`, `IndexDisposer.h` | the menu of units, states under way | read a state, choose a unit, recruit | the menu offers what the server can make and the tribe may hire; the unit hired is the one confirmed (it is not) |
| Stored units: `ActionRealizer.cpp`, `GameRepository.cpp` | rows of units, one pointer per square | hire, move, fight, entice on loaded games | nothing from nothing; terrain respected; a unit is shown as what it is |
| The library's units: `UnitsMover.h`, `DamageCalculator.h`, `BasicUnits.h`, `AquaticUnits.h` | units, lists, the pointer of each square, counters | march, attack, entice, take a square | the fallen are gone everywhere; a fight ends; each kill is counted once |
| Accounts: `http_server.cpp` 253-348, `LoginDialog.qml` | users, user_sessions, tokens of the devices | register, log in, log out, expire | a token names one user and works until it expires or is revoked |
| Client: `GameClient.cpp`, `main.qml` | game, tribe, turn, tiles, polling timer, dialogs | join, create, select, act, poll, leave, reconnect | it shows the game it is in, acts in its own turn and sees when that comes |
| Bots, achievements, city improvements, technology tree, rendering | | | no caller, or presentation only |

The parts meet in two places only.  On the server, the request: every handler is
load, library, save, and Repository models that frame while the other modules model
what happens inside it.  Between client and server, the network: Client, Accounts
and Hiring keep the messages under way and let them be lost, late and reordered.

What is hard here is seldom two threads (handlers do not overlap; only `generateMap`
starts any) and mostly a sequence of legal requests: state that one request saves
half and the next one reads, a process that dies between two commits, a statement
whose refusal nobody looks at, an operation that checks one square and changes
another, a pointer that means something only within a request.  `PROJECT.json` lists
these hazards line by line.

## Modules

**Lobby** (`LobbyProofs`).  Variables are columns of rows: `games`, `current`
(current_player), `finished`, `rows` (tribes in insertion order), `owner`
(cities.tribe_id), `seat` (game_players.tribe_id), plus `lastId`, the one value that
lives in the process, and `handler`, a tribe selection between two of its commits.
`Scans` and `LoadedTribes` are what `load` makes of the rows; `SaveTribes` is the
upsert of `saveTribe`.  Every handler is one action except selection: `SelectBegin`
(load, seat row committed), `SelectSeat` (tribe id committed), `SelectStore` (whole
session saved).  `SelectBlind` is a selection by a user who has a tribe, when the SELECT of
`getPlayerTribe` is refused: its -1 is taken for "no tribe yet" and the user is seated
again.  `SelectRefused` and `Crash` cut it anywhere; `FatalAction` is a
request that kills the process (capturing and conceding on a loaded game, a turn
ended past the end of the list).  `lost` remembers which seats were committed without
their store.  With `StableScan` the SELECT without ORDER BY returns insertion order,
without it any order.

**Repository** (`RepositoryProofs`), **Store**.  One game.  `rows` are what is
committed, `work` what the open transaction sees, `tx` PostgreSQL's side of the
transaction and `flag` the program's side (`in_transaction_`).  A value is the number
of the request that wrote it, so a game is whole when its tables carry one number.
The three kinds of request that save are followed statement by statement: ready,
which changes nothing that is saved, an action with its own transaction, and tribe
selection, which commits a seat and then saves in a transaction that `save` opens.
Any statement may be refused, the connection may break, also under a COMMIT, and the
process may die, at every step.  A table is one statement here: `save` loops over the
rows of each, and a refusal within the loop has the effects of one before it, since
either aborts the transaction.  The update of a capital's id is counted with the
cities.  `Store` is what a handler may believe: a stored session that is replaced
whole by that of a later request, and a seat.

**World** (`MCWorld`, `WorldProofs`).  `generateMap` in its steps: a try for a
sea (`TrySea`), the rings of shallow water (`Shores`), cities (`PlaceCity`), then two rounds
of threads, one per chunk, in any interleaving: terrain (`Fill`) and resources (`Find`).
`Create` runs it over an empty map and saves, `Launch` (start) runs it again over the
loaded map, `Resave` stands for every other request, which loads and saves.  `fresh` says that the tiles still hold the mirrored
coordinates of generation; a loaded map holds those of its rows.  `Rolls` and `Finds`
are what the threads may draw.

**Economy** (`MCEconomy`, `EconomyProofs`).  One tribe.  `city` holds size, population
and income; `ownedBy` the squares a city has claimed; `buildings` are triples of
square, kind and number.  `loaded`, chosen once, tells the library on its own map from
the server, where every operation runs on a freshly loaded game: there recalculation
returns early, `Build` follows a null pointer and the process dies before its commit
(so it never happens), and collecting only costs coins.  `Around` and `Territory` are
two sets because the code looks a city's squares up in two ways: recalculation by
(x, y), the claim by (y, x).

**Techs, TechStore, Hiring** (`ClientProofs`).  The table of technologies, the index by which clients
name them, the codes in the rows of `technologies` and the decoding by
`InfoEstimator::estimateTech`.  `TechStore` is one tribe's request cycle: load
(`Load`), at most one reveal (`Reveal`), a save that writes technology by technology
(`SaveBegin`, `SaveTech`), `Commit` or `Fail`.  `Hiring` extends it with the client:
state answers that list the loaded tribe's units (`GameState`; with `ReadsFail` also the
shorter lists that a refused read leaves), read in any order (`ParseState`), the dialog
that turns a name into an index and a price, and the server that turns the index into a
kind (`RecruitUnit`).  `tiles` says of which game the state read last is: a menu opens only
on a tile, so there is no hire before a state has been read.  Leaving clears menu and
tiles and aborts no request: after `Rejoin` the answers under way are old ones of the same
tribe, after `JoinAnother` they are of a foreign one.

**Board** (`MCBoard`, `BoardProofs`).  Rows of units and resources; a step is a whole action request.
Squares are named by their rows' (x, y).  `Visible` is the unit a square points to
after loading, `Free` and `Foes` the two lists of `UnitMover::GetAvailableTiles`,
`Insert` the upsert on (tribe, x, y), `Mirror` the swapped coordinates of recruitment,
of the fight request and of the saving of resources.  A unit carries the numbers of its
row, from which a state answer guesses its kind.

**Skirmish** (`MCSkirmish`, `SkirmishProofs`).  Units of the library itself, with their
classes, health and passengers, on the library's own map, as the tests use them:
`Fight` (which may be `Entice`), `Attack` and `Walk`.  Damage and the answer to it are doubled
fractions, rounded up; where double arithmetic may land above a whole number both
roundings are allowed.  `aboard` is the passenger's own health, which a ship passes its
blows to; `list` is `Tribe::units`, `on` the pointer of each square, `progress` the
counters of the Killer achievement.

**Accounts** (`MCAccounts`, `AccountsProofs`).  `users` and `user_sessions` as rows, the devices with the
token they remember, and messages under way.  A user's id is its nickname, a password is
right or wrong; a token is made of the user and of the time, which two tokens do not share.
Inserts may be refused and the process may die between two of them.

**Client** (`ClientProofs`).  `client` is the record of `GameClient`'s fields, `window` the dialogs of
`main.qml` that decide what the user can reach, `net` a bag of requests, answers and
single-shot timers.  The slots of `GameClient` and the handlers of `main.qml` that run
inside them are one action each; `onReplyFinished` is one per kind of answer.  Of the
server the module keeps only existing games, this user's tribes and the turns; other
clients end any turn at any time (`OthersEndTurn`), since the server does not ask whose it
is.  Reads of a seat are taken to succeed here; what comes of one that does not is in Lobby
(`SelectBlind`) and Hiring (`Answers`).  Three history variables name what goes wrong:
`late` marks messages sent before the last departure, `stale` says that one of them was
handled since, `spent` that the turn shown has been ended by somebody.

The state of the other modules is disjoint except for prices: Economy takes the coins of
a recruit that Board places, and counts the technologies that TechStore stores.  They are
not composed: a request changes the state of one of them, and that it does so as a whole
or not at all is what Repository is checked for.

## Runs

| Run (configuration, module) | Bounds | Shows |
|---|---|---|
| `lobby` (MCLobby, Lobby) | 2 users, 3 cities, one game id, 2 creates, 1 fault, any scan order, `FairSpec` | the turn names its tribe, for rows are numbered in order; two users share a tribe only if a store was lost; every seat has a stored tribe otherwise; capitals are apart; a finished game has one owner; a user keeps its tribe unless the read of its seat is refused; the turn goes round every player but the first, whose turn returns only by a second create |
| `repository` (MCRepository, Repository) | 2 requests, 2 faults | no transaction outlives its request; the flag sticks only after a lost BEGIN; a game is torn, and `ok` untrue, for two named reasons only; implements `Store` until one of them |
| `world` (MCWorld, MCWorld) | 7 x 7, 4 unequal chunks, 2 or 3 seas, 3 saves | one thread per square; seas fenced; cities apart, mirrored or not; resources on their terrain; a stored world settles; generation ends |
| `economy` (MCEconomy, MCEconomy) | 2 cities, 4 x 4 squares, farms, fish and mills, 3 technologies, 25 coins, both modes, `FairSpec` | population below size, income = growth, debt = at most one discount and on the server none, cities settle |
| `economy_paid_once` (MCEconomyPaidOnce, MCEconomy) | same, loaded | violated: the same technology is paid for twice |
| `hiring` (MCHiring, Hiring) | all nations that can start, all 25 technologies, 2 known at a time, 1 state under way, refused reads | no technology is confused, lost or gained through save, abort and load; however late a state is read, its menu can be made and, unless it is of a game left since, is within reach |
| `hiring_offer` (MCHiringOffer, Hiring) | same, no refused reads | violated: from the menu of a state of its own game, who confirms one unit gets another, or at another price |
| `board` (MCBoard, MCBoard) | 6 x 6 squares, two capitals, riders, archers and priests, 3 units paid for | overlaps stay where recruits appear, no unit from nothing, terrain is respected, a unit is shown as what was paid for, resources stay on a square and its mirror |
| `board_collected` (MCBoardCollected, MCBoard) | same | violated: a collected resource is back after the save |
| `skirmish` (MCSkirmish, MCSkirmish) | every class against every class, next to it, in a city and two squares away, to the last blow; marches of three walkers against a walker and two ships on a coast, over a mountain where walkers and ships meet | the fallen are gone from lists and squares; kills are losses; a ship shares its passenger's fate; a duel is short; units keep to their element |
| `accounts` (MCAccounts, MCAccounts) | 2 users, 2 devices, 2 messages under way, 3 tokens | who has a token of its own stays logged in until a named event; who logged out stays out; accounts are kept |
| `client` (MCClient, Client) | 2 games, tribes 1 and 2, one nation, 2 messages or timers under way, `FairSpec` | a client shows, polls and plays the game it is in, and acts in its own turn, unless that was ended meanwhile, by any client, or other named events intervene; it stays in its game; it sees its turn |

A property that has several parts is the conjunction of named ones, so that a run
checks the parts and a theorem about it is put together from theorems about them:
`TurnNamesItsTribe` (`TurnInRange`, `IndexIsTribe`), `TurnsGoRound` (`TurnComesRound`,
`FirstPlayerWaitsForReset`), `CitiesGrowSoundly` (`PopulationBelowSize`, `IncomeIsGrowth`),
`NoDebtPilesUp` (`DebtIsOneDiscount`, `LoadedTribeIsSolvent`), `MapIsSound`
(`OneThreadPerSquare`, `SeasAreFenced`), `CitiesStandApart` (`CitiesKeepTheirDistance`,
`CityIsMirrored`), `FightsEndCleanly` (`TheFallenAreGone`, `ShipSharesItsFate`,
`BlowsAreExchanged`), `LoginsAreHonoured` (`StaysLoggedIn`, `LoggedOutStaysOut`),
`RequestsEndClean` (`NoTransactionLeaks`, `StuckFlagHasCause`, `TornHasCause`) and
`AnswersAreTrue` (`OkIsStoredOrFailed`, `RefusedIsNotSeated`).  Type invariants that are
proved are not checked again by a run.

Why the bounds are enough.  *Lobby*: a tribe id is handed out twice by one lost store, to a
user who lost it and one who gets it; a user who is seated again stands for a third one and
makes the table as long as three users would, with a city for each.  The reset of a
running game needs two creates.  Games do not share rows, so one is checked and the proofs
cover any number.  *Repository*: a second request meets what a first left behind, and
what can be left behind is a flag and rows, which its first faults produce; the proofs cover
any number of requests; two faults are a refused statement and the loss of what would
have repaired it.  *World*: seven is the smallest side on which four chunks have unequal
sides and cities three apart and their mirrors are distinct; after the second save the rows
are closed under mirroring, so a third shows all that a hundredth would.  One roll with all
terrains off the diagonal is enough because the threads read nothing that another writes.
*Economy*: two cities whose claims and surroundings cross is what mirrored coordinates can
do at worst; 25 coins are what the server gives a tribe and buy the building, the resources
and two technologies; coins above `MaxBalance` are cut because every price of the instance
is below it.  *Hiring*: a technology is saved and decoded on its own, so the one a nation starts with and
any second one meet every case; one state under way is late against every save, abort and
departure, and reading an old one after a new one differs in nothing else; the proofs cover
any number of both.  *Board*: an overlap
needs a unit on the arrival square and a recruit, and to carry it elsewhere takes a third;
the map is the smallest on which two capitals, their mirrors, water and mountains are
distinct.  *Skirmish*: a fight has two sides and nobody else takes part; duels run from full
health to death, which also covers every wounded unit on the way.  Attacking ships carry
swordsmen, defending ones also giants.  `MaxHealth` bounds healing by blows, which the code
does not bound.  *Client, Accounts*: an answer is late against one other message; two games,
or two users, are needed to confuse one with the other.

Violated properties are stated by the repository itself: `Tribe.cpp:49` ("Technology
already learned"), `ServerTests.cpp:212` (a collected animal is gone) and `main.qml:198`
("Recruit ... for ... gold?").

Fairness.  `TurnsGoRound` assumes that a selection in progress finishes (the one thread
runs a handler to its end) and that turns keep being ended; it does not assume that a
particular player acts, nor anything of creates or faults, which are bounded.
`CitiesSettle` assumes only that turns are ended.  `GenerationEnds` assumes that a running
`generateMap` goes on: it is a function call, and its threads are joined.  `TurnIsSeen`
assumes that a running timer fires, that messages arrive or get lost sooner or later, and
that of polls repeated for ever some are answered and some answers arrive while they are
current; neither the user nor the other players have to do anything.

## Proofs

`LobbyProofs` shows for every set of users and cities and all bounds: `TypeOK`,
`TurnInRange`, `IndexIsTribe`, the same for loaded sessions under `StableScan`,
`SharedTribeNeedsALostStore` and `SeatHasTribe`.  None but `TypeOK` is inductive.  The
strengthening relates three things: the row list of a game (the neutral tribe first, ids
without gaps, every id at most once), the tribes in the hands of a selection in progress (a
copy of the rows as they still are, plus one new tribe whose id is one more than the
largest), and the seats (a positive seat is at most the largest stored id unless its store
was lost or is about to happen).  Saving is an upsert by id, so it never reorders or removes
rows; this is the lemma each step leans on, and why a permuted scan is harmless.
`TribesAreKept` rests on `Waiting`: a selection is between its first two commits only for a user
who has no tribe yet or whose seat it could not read; in the second case the tribe it gives is new,
without a row.  `CapitalsStayApart` follows a city from the rows through the session to the rows:
the tribes of a loaded session own what the rows say (`Rightful`), the neutral tribe owns no
capital (`NeutralHasNone`), and the capital a selection takes is one nobody in its session has
(`SessionCapitals`).  `FinishedHasOneOwner` adds that whoever owns a city has a row
(`OwnersHaveRows`), so that a save counts exactly the owners; a selection that takes a city
counts both the neutral tribe, whose list is stale, and the new one, and finishes nothing.
`FirstPlayerWaitsForReset`, the safety half of `TurnsGoRound`, needs one more fact about the
process: the id that the next create takes is new or that of the newest game
(`NextIdIsNewest`), because a create does not advance `last_game_id_` and a restart reads it
back from the rows.

`RepositoryProofs` shows every property of the `repository` run, the refinement included,
for any number of requests and faults.  The two sides of a transaction are tied by
`TransactionIsFlagged`: what PostgreSQL has open the program has flagged, on a living
connection, and with nothing open the statements see the rows.  The converse is false (the
flag is set before BEGIN is sent and stays up when that fails), so `OutsideIsIdle` says where
a leftover flag can be and that `save` then runs on rows without a transaction;
`ActionIsCovered` says that an action loses its transaction only together with a recorded
failure.  `TransactionHolds` counts statements: an open transaction has written the session up
to the current one, because a refused statement would have aborted it.  `SoundIsWhole` adds
that until one of the two causes the rows carry one number, older than that of a request that
is still at work.  The refinement to `Store` then has three kinds of steps: a commit of
statements is `StoreSession` (or a stutter, for ready), a commit of the seat is `StoreSeat`, a
first statement outside of a transaction or a load without one of its SELECTs is `Unsound`, and
everything else stutters.

`WorldProofs` shows that the chunks partition the map for every size and number of chunks,
the unequal last ones and the empty ones included, and that for every size, sea, city count
and roll seas are fenced, cities apart, mirrored and resources on their terrain, and a stored
world settled.  The invariant follows the rows through their lives: a generated map (`FreshIsFirst`),
the rows of the first save, where cities are mirrored and tiles are not (`FirstRows`), those of
later ones (`LaterRows`), and during generation which squares are still open (`ThreadsFill`),
fenced (`Fences`) and chosen (`CitiesStand`).  `GenerationGoesOn` is the variant behind
`GenerationEnds`: every step of a request reaches a later phase or leaves fewer tries, unmarked
squares or running threads, finitely many for every size; that a step is possible in each phase
and is taken in the end is what TLC adds.

`SkirmishProofs` shows every property of the `skirmish` run for any units, armies and maps:
`TypeOK`, `TheFallenAreGone`, `ShipSharesItsFate` and `BlowsAreExchanged` (together
`FightsEndCleanly`), for which it is enough that blows are integers, whatever the rounding;
`KillsAreLosses`, whose invariant `Ledger` names one killer for each unit lost and grows by one
pair in each step that kills (`Kill`) and by none in others (`NoKill`, enticing included);
`DuelIsShort`, whose invariant `Costly` rests on `AnswerHurts`: with any class, health and rounding
a survivor next to its attacker answers with five at least.  `ElementsAreKept` assumes an initial placement that
respects terrain, which the constants need not give.

`BoardProofs` shows every property of the `board` run for any terrain, tribes, capitals and
number of recruits.  Its invariant `Rows` speaks of sets of rows, because each request replaces,
inserts or removes at most two: one row to a tribe and square (`OneRowEach`, the unique key), no
two on a square unless recruits appear there (`Spread`), no more rows than were paid for, and
each row sound.  Sound is the delicate part.  An upsert that meets a row of the same tribe writes
some columns of the newcomer and keeps the others, so a row need not be any one kind:
`Built` says that its price and attack are those of one kind that was hired and its strength
that of one, perhaps another.  `StrengthTells` (no two kinds agree in all four columns of
strength) then makes the guess of a state answer right or empty.  That nobody is put where
someone stands unseen follows from `OccupiedShows`: a square with units points to the one of
the tribe loaded last, so it never looks free.

`EconomyProofs` shows for every map, every set of technologies and both modes: `TypeOK`,
`PopulationBelowSize`, `IncomeIsGrowth`, `LoadedTribeIsSolvent` and `DebtIsOneDiscount`.  The
lemma under the first three is `GrowIsSound`: a change that does not take the population below
zero leaves it below the size and raises income with size.  Totals are cardinalities of finite
sets, hence natural numbers, so recalculation is such a change.  The debt rests on `Discount`
(what is asked is at least two thirds of the price) and on `OtherPrices` (only learning can take a
balance below zero); a debt keeps its witness because prices grow with the number of cities and
cities are not lost here.  `TurnsSettleCities` is the step behind `CitiesSettle`: sizes only grow,
and a turn leaves a city at rest or brings it one size nearer to the total of its buildings.
On the server this rests on `LoadedIsBare`: nothing was built, so there is nothing to settle.

`ClientProofs` has two parts, which share no variable.  The first shows the safety properties of
the `client` run for any games, tribes and messages under way.  What a client shows is what messages told
it, so `ClientInv` is mostly about messages (`Believable`).  One part holds always (`TellsTruth`):
an answer names the tribe the user still has, and a state or an action that says it is the user's
turn is right until that turn is ended, by this client or another, when the message is marked
`spent` (`EndedTurn`).  The other
part (`OfThisGame`) holds until a message from before a departure is handled, which is
`stale`: what was sent since is about the game the client has joined.  `Outside` and `Inside`
tie fields, timer and window together; that a client choosing a nation has nothing of a game
under way is what keeps an earlier answer from confirming it.  Departure marks everything
under way `late`, so `OfThisGame` asks nothing of it.  `StaysInItsGame` follows from the same
invariant, step by step.  `TypeOK` says nothing of how many messages are under way: `MaxNet`
bounds that in the guards.

The second part shows `TechTypeOK`, `KnownAfterReload` and `OfferIsWithinReach` of Hiring for any
number of technologies and of states under way.  Every technology is recognised from its own
columns, 25 cases of `SavedIsLoaded`; hence any row a save may have picked reads back as what was
saved, and rows, transaction and session differ by at most the technology being learned
(`SessionIsEarned`).  Rows are only added while the client stays with a tribe, so a list of units that was true when it
was sent stays within reach (`ListsAreInReach`), the shorter lists of refused reads included
(`AnswersAreInReach`).  A list of a game left since need not be; what remains of it is that the server
can make every unit on it (`Makeable`), since only those names are ever sent.

`AccountsProofs` shows `TypeOK`, `LoginsAreHonoured` and `AccountsAreKept` for any users, devices,
messages and tokens.  Storing a session revives the row of its token, so that a logout lasts is
not local: it holds because every token in a row, on a device or under way has been given out
(`AllGiven`), hence the next one is new, and because a token is in one place only, an answer or a
device (`HeldOnce`), hence the device that logs out is the only one that could use it again.
`AllHonoured` carries the promise of a login from the row to the answer to the device.

Only model-checked: liveness (`TurnComesRound`, `CitiesSettle`, `GenerationEnds`, `TurnIsSeen`).
Its proofs need ENABLED for the fairness and an induction over the variant, which are beyond
the prover; where a variant exists within one module its steps are theorems (`GenerationGoesOn`,
`TurnsSettleCities`).  Every invariant and every other action property of a passing run has a
theorem.

## Assumptions

* The table `technologies` is filled as `techImplacer` would (its call in
  `main.cpp` is commented out), with the columns the queries name
  (`new_building_1`; the schema of `001_init.sql` says `new_building1`).
* PostgreSQL: a commit is atomic, a refused statement aborts its transaction, and COMMIT of an
  aborted transaction is a rollback that is reported as a success.
* In the library, generated cities are three steps apart, so no two claim a square; this is
  `CitiesKeepTheirDistance` of World.
* On the server a unit is a `BasicUnit`: any damage kills it and it strikes at full use of its
  attack type.  The classes fight in the library and its tests only (Skirmish).
* Health and damage of stored units are halves and therefore doubled in Board and Skirmish.

## Where the code goes its own way

Three disagreements with the repository's own words have runs of their own (above).  Others are
part of the models, and properties are stated around them:

* Two units can share a square, though `Tile.cpp:67` says "There's already one unit in the tile":
  recruitment looks at the capital and fills its mirror image.  `OverlapsOnlyOnArrival` bounds it.
  For the same reason the unit is not at the capital, where `ServerTests.cpp:61` and `:73`
  look for it and `:92` moves it from, unless that lies on the diagonal.
* A user who has a tribe gets another one if the SELECT of `getPlayerTribe` is refused during a
  repeated selection (`GameRepository.cpp:1772`, `http_server.cpp:526`).  `TribeIsKept` names it.
* The turn is an index into tribes that are read without ORDER BY (`GameRepository.cpp:711`).
  `TurnNamesItsTribe` bounds this: in insertion order the index is the id; a scan in another order
  would give the turn to another tribe, and nothing in the code excludes it.
* A state that arrives after the user left brings the game back, though `test_gameclient.cpp:112`
  expects no timer after leaving.  `ShowsItsGame` and `StaysInItsGame` name it (`stale`).
* An action whose transaction PostgreSQL rolled back is answered `ok` (`http_server.cpp:856` ignores
  the result of the commit).  `OkIsStoredOrFailed` bounds it: an answer may be untrue, but only after a
  recorded failure.
* A blow against a strong defence heals.  `DuelIsShort` shows that fights end all the same.
* A unit that walks clears the mirror image of the square it left.  `KeepsToItsElement` and
  `TheFallenAreGone` hold nevertheless.
* The login dialog accepts passwords of four characters, registration asks for six
  (`LoginDialog.qml:34`, `Player.cpp:44`).
* The Killer achievement counts for the tribe that lost the unit; `KillsAreLosses` says so exactly.

Hazards without a property, because nothing can be modelled but their immediate outcome: `getWinner`
has no return when no tribe owns a city (`Game.cpp:29`); the nation Rich has no starting technology
and the constructor of its tribe follows a null pointer; a loaded city has no map, which the mode
`loaded` of Economy takes as given; a client whose answer to a tribe selection is lost has joined
without a dialog to go on with; `GameSession::makeAction` and `GameRepository::disconnect` lock a
mutex they hold, and have no callers; the unit that `recruitUnit` puts on a square is a copy that
dies with the call; answers of 4xx are dropped by the client; a broken connection to the database is
never opened again.

## Not modelled

* `City::captureCity`, `Tribe::loseCity`: capturing fails on every loaded game.
* Ships on the server: saving one violates the schema's `unit_movement_type`, so its transaction is
  refused.  Embarking and `specialEmplaceUnit`, which only tests call.
* Buildings, roads and achievements row by row, and the caches of `GameRepository`, which are filled
  by reads that a fresh load repeats.
* `create` in Repository: it saves before its game can be loaded, through the same `save`.
* `start` over a map that was loaded in part: it would generate over it.  Partial loads are in
  Repository only; Lobby and the other modules of the server take a load to be complete.
* The length of the polling interval; logout in the Qt client, which has none.
* The winner and elimination columns, which nothing reads.
* Bots, achievements, improvements and the technology tree: never called on the paths above.
* Rendering and layout.

## Plan

1. **Proofs**: the variants behind `TurnComesRound` and `TurnIsSeen`.
2. **Capture** as an extension of Economy with several tribes, for the library only.
3. **Buildings and roads** in World, once a loaded square knows its city.

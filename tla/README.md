# DungeonConquest: specifications and proofs

DungeonConquest is a deterministic, single-threaded action simulation in C++
(`src/core`), stepped tick by tick through a C ABI by a Unity client
(`src/client`). The hero hunts and attacks on its own; the player chooses cards,
crafts items, picks targets and answers QTE windows. Every number is fixed
point, and a run must be reproducible from its seed and its inputs.

Nothing here runs in parallel, yet order is what makes the code hard. A dozen
systems run in a fixed sequence in each tick and see each other's results
half-way; rows are only marked dead during a tick and move at its end; handles
survive from tick to tick; almost everything that is read often is cached; the
client steps the core several times per frame and learns from an event queue
what happened; and a server replays a recorded run and expects the same state.
The modules in this directory model those mechanisms, TLC checks them on small
instances, and TLAPS proves the main invariants for every value of the
constants.

## 1. Inventory

| Component | State | Operations | Must hold |
|---|---|---|---|
| Entity store (`entity_store.h`, `entity_id.h`) | dense rows, slots with generations, free list, death marks | `spawn`, `markDead`, `compact`, direct writes to rows | a handle resolves to its own entity or to nothing; no slot leaks; rows stay in spawn order |
| Attack cycle, telegraphs and QTE (`combat.h`, `qte.h`) | per enemy: cooldown, windup, pattern, stun; one QTE window; hero cooldowns | `qteRun`, `combatRun`, effects, `applyInput(QteGrade)` | the announced attack is the one that lands; every window is resolved; no attack lands twice; a stun ends |
| Skills, engraves, relics and deaths (`combat.h`) | damage, dots, what is collected for a blow, clear points | `applySkillHit` and all that ends in it | a death pays once; leech sees every hit; a dot runs out; only strikes execute |
| CC gauge (`applyCc`, `ccDecayRun`) | gauge, threshold, stun of each enemy | hits, decay | stuns of the boss get rarer and end |
| Movement, separation, grid, targeting (`movement.h`, `separation.h`, `grid.h`, `targeting.h`) | positions, the hero's target | once per tick | every overlapping pair is parted once; ties do not depend on rows; the hero gets there |
| PRD channel (`prd.h`) | failures in a row | `roll` | the streak is bounded as announced |
| Levels and cards (`levelup.h`, `card.h`, `event.h`) | level, exp, owed levels, the open screen, legends, event queue | `gainExp`, `chooseCard`, `rerollCards`, `dc_events_drain` | one card per level; a screen is open exactly while one is owed |
| Client loop (`RunLoop.cs`, `TickDriver.cs`, `SimWorld.cs`) | pause, awaited choice, last events | `Advance`, `AfterTick`, `SubmitCardChoice` | the loop stops where cards are offered |
| Inventory, recipes, item stats (`inventory.h`, `item.h`, `items_apply.h`) | uint16 counts, cached bit per recipe, applied stats | `add`, `remove`, `craft`, `rebuildCraftable`, `refreshItemStats` | a craft takes exactly its ingredients; the cache is exact; the hero has the stats of what is held |
| Crafting view (`craft_query.h`) | none | `viewRecipe`, `craftStatDelta`, `viewRecipesUsing` | the screen says what the simulation will do |
| Stat block (`stat_block.h`, `condition.h`, `small_vec.h`) | modifiers in sorted vectors, value cache, index by condition kind, earliest end | add, remove, read, `refreshConditions` | laziness never shows |
| Run progress (`spawn.h`, `sim.h`, part of `combat.h`) | segment, points, elite index, boss flags, spawn clocks, gauge, outcome | `progressRun`, `spawnRun`, kills, `bossPhaseRun`, verdict | no elite is lost; the boss comes; a cleared run has a dead boss |
| Orbs and zones (`world.h`, `combat.h`) | two bounded arrays | `push`, `removeAt`, `zoneRun`, `orbRun` | nothing outlives its tick; an aftershock explodes once |
| Input log, replay, snapshot, checksum (`input.h`, `replay.h`, `snapshot.h`, `checksum.h`, `dc_abi.cpp`) | recorded inputs, a buffer, the checksums of a rerun | record, `dc_headless_checksum`, save, load, `verifyReproducible` | the same inputs give the same state; a divergence is reported where it began |
| Configuration and JSON (`config_loader.h`, `json.h`, `sim_config.h`) | texts, nodes, the first error, the configuration and its fingerprint | set, load, reload, create a world | what has a fingerprint hangs together; the same texts have the same one |
| C ABI, C# bindings (`dc_abi.cpp`, `DcNative.cs`) | handles | `dc_step`, `dc_input`, `dc_events_drain`, ... | status codes; a failure leaves nothing half done |
| Random streams, fixed point (`rng.h`, `fixed.h`) | stream states | draws, products, roots | pure arithmetic |
| Tests, benchmarks, data tools | | | outside of the game |

How they meet: `stepWorld` (`sim.h`) calls `beginTick` (clock, timed conditions),
`progressRun`, `spawnRun`, target selection, separation, movement, the damage
over time (`decayRun`, `boltRun`, `stormRun`, `zoneRun`), `orbRun`, `ccDecayRun`,
`qteRun`, `combatRun`, `bossPhaseRun`, `endTick` (compaction) and the verdict on
the gauge. Every kill goes through `applySkillHit`, which marks the row, gives
experience, drops an orb and may end the run. Player inputs come between ticks
through `applyInput`, and the input log keeps those that were accepted. The
client calls `dc_step(1)`, drains the events, and stops if there is a `CardOffer`
among them.

Hard behaviours, listed line by line under `hazards` in `PROJECT.json`: handles
that outlive their entity; compaction in the middle of which slots still point at
old rows; a QTE source that dies, is stunned or leaves before the verdict; a
second telegraph while a window is open; several blows under way to an enemy that
the first one kills; a ring of blows that grows while it strikes; several levels
from one kill; an event queue that overflows; caches (recipes, stat values,
earliest end) that must be invalidated from many places; a store that is full
when the boss or an elite is due; a boss that dies in the tick in which the gauge
fills; removals from an array that is being walked; pushes and truncated steps
that could keep the hero from his target; a replay that is asked for fewer ticks
than were played, or that starts from a snapshot; a handle that is loaded again
after a failure.

## 2. Modules

| Module | Models | Checked by | Proved in |
|---|---|---|---|
| `EntityHandles` | abstract: a map from live handles to data | (refinement of `EntityStore`) | |
| `EntityStore` | the store, its compaction loop one row per step | `MCEntityStore` | `EntityStoreProofs` |
| `Telegraph` | one tick of combat, system by system, enemy by enemy | `MCTelegraph` | `TelegraphProofs` |
| `Prd` | the proc channel | in `MCBattle` | `BattleProofs` |
| `Field` | positions: target, separation over the grid, movement | in `MCBattle` | `BattleProofs` |
| `Strikes` | every effect that ends in `applySkillHit`; EXTENDS `Field`, `Prd` | in `MCBattle` | `BattleProofs` |
| `Battle` | the systems of a tick that move and strike, in order; EXTENDS `Strikes` | `MCBattle` | `BattleProofs` |
| `LevelUp` | experience, screens, choices, queue | in `MCCardLoop` | `CardLoopProofs` |
| `CardLoop` | the client loop; EXTENDS `LevelUp` | `MCCardLoop` | `CardLoopProofs` |
| `ItemBag` | abstract: a bag of items | (refinement of `Inventory`) | |
| `Inventory` | counts, cache, crafting, reload | in `MCItems` | `InventoryProofs` |
| `Items` | the inventory in the simulation and the hero's sums; EXTENDS `Inventory` | in `MCItems` | `InventoryProofs` |
| `CraftQuery` | the crafting screen's questions; EXTENDS `Items` | `MCItems` | `InventoryProofs` |
| `StatBlock` | modifiers, caches, conditions | `MCStatBlock` | `StatBlockProofs` |
| `RunProgress` | a run from first tick to outcome | `MCRunProgress` | `RunAndPoolsProofs` |
| `Pools` | orbs and zones | `MCPools` | `RunAndPoolsProofs` |
| `Replay` | input log, snapshot, headless replay, over any simulation | in `MCSession` | `SessionAndConfigProofs` |
| `Harness` | `verifyReproducible` and its report | in `MCSession` | `SessionAndConfigProofs` |
| `Session` | `Replay` and `Harness`, the two uses of the core | `MCSession` | `SessionAndConfigProofs` |
| `SimInput` | which inputs a world takes and what they do to it | in `MCSession` | |
| `JsonNodes` | lexemes, nodes and what is looked up in them | in `MCConfig` | `SessionAndConfigProofs` |
| `Json` | the reader, which makes nodes of a text; EXTENDS `JsonNodes` | in `MCConfig` | `SessionAndConfigProofs` |
| `Loaders` | what each loader asks of its nodes, refuses and stores; EXTENDS `JsonNodes` | in `MCConfig` | `SessionAndConfigProofs` |
| `Config` | handles, loads, reloads, worlds, over any reader; EXTENDS `Loaders` | in `MCConfig` | `SessionAndConfigProofs` |
| `ConfigReader` | `Config` and `Json` together, and what the reader keeps to | `MCConfig` | `SessionAndConfigProofs` |

How state and actions correspond to the code:

* **EntityStore.** A variable for each array and counter of the class. The field
  arrays of a row are one record: `born` numbers the spawns, `val` stands for all
  the arrays the systems write. `compact` is four actions (`CompactBegin`,
  `CompactDrop`, `CompactKeep`, `CompactEnd`) so that what holds between two
  passes of the loop is stated and proved; nothing else runs in between
  (`pc = "tick"` guards every other operation). `retired` and `released` are
  history.
* **Telegraph.** `phase` and `turn` say which system, and in `combatRun` which
  enemy, is next. Damage and geometry become choices: who dies, who is stunned,
  who is in range. Time is relative (`qte.left = closeTick - tick`), so behaviours
  may run for ever. `loaded`, `hits` and `rest` follow which pattern an enemy
  carries, how often it hit and how long ago its last attack ended.
* **Field, Strikes, Battle.** The same tick seen from the hero, with numbers in
  place of choices. Coordinates are raw integers and every product, quotient and
  root truncates as in `fixed.h`. A system that strikes puts its calls on `work`,
  and each action takes the first of them (a hit, a ring, a wave, a payment to
  leech, a zone laid down), so that what a call collects is collected among those
  who are still alive then. Powers are multiples of one
  `AttackPower`, which stands for the hero's attack with his own multipliers
  (`swarmMult`, `heroPowerMult`, critical hits). It is the same number for all of them,
  although `swarmMult` counts the living and so may fall from one power to the
  next within a tick. What is drawn, procs included, is a choice. A hit says which
  code makes it (`by`), and `Counted` lists those whose result that code adds to what
  leech is paid for. Zones last as long as the legend that lays them says
  (`zoneTicks`). `cast`, `ring` and `unhurt` are history.
* **LevelUp, CardLoop.** One action per function. A screen is a sequence of
  cards whose first one is an item; growth cards and legends come from
  pools that may run out; where they have, the code falls back on the first stat of its pool (`FirstStat`,
  `levelup.h:77`) or on entry 0 (`StatZero`, `levelup.h:94`). `CardLoop` puts the host's frame loop around the core;
  how many ticks a frame asks for is a free choice up to `MaxTicksPerFrame`,
  which stands for real time, speed and slow motion.
* **Inventory, Items, CraftQuery.** Recipes are multiplicities of ingredients. The
  recipe cache is the set of indices whose bit is set, and `Refresh` re-evaluates
  just those that the reverse index names. The hash of a table is its name.
* **StatBlock.** `cache[s]` is `<<>>` while the stat is dirty. The reads that
  `conditionContext` makes through the cache fill it, as in the code. Fixed-point
  multiplication truncates toward zero. The amount of a modifier is a function
  of its source; a source number is in use at most once, as `allocSourceId`
  guarantees.
* **RunProgress.** `progress, spawn, fight, boss, end` are the systems that
  matter; in `fight` kills and changes of the gauge come in any order.
  Clocks are kept as ticks left.
* **Pools.** Arrays are sequences. `TakenOut` is `removeAt`, `Swept` the backward
  loop of `zoneRun` and `orbRun`. Which orbs the hero reaches is a choice.
* **Replay, Harness, Session, SimInput.** The simulation is a pair of functions
  (`StepWorld`, `ApplyInput`), constants of `Replay`; `MCSession` gives a small one
  whose inputs are taken or refused by `SimInput`. A checksum is the part of the state
  it hashes (`Checksum`, another constant); `MCSession` leaves out the craftable bit,
  as `World::checksum` leaves out what is derived, and damage to that bit is loaded as `Ok`.
  Each pass of the loops of `dc_headless_checksum` and `verifyReproducible` is a
  step. `Damage` puts any of the worlds that damaged bytes can spell, or a
  wrong header, into the buffer. The harness is called with any of `Arguments`, those
  that it refuses among them, and reports the domains of `firstDivergentDomain`, `total`
  last. `trail` and `at` are history: the worlds of the
  recorded run and where in it each log entry was taken.
* **JsonNodes, Json, Loaders, Config.** A text is a sequence of lexemes, which
  abstracts spelling; the parser (`Parse`) builds the array of nodes with kid and
  sibling links and keeps the first error. The recursion of `parseValue` is a stack:
  `open` holds the locals of the calls that are inside a container (node, last kid,
  closing bracket, key), `want` says where the innermost of them stands, and
  `ReadLexeme` is what that call does with one lexeme. `Spelled`, the reference, gives
  the set of trees that each span of a text spells by the rules of the grammar, without
  a cursor or a stack. `Layout` lists the plain numbers a file
  holds; every lookup across files, limit and check that the loaders make is an
  operator of `Loaders`. The fingerprint is the sequence of the numbers folded in.
  A number that the code casts to `uint32_t` before it compares it is compared modulo
  2^32 (`Unsigned`), and recipes that `RecipeTable::build` refuses are not kept
  (`Stopped`).
  `Config` takes the reader as a constant operator (`Read`), since what the loaders
  make of nodes does not depend on how a text became nodes; `MCConfig.cfg` puts
  `Parse` in its place. `MAX_I32` stands for 2^31 - 1 (5000 in the runs): it bounds
  what `asI32` takes, and the sum of the forge's rates wraps at it (`Wrap`).

Operators whose comment starts with "mutant" are deliberate mistakes. They are
used in no specification; substituted for the operator they are named after, each
of them breaks one property (`mutants` in `PROJECT.json`), which shows that the
property depends on that piece of code.

## 3. What the runs show

Run with `tlc -config X.cfg M`. The ten passing runs:

* **store** (`MCEntityStore.cfg`, 52 407 states). Three rows, two generations, five
  spawns: a slot can be reused until its generation wraps, a handle is given out
  again, and compaction meets every pattern of dead and living among three rows.
  `FreeListExact`, `SpawnOrder`, `StaleNeverResolves` hold, also between two
  passes; `ImplementsHandles` is the refinement to `EntityHandles`.
* **telegraph** (`MCTelegraph.cfg`, 220 771). A boss that alternates a plain and a
  telegraphed pattern and an elite with a telegraph, the smallest cast in which
  two enemies compete for the one window. The times are 1 to 3 ticks, and windows of
  both kinds, windups, cooldowns and stuns overlap in every way.
  `AnnouncedAttackLands`, the action property `AttackRhythm`, and under fairness
  `WindowResolves` and `StunEnds`.
* **battle** (`MCBattle.cfg`, 468 742). Four enemies of three kinds against four hands
  of cards from four formations: all at one point, at the edge of the grid, apart,
  and in a row within the hero's reach. Distances keep the proportions of the game's data, and the proc's chance is two
  fifths, which does not divide 1. `KillsPaidOnce` (kills, points, experience and rolls),
  `LeechSeesEveryHit` (whoever strikes in a cast or a zone but what pierces is in the sum), `RingsFillTheirDisc`, `DecayRunsOut`, `TargetIsBest`,
  `PartsEveryPair`, `StreakBounded`, and `FightEnds` if ticks go on: no push and no
  truncated step keeps the hero away for ever. A deadlock would be an
  error here.
* **card_loop** (`MCCardLoop.cfg`, 220 862). One kill pays for several levels, pools run out
  within one screen, a queue of three overflows, two ticks per frame.
  `OfferIffPending`, `OneCardPerLevel`, `LegendsOnce`, `FirstScreenStops`.
* **items** (`MCItems.cfg`, 576). Three items, three recipes that share ingredients and
  list one twice, real permille values that round. `CraftableExact`,
  `StatsAreWhatIsHeld`, `ScreenTellsTheTruth` (the screen and `craft` decide
  by different data, and agree), `ImplementsBag`.
* **run_progress** (`MCRunProgress.cfg`, 3 593). Three segments, two elites of which one comes
  together with the boss, summons that can fill a store of five rows.
  `NoEliteLost`, `ClearedMeansBossDead`; under fairness `BossComes`. The cap
  counts elites as well, so it is the cap that keeps rows free; with
  `RowsAssumption` broken (two rows) an elite is lost, since `nextEliteIndex` moves
  on although the store had no row. The boss is put off by a full store in no
  behaviour, so `BossComes` says that he comes and nothing of the second try
  at `spawn.h:138`; that this try is never needed is a theorem (`BossFindsARow`).
* **stats** (`MCStatBlock.cfg`, 278 640). Two stats, two sources, up to two conditionals
  beside a multiplier and an override, a Fixed with two binary places so that
  products round differently in a different order. `CacheHonest`,
  `ValueOfModifiers`, `EndedNeverActive`, `ThresholdsFollowGauge`.
* **pools** (`MCPools.cfg`, 756 631). Three orb and two zone places, more pushed than
  fit, several ends in one tick. `NothingOverdue`, `ExplodesOnce`, `OrderKept`.
* **session** (`MCSession.cfg`, 586 584). A run of three ticks that takes every kind of
  input, some in one tick only, into a log with room for two of three; replays for
  every number of ticks, from the start and from a snapshot that may be
  damaged, also in the bit that the checksum skips; reruns that differ in no, one or
  several domains, and calls of the harness with arguments it refuses. `ReplayExact`,
  `FirstDivergence`, and `ReplayEnds` under fairness of the replay's own loop.
* **config** (`MCConfig.cfg`, 62 847). Nine small files and 21 faulty or edited
  versions of them, two edits per host, a draft of one file typed in up to six lexemes of an alphabet of twelve;
  loads that succeed, are refused, throw (an allocation that fails) or trap, and reloads.
  `ReaderExact` (the reader accepts the documents of the grammar and hands out what
  they say), `LoadedIsCoherent`, `SameFilesSameHash`. There is one handle, reloaded,
  with worlds that keep copies: a second handle shares nothing with it, and with two
  of them the run does not end in minutes. The theorems hold for any number.

The bounds (`MaxSpawns`, `MaxEnemies`, `MaxLevel`, `MAX_COUNT`, `MAX_BOOST`,
`MaxTicksPerFrame`, `MaxLost`, `MaxSum`, `MaxTick`, `MaxOrbs`, `MaxZones`,
`MAX_POINTS`, `MaxInputs`, `MAX_DRAFT`, `Edits`) are named in the modules. None of the
mechanisms compares more than two entities, cards, modifiers or entries with each
other, and each bound lets at least one of every array overflow or wrap, or one
more of every counter be reached than its first boundary. `Battle` has none: its
fights end by themselves. `CHECK_DEADLOCK FALSE` stands where a bound, the end of a
run, a dead cast or a trap stops the model. Every passing run also checks the
assumptions on its constants.

Two runs are expected to fail; each shows that the code does not do what
a comment in it says (`findings` in `PROJECT.json`):

* **card_loop_screens**: when two levels are owed, the second screen is dealt by
  `chooseCard` without an event; the loop unpauses with a screen open and then
  refuses every choice (`levelup.h:213`, `RunLoop.cs:118`).
* **battle_bolt**: `boltRun` leaves out the last argument of `applySkillHit`, whose
  default lets a hit execute; `combat.h:476` names the bolt among the calls that
  do not (`combat.h:1150`).

### Where code and comments disagree

Seen while modelling, modelled as the code does it, and no run of their own:

* An enemy that damage over time kills earlier in the tick in which its crisis
  window closes still hits the hero, because `denseOf` finds rows that are marked
  dead (`combat.h:901`, `combat.h:1085-1086`).
* The events of the tick that ends a run are never drained, `RunEnd` among them
  (`TickDriver.cs:134`, `RunLoop.cs:29-30`).
* `rebuildCraftable` evaluates before it stores the new table's hash
  (`inventory.h:138-142`): after a reload with other data nothing can be
  crafted. No host reloads under a running world.
* `separation.h:21-22` says the order of pairs does not matter; positions are
  updated in place, so it does. It is the same in every run, which is what
  reproducibility needs. Two enemies at the same point part in the direction
  their ids decide.
* `combat.h:360` says that what is returned to leech is the health removed; it is
  the damage dealt, overkill included.
* The fingerprint covers each number that is found; a stat or placement that is
  absent reads as zero without a trace in it (`config_loader.h:22-25`). A table of
  the wrong type reads as an empty one (`json.h:150`).
* `approach_ticks` between 1 and `tick_hz - 1` divides by zero while loading
  (`config_loader.h:335-340`): `Trapped` in `Config`.
* `config_loader.h:467-470` says that rates of the forge which do not add up to 1000
  are refused, since with more the tiers at the end are never drawn. The sum is an
  `int32_t` (`config_loader.h:476-483`), so that rates which overflow to 1000 pass in
  a build without UBSan, and `weighted` then adds them up in 64 bits. `RateSum` wraps
  likewise, and the run **config** has such a file (`cards_wrap`); `LoadedIsCoherent`
  therefore claims no more than that the 32-bit sum is 1000.
* `World::checksum` (`world.h:544-597`) covers neither the craftable bits nor the stat
  caches, which `snapshot.h:66-80` saves with the rest: a snapshot damaged there passes the
  comparison of `snapshot.h:95`, and the world it gives decides crafts by the damaged bit.
* A snapshot saved between two inputs of one tick has the first of them fed again after
  `rewind`, and a log that was full has forgotten what came last (`input.h:48`, `input.h:58`):
  `ReplayExact` promises nothing then (`clean`, `lost`).
* A load that throws leaves `loaded` as it was (`dc_abi.cpp:111`), and a loader keeps
  its first error over a reload on the same handle (`config_loader.h:119-122`).

### Fairness

Safety needs none. The liveness questions assume weak fairness of the driver only:

* `Telegraph!FairSpec`: `WF(Tick)`. The host keeps calling `dc_step`, and a tick is a
  straight-line function that runs to its end. Nothing is assumed of the
  player, of dice or of who is in range; therefore `StunEnds` excludes an
  enemy that is stunned anew for ever, and both properties allow the run to end.
* `Battle!FairSpec`: the same driver, `WF(Next)`, written as `TicksGoOn` with the
  `ENABLED` of `Next` spelled out (a tick can run unless the run is over), because TLC would
  otherwise evaluate every system of the tick twice in each state. No choice
  is fair: the fight ends whatever is drawn.
* `RunProgress!FairSpec`: `WF(Systems)`, the same driver. Kills are not fair:
  `BossComes` starts from the points being there.
* `Session!FairSession`: `WF` on the steps of the replay's loop, which is one call
  of `dc_headless_checksum`. `ReplayEnds` says that no log makes it spin.

## 4. What is proved

TLAPS checks these for all values of the constants that satisfy the modules'
named assumptions, and for behaviours of any length.

* **EntityStore** (`StoreAssumption`: at least one row and one generation).
  `TInv` adds to the types that the counters account for every slot, also
  in mid-loop (`w + (count - r) + freeCount = CAPACITY`): this keeps `freeSlots` and
  the rows within their arrays. `SInv` adds that rows and slots point at each
  other and that the free list holds each unused slot once. Handles resolving
  is not inductive without the free list, since a slot given out twice
  would break it. `GInv` adds that a slot's generation counts its releases until
  it wraps and that a retired handle is older. `OInv` orders the numbers of the
  spawns over the rows kept so far and those still to be looked at, which spawn
  order alone does not say in mid-loop. With `MInv == SInv /\ OInv` each step
  of the store is a step of `EntityHandles` or a stutter: a survivor that moves
  changes nothing of the map, and the rows dropped disappear together.
  Theorems: `StoreTypeOK`, `StoreHandlesResolve`, `StoreNoDanglingSlot`,
  `StoreFreeListExact`, `StoreStaleNeverResolves`, `StoreSpawnOrder`,
  `StoreImplementsHandles`.
* **Telegraph** (`TelegraphAssumption`: what the pattern tables keep to).
  `TelInv == TypeOK /\ WindowInv /\ RestInv`. `WindowInv` says that the source of an open
  crisis window is still winding up for at least as long as the window is
  open, and for one tick more if its turn is still to come: hence it cannot load
  its next pattern, whatever stuns and range do to it (`TelegraphAnnouncedAttackLands`).
  `RestInv` says that an enemy's rest and its cooldown left add up to its interval, also
  with one more before its turn; an attack begins when the cooldown is over, so the
  rest is long enough then (`TelegraphAttackRhythm`). Both count `turn`, which is why
  neither property is inductive by itself.
* **LevelUp** (`LevelUpAssumption`: an increasing table of experience, disjoint
  pools). `LInv` is the conjunction of the type and the three accounts:
  experience stays below the next need, a screen is open iff one is owed, levels
  are cards taken plus cards owed; legends once. Theorems `CardsTypeOK`,
  `CardsExpBelowNeed`, `CardsOfferIffPending`, `CardsOnePerLevel`, `CardsLegendsOnce`.
* **CardLoop** (`CardLoopAssumption`). Each step of the loop is one of the cards or a
  stutter (`LoopImplementsCards`), which carries the three accounts over
  (`LoopOfferIffPending`, `LoopOneCardPerLevel`, `LoopLegendsOnce`).
  `LoopFirstScreenStops` needs `ScreenSeen`: between the deal of a screen and the
  end of the tick, its `CardOffer` is in the queue or was lost.
* **Inventory** (`InventoryAssumption`: what `RecipeTable::build` accepts).
  `TypeOK /\ CraftableSound` is inductive even with reloads: a set bit is
  always paid for, so `craft`, which looks at nothing else, never wraps a count
  (`InventoryTypeOK`, `InventoryCraftableSound`), and the whole implements a bag
  (`InventoryImplementsBag`, as a refinement of initial states and steps).
  The key lemma, `EvaluateKept`, is that a recipe the reverse index does not
  name for the changed items evaluates as before.
* **Items** (`ItemsAssumption`). Without reloads the cache is exact
  (`ItemsCraftableExact`), and what was applied to the hero's sums is the rounded
  stats of what is held (`ItemsStatsAreWhatIsHeld`); the invariant needs
  `AppliedIsHeld`, that the memory of what was applied is right, because the code
  adds the difference only. The assumption is that there are finitely many items and
  that stats are whole permilles; what an empty bag and a bag of two parts carry
  is proved from it (`BagStatEmpty`, `BagStatOfSum`). Draws and crafts implement the
  bag too (`ItemsImplementsBag`).
* **CraftQuery** adds no state, so its claim follows from the invariant of `Items`
  (`ItemsScreenTellsTheTruth`): no kind is short exactly if the recipe evaluates
  (`LackingNothing`), and with an exact cache that is its bit; getting what is short
  of each kind is enough (`GapIsEnough`) and less is not (`FewerAreNotEnough`); the
  bag after the craft and the ingredients make up the bag before and the result
  (`DeltaIsTheChange`). Sums over a set are handled through
  `Total`: whatever satisfies the equation by which the library folds a set has its
  value (`EquationIsTotal`), it takes any element apart (`SumAddsUp`), adds up value by
  value and grows with them (`TotalOfSum`, `TotalGrows`).
* **StatBlock** (`StatAssumption`). `CacheInv`: each step leaves a stat dirty,
  freshly read, or alone (`StatCacheHonest`; nothing about `Compute` is needed).
  `StatInv`: each conditional is found through the index by its kind, and
  each active timed one ends at or after the cached earliest end, which
  lies in the future. `EndedNeverActive` alone is not inductive: it needs the
  index to be complete and the earliest end never to be late. Theorems
  `StatTypeOK`, `StatInvariant`, `StatEndedNeverActive`.
  `TidyInv`: every vector ascends by source, the conditionals share no source with
  the other two, and no condition is one that `addConditional` refuses
  (`StatTidy`). In a tidy entry the filter `On` and the two-pointer merge `Merged`
  give the vector, ascending, of the union (`OnElements`, `MergedElements`), its
  sum and its product are those of the set (`SumOfMarks`, `ProductOfMarks`), and the
  smaller of the two heads is the first override (`FirstOverride`). So
  what a read returns is a function of the set in force (`StatValueOfModifiers`).
  Thresholds follow the gauge (`StatThresholdsFollow`) because the index finds
  each of them and because no threshold may stand on `CorruptionMax`: a refresh
  leaves its value, by which the gauge is divided, what it was.
* **RunProgress** (`RunAssumption`, `RowsAssumption`). `Ends` ties the flags of the
  boss to the row it has and the outcome to how it went, in every phase of the tick
  (`RunClearedMeansBossDead`). `Free` says that the store is never overfull and has a row
  left whenever the boss is due (`BossFindsARow`): points come from kills alone, a kill
  frees a row, and `spawnRun` places the boss before anybody else. This needs `RunAssumption`
  only. `Rows` says that the living never exceed the largest
  cap before the boss is there, that segments follow the points, and that elites
  made and elites due add up (`RunNoEliteLost`). `RowsAssumption` is true of the
  game's data (caps of 60 and less and 19 elites for 1024 rows, the last elite at 465 of 484
  points) and checked by no code.
* **Pools** (`PoolAssumption`; in `RunAndPoolsProofs`). The backward loops of
  `zoneRun` and `orbRun` are followed by induction downward over the index: when
  the loop is at place `i`, what lies behind it is what stays, in its order
  (`SweptIs`). `OrbInv` says that no orb outlives the tick it ends in or is
  collected in, `ZoneInv` that the pool holds exactly the zones laid that have
  neither ended nor been given up for room, and which of those have exploded; both
  number the entries by their push, from which `PoolsOrderKept` follows. Theorems
  `PoolsNothingOverdue`, `PoolsExplodesOnce`, `PoolsOrderKept`.
* **Replay and Harness** (`ReplayAssumption`: ticks count up by one, an input does not
  move the clock). `Links`: the worlds of the recorded run form a chain in which
  each link is a tick or the input of one log entry. `Place`: the replay stands
  on that chain, and its cursor is at the first entry not yet passed. So a replay that has
  lost nothing goes along the chain, for every deterministic simulation
  (`SessionReplayExact`). `Passed`: what the harness's two loops have gone through
  agrees with the first run (`SessionFirstDivergence`).

* **Battle** (`FieldAssumption`, `PrdAssumption`, `StrikesAssumption`,
  `BattleAssumption`: integers where the code has them, a grid and a minimal
  distance that are not empty, card values that are not negative; nothing bounds
  enemies, positions, cards or tables). `TypeOK` (`BattleTypes`) also says which
  calls may lie on `work` in which system. On it rest seven theorems:
  - `EveryPairIsParted`. Two points closer than the minimal distance have cells that
    differ by one at most, although division truncates toward zero and cells are
    clamped to the edge (`QuotNear`, `ClampedNear`); and the pairs the loops
    meet have places that tell them apart, as digits of a number do
    (`DigitsDecide`, `PairsEnumerate`).
  - `TheTargetIsBest`. The loop over the rows keeps the best so far, and the order it
    compares by is total because ids differ (`AutoTargetIsBest`).
  - `StreakIsBounded`. The invariant is the property; its step is
    `ProductsCompare`.
  - `KillsArePaidOnce`. The invariant is the property; what has to be shown is that
    a strike, of whichever call, adds to the dead at most its own row, and pays
    exactly if it does (`StrikePays`), experience included, which is a sum over the dead
    (`EarnedAfter`).
  - `DecayDoesRunOut`. `DecayInv` counts a dot against the ticks since the
    hero's last strike, system by system: between `beginTick` and the end of
    `decayRun` the rows whose dot is still to be counted down are one tick ahead,
    and they are exactly those for which a dot lies on `work`, once each. Without
    that account a dot counted down twice or not at all would pass for one
    that was started a tick earlier or later.
  - `LeechIsPaidInFull`. `LeechInv` says that leech comes once among the calls of a
    system, behind every ring (`Shape`), and that, until it is paid, the sum owed is
    what the rows took since the strikes began less what pierced. Rings put calls
    on `work` while they run, which is why the order has to be part of it. `Owing`
    says that, while leech is to be paid, every hit on `work` is of a kind that `Counted` has,
    or pierces: a way of striking left out of the sum would break it.
  - `RingsDoFillTheirDisc`. `RingInv` says that the rings so far are the first
    steps of the iteration in `centrifugeRadius` among those who lived when they
    began, that at most one call goes on from the last of them, and that what is
    called before it strikes only whom they have reached. So a death between two
    passes cannot change whom the next one reaches anew.

  Each of these invariants was checked by TLC on the instance of the run
  **battle** before it was proved. Loops and folds over data are reasoned about
  here through the function their definition makes: it exists by induction over
  the numbers (`SetInduction`, from the least element of a set of numbers that is not
  empty), and from then on only its equation is used (`FoldExists`,
  `IterationExists`, `SumExists`).

* **Config** (`LoadersAssumption`, `ConfigAssumption`: each file has a layout, which
  is a finite list, the texts offered exist and are read into nodes that have a
  number of children; nothing else is assumed of reader, layouts and texts).
  - `WhatIsPlayedIsCoherent`. `GamesBacked` says that the configuration of each
    handle with a fingerprint and of each world is the one that its nine texts
    load to, and that this load was accepted; a load that is refused, throws or
    traps leaves no fingerprint behind, and a world keeps its copy. What is left
    is that the loaders' checks suffice (`AcceptedIsCoherent`): the cards' check of
    the rates holds of what is stored (`CardsHold`), an id that is found has its
    place (`OwnChecksHold`), and the check that no tier with a rate is empty covers
    every tier that can be drawn. The counting sort of `loadItems` is followed by
    the function its fold makes: after `i` items, each of them stands once within
    the bounds of its tier and the next free place of a tier counts those before
    it (`SortPlaces`, `SortIsByTier`, `TierWithItem`).
  - `SameTextsSameGame`, from the same invariant: configuration and fingerprint
    are a function of the texts alone, so nothing of an earlier load shows.

* **Json, ConfigReader** (`JsonAssumption`: the depth limit is a number;
  `ReaderAssumption`: no lexeme is called as the end of a text is).
  `ReaderReadsExactly`: every text of every length is accepted exactly when
  it is a document of the grammar within the depth limit, and then walking its
  nodes by index, as the loaders do, gives that document; `ReaderIsExact` says so
  of whatever can be typed into a draft. Three arguments make it up.
  - *What the grammar says is read* (`GrammarIsRead`). `AllRead` goes by induction over
    the length of a span: the reader that awaits a value, or members of the
    container it is in, and finds a span of them, is behind it with the
    same calls open, and one node or member more.
  - *What is read is of the grammar* (`Sound`). `Held` is kept by every lexeme that is
    no error. Behind lexeme `i` there are, for the nodes, their kids and the tree
    that each is the root of (`Woven`: kids stand behind their parent and have one
    parent, which linking first kid and next sibling keeps); for each open call, the place where its
    container opened, and that a value ending at any later lexeme `j` would
    complete one more of its members there (`Stack`, `Outer`); and for the
    innermost call, how far it is (`Here`). What a call waits for has to be said of
    all later lexemes, because nothing else about the text is remembered
    while the calls inside it run.
  - *Walking gives the same tree* (`TreeAtRoot`). `Elem` follows a chain of siblings, which
    are the kids (`ElemIsKid`), and kids stand behind their parent, so
    the trees agree from the last node to the first (`TreesAreWoven`).

  `ReaderGivesDocuments` says that `Parse` meets, for every text, accepted or
  refused, what `ConfigAssumption` asks of a reader: a lexeme that is an error adds
  no node (`StepKeeps`).

Only model-checked: all liveness (`WindowResolves`, `StunEnds`, `FightEnds`,
`BossComes`, `ReplayEnds`), since fairness and ENABLED are beyond the prover. Every
safety property that a run checks is stated by a theorem. Recursion over data is
written as recursive functions, whose equations hold because such a function exists:
by induction over the numbers in `Battle`, and over the weight of a span (the shorter
it is, the earlier) for the grammar (`SpelledHolds`).

## 5. What is not modelled

* The whole of `stepWorld` in one module. `Telegraph` has the enemies' attacks with
  free choices for geometry, `Battle` the hero's with numbers, `RunProgress` the
  spawns, `Pools` orbs; what one of them leaves free covers what
  the others do. The composition is too large for TLC.
* Critical hits, swarm, rage and tide as formulas: one `AttackPower` stands for all of it, also where
  two powers of a tick are worked out with different numbers of living. Card grades and values, purge amounts.
* Random streams: each draw is a free choice, which covers every seed. The
  arithmetic of SplitMix64 and its rejection loop is left out.
* Spelling in JSON texts (escapes, digits), the conversion of permille numbers while
  loading, `ItemMeta`; collisions of checksums and of the fingerprint.
* The copying getters of the ABI and C# marshalling: I/O.
* Tests, benchmarks, Monte Carlo tools and the Python checks of the game data: they
  drive the core from outside.
* In `RunProgress`: the forge relic (it is part of `Items`), several maps
  (`mapIndex` never moves in this code), hit points by segment.
* In `StatBlock`: `setBase` and `setBounds`, which run before the first tick, and the
  wrap of 32-bit sums.
* A power failure or a torn write: the core keeps nothing on disk. A snapshot is a
  buffer the host gives back. `Damage` changes its header, or its body to any of the
  worlds of a small set. The checksum finds what it covers; what it does not cover
  (bits and caches that are derived) is loaded as it is, and then no replay is
  promised (`Unseen`, `clean`).

## 6. Plan

What was done, in order: the entity store, on which all else rests; the combat tick
with its telegraphs; levels and the client loop; inventory; run progress; stat
block; pools; then recording and replay, the configuration, and the
battle with geometry and numbers; then proofs for all of these. What would come next:

1. `Replay` over the combat of `Battle` instead of a stand-in, so that
   reproducibility and the rules of a tick are stated of one system.
2. The reload of a table under a running world, once a host does that.

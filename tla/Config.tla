------------------------------- MODULE Config -------------------------------
(***************************************************************************)
(* From nine data files to a simulation (config_loader.h, dc_config_* and  *)
(* dc_world_create_with of dc_abi.cpp, SimConfig of SimWorld.cs).  A host  *)
(* hands the texts to a handle and loads it; the loader parses all of      *)
(* them, reads them in a fixed order, checks what one file says against    *)
(* another, folds every number into a fingerprint, and the worlds copy     *)
(* what it read.                                                           *)
(*                                                                         *)
(* The reader is a parameter: Json has the one of the code.  The           *)
(* fingerprint is the sequence of the numbers folded in (FNV-1a has no     *)
(* collisions here), <<>> before a load succeeds.                          *)
(***************************************************************************)
EXTENDS Loaders

CONSTANTS
  Read(_),       \* Doc::parse, from a text to its document
  Text,          \* [edition -> text], what the files hold, by the name of an edition
  Base,          \* [File -> edition], the data as released
  Editions,      \* [File -> SUBSET editions], what an edit can make of a file
  Alphabet,      \* the lexemes a draft is typed of
  MAX_DRAFT,     \* bound of the model: lexemes of a draft
  Handles,       \* the hosts' DcConfig handles
  Edits,         \* [Handles -> Nat], bound of the model: files a host replaces
  Worlds

Unset == "unset"     \* no buffer
Draft == "draft"     \* the edition being typed

(* A document counts the kids of its nodes, whatever was read.             *)
IsDocument(d) == \A v \in DOMAIN d.nodes : d.nodes[v].kidCount \in Nat

(* Only hero.json is ever a draft: a bound of the model.                   *)
ASSUME ConfigAssumption ==
  /\ Base \in [File -> DOMAIN Text]
  /\ {Unset, Draft} \cap DOMAIN Text = {}
  /\ \A f \in File : Editions[f] \subseteq DOMAIN Text \cup {Draft}
  /\ \A f \in File : Draft \in Editions[f] => f = "hero"
  /\ \A e \in DOMAIN Text : IsDocument(Read(Text[e]))

VARIABLES
  draft,     \* a text on its way
  texts,     \* [Handles -> [File -> edition]], ConfigLoader::text_
  err,       \* [Handles -> [file, key]], errFile_ and errKey_
  loaded, cfg, hash,   \* the rest of ConfigHandle; hash is cfg.dataHash
  worlds,    \* [Worlds -> the cfg and hash copied (and from), or NoWorld]
  edits,     \* bound: edits made by handle
  from,      \* history: the texts that cfg was read from
  crashed    \* a host died of a trap

configVars == <<draft, texts, err, loaded, cfg, hash, worlds, edits, from, crashed>>

----------------------------------------------------------------------------
Documents == [e \in DOMAIN Text |-> Read(Text[e])]
Doc(e) == IF e = Draft THEN Read(draft) ELSE Documents[e]

(* The first file without a buffer, or that does not parse.                *)
FirstUnread(h) ==
  LET i == SelectInSeq(Files, LAMBDA f : texts[h][f] = Unset \/ Doc(texts[h][f]).err # NoText)
  IN  IF i = 0 THEN NoError ELSE [file |-> Files[i], key |-> "none"]

(* approach_ticks / tick_hz is 0: loadMonsters divides by it.              *)
DividesByZero(d) ==
  LET ticks == I32(d["spawn"], <<"approach_ticks">>)
      hz    == I32(d["progression"], <<"tick_hz">>)
  IN  ticks \in 1 .. hz - 1

----------------------------------------------------------------------------
NoFiles == [f \in File |-> Unset]
NoWorld == [cfg |-> BlankConfig, hash |-> <<>>, from |-> NoFiles, live |-> FALSE]

ConfigInit ==
  /\ draft = <<>>
  /\ texts = [h \in Handles |-> NoFiles]
  /\ err = [h \in Handles |-> NoError]
  /\ loaded = [h \in Handles |-> FALSE]
  /\ cfg = [h \in Handles |-> BlankConfig]
  /\ hash = [h \in Handles |-> <<>>]
  /\ worlds = [w \in Worlds |-> NoWorld]
  /\ edits = [h \in Handles |-> 0]
  /\ from = [h \in Handles |-> NoFiles]
  /\ crashed = FALSE

handleVars == <<err, loaded, cfg, hash, from>>

(* A text that no further lexeme can mend.                                 *)
Hopeless(text) ==
  LET d == Read(text)
  IN  d.err # NoText /\ (d.errAt <= Len(text) \/ d.err = "unclosed_string")

(* A draft is typed before the hosts start, and stays.                     *)
TypeDraft ==
  /\ \A h \in Handles : texts[h]["hero"] = Unset /\ edits[h] = 0 /\ err[h] = NoError
  /\ \A w \in Worlds : ~worlds[w].live
  /\ Len(draft) < MAX_DRAFT /\ ~Hopeless(draft)
  /\ \E l \in Alphabet : draft' = Append(draft, l)
  /\ UNCHANGED <<texts, worlds, edits, crashed, handleVars>>

(* SimConfig's constructor hands over the nine files.  A bound of the      *)
(* model: not while a draft is anything but a whole object.                *)
Fill(h) ==
  /\ texts[h]["hero"] = Unset
  /\ draft # <<>> => LET d == Read(draft) IN d.err = NoText /\ Type(d, Root(d)) = "object"
  /\ texts' = [texts EXCEPT ![h] = Base]
  /\ UNCHANGED <<draft, worlds, edits, crashed, handleVars>>

(* dc_config_set: another text in the place of a file.  A bound of the     *)
(* model: with a draft under way it is the only edit.                      *)
Set(h, f, e) ==
  /\ texts[h]["hero"] # Unset
  /\ edits[h] < Edits[h] /\ (draft # <<>> => e = Draft)
  /\ e # texts[h][f]
  /\ texts' = [texts EXCEPT ![h][f] = e]
  /\ edits' = [edits EXCEPT ![h] = @ + 1]
  /\ UNCHANGED <<draft, worlds, crashed, handleVars>>

DocsOf(h) == [f \in File |-> Doc(texts[h][f])]

(* mutant: the fingerprint goes on from the load before.                   *)
LoadedKeepsHash(h, c, fed) ==
  /\ loaded' = [loaded EXCEPT ![h] = TRUE]
  /\ cfg' = [cfg EXCEPT ![h] = c]
  /\ hash' = [hash EXCEPT ![h] = @ \o fed]
  /\ from' = [from EXCEPT ![h] = texts[h]]
  /\ UNCHANGED <<err, crashed>>

(* The load goes through.                                                  *)
Loaded(h, c, fed) ==
  /\ loaded' = [loaded EXCEPT ![h] = TRUE]
  /\ cfg' = [cfg EXCEPT ![h] = c]
  /\ hash' = [hash EXCEPT ![h] = fed]
  /\ from' = [from EXCEPT ![h] = texts[h]]
  /\ UNCHANGED <<err, crashed>>

(* What is left when a load stops: the recipe table is not reset, unless   *)
(* its own build refuses, which then has no recipes.                       *)
Stopped(h, why) ==
  [BlankConfig EXCEPT !.recipes = IF why = Failure("items", "recipes") THEN <<>> ELSE cfg[h].recipes]

(* Refused.  Nothing clears the error of an earlier load, and fail keeps   *)
(* the first.  What the loaders before the failing one read is never used  *)
(* again, and is left out.                                                 *)
Refused(h, why) ==
  /\ err' = [err EXCEPT ![h] = IF @ = NoError THEN why ELSE @]
  /\ loaded' = [loaded EXCEPT ![h] = FALSE]
  /\ cfg' = [cfg EXCEPT ![h] = Stopped(h, why)]
  /\ hash' = [hash EXCEPT ![h] = <<>>]
  /\ from' = [from EXCEPT ![h] = NoFiles]
  /\ UNCHANGED crashed

(* An allocation fails, in the parser or in loadItems: the exception       *)
(* passes by the assignment to loaded.                                     *)
Thrown(h, left) ==
  /\ cfg' = [cfg EXCEPT ![h] = left]
  /\ hash' = [hash EXCEPT ![h] = <<>>]
  /\ from' = [from EXCEPT ![h] = NoFiles]
  /\ UNCHANGED <<err, loaded, crashed>>

(* Integer division by zero in loadMonsters, where it traps.               *)
Trapped == crashed' = TRUE /\ UNCHANGED handleVars

(* How a load can end.  d is the documents, c what they configure, unread  *)
(* the error before the loaders run and why the error of the whole load.   *)
Ends(h, d, c, unread, why) ==
  \/ why = NoError /\ Loaded(h, c, Fed(d, c))
  \/ why # NoError /\ Refused(h, why)
  \/ texts[h]["hero"] # Unset /\ Thrown(h, Stopped(h, NoError))
  \/ why = NoError /\ Thrown(h, [c EXCEPT !.recipes = cfg[h].recipes])
  \/ /\ unread = NoError /\ DividesByZero(d)
     /\ why.file \notin {"stats", "hero", "progression", "spawn", "segments"}
     /\ Trapped

Why(unread, d) == IF unread # NoError THEN unread ELSE FirstRefused(d, LoadOrder)

LoadOf(h, d, unread) == Ends(h, d, Configured(d), unread, Why(unread, d))

(* dc_config_load                                                          *)
Load(h) ==
  /\ LoadOf(h, DocsOf(h), FirstUnread(h))
  /\ UNCHANGED <<draft, texts, worlds, edits>>

(* dc_config_destroy; the next host creates a new handle.                  *)
Destroy(h) ==
  /\ texts[h]["hero"] # Unset
  /\ texts' = [texts EXCEPT ![h] = NoFiles]
  /\ err' = [err EXCEPT ![h] = NoError]
  /\ loaded' = [loaded EXCEPT ![h] = FALSE]
  /\ cfg' = [cfg EXCEPT ![h] = BlankConfig]
  /\ hash' = [hash EXCEPT ![h] = <<>>]
  /\ from' = [from EXCEPT ![h] = NoFiles]
  /\ UNCHANGED <<draft, worlds, edits, crashed>>

(* dc_world_create_with and initWorld: the world has its own copy.         *)
CreateWorld(h, w) ==
  /\ loaded[h] /\ ~worlds[w].live
  /\ worlds' = [worlds EXCEPT ![w] = [cfg |-> cfg[h], hash |-> hash[h],
                                      from |-> from[h], live |-> TRUE]]
  /\ UNCHANGED <<draft, texts, edits, crashed, handleVars>>

(* dc_world_destroy                                                        *)
DestroyWorld(w) ==
  /\ worlds[w].live
  /\ worlds' = [worlds EXCEPT ![w] = NoWorld]
  /\ UNCHANGED <<draft, texts, edits, crashed, handleVars>>

ConfigNext ==
  /\ ~crashed
  /\ \/ TypeDraft
     \/ \E h \in Handles :
          \/ Fill(h)
          \/ \E f \in File : \E e \in Editions[f] : Set(h, f, e)
          \/ Load(h) \/ Destroy(h)
          \/ \E w \in Worlds : CreateWorld(h, w)
     \/ \E w \in Worlds : DestroyWorld(w)

ConfigSpec == ConfigInit /\ [][ConfigNext]_configVars

----------------------------------------------------------------------------
(* The configurations with a fingerprint, in a handle or in a world.       *)
Games ==
  {g \in {[cfg |-> cfg[h], hash |-> hash[h], from |-> from[h]] : h \in Handles}
           \cup {[cfg |-> worlds[w].cfg, hash |-> worlds[w].hash, from |-> worlds[w].from] : w \in Worlds} :
     g.hash # <<>>}

(* A configuration with a fingerprint, in a handle or copied to a world,   *)
(* hangs together across its files whatever was loaded, replaced and       *)
(* reloaded before: the forge draws each tier by rates that an int32_t     *)
(* adds up to 1000 and finds an item, the items of a tier stand together   *)
(* and once, the legends name skills that exist, and recipes name items    *)
(* (config_loader.h loadCards and loadItems).                              *)
Coherent(c) ==
  LET tierOf(i) == {t \in 1 .. Len(c.tierStart) - 1 :
                      \E k \in c.tierStart[t] + 1 .. c.tierStart[t + 1] : c.tierItems[k] = i}
  IN  /\ RateSum(c.forgeRate) = 1000
      /\ \A t \in DOMAIN c.forgeRate : c.forgeRate[t] > 0 =>
           t < Len(c.tierStart) /\ c.tierStart[t] < c.tierStart[t + 1]
      /\ Range(c.tierItems) = DOMAIN c.tiers
      /\ \A i \in DOMAIN c.tiers : tierOf(i) = {c.tiers[i]}
      /\ 0 \notin Range(c.uniqueSkill)
      /\ \A r \in DOMAIN c.recipes :
           Range(c.recipes[r].needs) \cup {c.recipes[r].result} \subseteq DOMAIN c.tiers

LoadedIsCoherent == \A g \in Games : Coherent(g.cfg)

(* Two hosts that loaded the same texts play the same game and say so,     *)
(* whatever either loaded, failed to load or threw away before             *)
(* (dc_abi.h:222, config_loader.h load).                                   *)
SameFilesSameHash ==
  \A g, o \in Games : g.from = o.from => g.hash = o.hash /\ g.cfg = o.cfg
=============================================================================

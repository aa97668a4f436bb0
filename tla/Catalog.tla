------------------------------- MODULE Catalog -------------------------------
(***************************************************************************)
(* ModelCatalog (packages/plugin/src/adapter/catalog.ts): the free models  *)
(* that the adapter offers, from the upstream's list (S1), the prices of   *)
(* models.dev (S2) with a cache file for the times it cannot be reached,   *)
(* and a verified list compiled in (S3). start() refreshes until the list  *)
(* is there and then arms an interval; nothing keeps two refreshes apart.  *)
(*                                                                         *)
(* A refresh asks for both halves at once; each await is a point where     *)
(* another refresh, a stop or a crash of the process comes in between. Of  *)
(* the metadata the model keeps the verdict on a model; the reasoning      *)
(* levels, the age of the list and the error text are left out.            *)
(***************************************************************************)
EXTENDS Integers, FiniteSets

CONSTANTS
  Models,
  FreeNamed,     \* isFreeModel: "free" is part of the name
  Static,        \* staticFreeModels
  Unavailable,   \* knownUnavailableModels
  Answers,       \* metadata that models.dev may answer with: model -> verdict
  Refreshes,     \* refreshes that may be in flight together
  MaxAttempts    \* retries of start() while the list is empty

Verdicts == {"absent", "free", "paid", "unknown", "deprecated"}

Metadata == [Models -> Verdicts]

\* No metadata was learned yet, or no cache file can be used.
Pending == [m \in Models |-> "absent"]

ASSUME CatalogAssumption ==
  /\ FreeNamed \subseteq Models /\ Static \subseteq Models /\ Unavailable \subseteq Models
  /\ Static \cap Unavailable = {}
  /\ Answers \subseteq Metadata /\ Pending \notin Answers
  /\ Refreshes # {}
  /\ MaxAttempts \in Nat

VARIABLES
  zen,      \* #zen
  prices,   \* #prices
  ready,    \* #pricesReady
  cache,    \* the usable content of the cache file, or Pending
  refresh,  \* refresh -> how far its two halves are
  boot,     \* of start(): [phase, attempts, awaits]
  timer,    \* the interval is armed
  stopped   \* #stopped

catalogVars == <<zen, prices, ready, cache, refresh, boot, timer, stopped>>

\* learned: the metadata that this refresh is about to save.
Refresh == [zen: {"asked", "settled"},
            meta: {"asked", "writing", "removed", "loading", "settled"}, learned: Metadata]

NoRefresh == [zen |-> "settled", meta |-> "settled", learned |-> Pending]

CatalogTypeOK ==
  /\ zen \subseteq Models /\ prices \in Metadata /\ ready \in BOOLEAN
  /\ cache \in Metadata
  /\ refresh \in [Refreshes -> Refresh]
  /\ boot \in [phase: {"new", "refreshing", "waiting", "ended"}, attempts: 0 .. MaxAttempts,
               awaits: Refreshes]
  /\ timer \in BOOLEAN /\ stopped \in BOOLEAN
  /\ ~ready => prices = Pending

AnyRefresh == CHOOSE r \in Refreshes : TRUE

Booting == [phase |-> "new", attempts |-> 0, awaits |-> AnyRefresh]

CatalogInit ==
  /\ zen = {} /\ prices = Pending /\ ready = FALSE
  /\ cache = Pending
  /\ refresh = [r \in Refreshes |-> NoRefresh]
  /\ boot = Booting
  /\ timer = FALSE /\ stopped = FALSE

(***************************************************************************)
(* The verdict on a model.                                                 *)
(***************************************************************************)
Decision(allowed, known, source) == [allowed |-> allowed, known |-> known, source |-> source]

Fallback(m, source) ==
  IF m \in FreeNamed THEN Decision(TRUE, FALSE, "name_free") ELSE Decision(FALSE, FALSE, source)

\* Slip: the name is asked first, as in the program this one was ported from.
DecideByName(m) ==
  CASE m \in Unavailable -> Decision(FALSE, TRUE, "known_unavailable")
    [] m \in FreeNamed -> Decision(TRUE, FALSE, "name_free")
    [] ~ready -> Fallback(m, "metadata_pending")
    [] prices[m] = "absent" -> Fallback(m, "metadata_model_missing")
    [] prices[m] = "deprecated" -> Decision(FALSE, TRUE, "metadata_deprecated")
    [] prices[m] = "free" -> Decision(TRUE, TRUE, "metadata_free")
    [] prices[m] = "unknown" -> Decision(FALSE, FALSE, "metadata_cost_unknown")
    [] OTHER -> Decision(FALSE, TRUE, "metadata_paid")

Decide(m) ==
  CASE m \in Unavailable -> Decision(FALSE, TRUE, "known_unavailable")
    [] m \notin Unavailable /\ ~ready -> Fallback(m, "metadata_pending")
    [] m \notin Unavailable /\ ready ->
         CASE prices[m] = "absent" -> Fallback(m, "metadata_model_missing")
           [] prices[m] = "deprecated" -> Decision(FALSE, TRUE, "metadata_deprecated")
           [] prices[m] = "free" -> Decision(TRUE, TRUE, "metadata_free")
           [] prices[m] = "unknown" -> Decision(FALSE, FALSE, "metadata_cost_unknown")
           [] prices[m] = "paid" -> Decision(FALSE, TRUE, "metadata_paid")

\* decision: a verified model stays, unless the metadata says it is paid for.
Allowed(m) ==
  \/ Decide(m).allowed
  \/ m \in Static /\ (~Decide(m).known \/ Decide(m).source = "metadata_deprecated")

List == IF zen = {} THEN Static ELSE {m \in zen : Allowed(m)}

(***************************************************************************)
(* A refresh.                                                              *)
(***************************************************************************)
Idle(r) == refresh[r] = NoRefresh

Asks(r) == refresh' = [refresh EXCEPT ![r] = [zen |-> "asked", meta |-> "asked", learned |-> Pending]]

Settles(r, half) == refresh' = [refresh EXCEPT ![r][half] = "settled"]

ZenAnswers(r, list) ==
  /\ refresh[r].zen = "asked" /\ list # {}
  /\ zen' = list
  /\ Settles(r, "zen")
  /\ UNCHANGED <<prices, ready, cache, boot, timer, stopped>>

\* An error, or an empty list.
ZenFails(r) ==
  /\ refresh[r].zen = "asked"
  /\ Settles(r, "zen")
  /\ UNCHANGED <<zen, prices, ready, cache, boot, timer, stopped>>

MetadataAnswers(r, answer) ==
  /\ refresh[r].meta = "asked"
  /\ prices' = answer /\ ready' = TRUE
  /\ refresh' = [refresh EXCEPT ![r].meta = "writing", ![r].learned = answer]
  /\ UNCHANGED <<zen, cache, boot, timer, stopped>>

\* saveMetadataCache: the file is removed before the new one takes its place.
SaveRemoves(r) ==
  /\ refresh[r].meta = "writing"
  /\ cache' = Pending
  /\ refresh' = [refresh EXCEPT ![r].meta = "removed"]
  /\ UNCHANGED <<zen, prices, ready, boot, timer, stopped>>

SaveRenames(r) ==
  /\ refresh[r].meta = "removed"
  /\ cache' = refresh[r].learned
  /\ refresh' = [refresh EXCEPT ![r].meta = "settled", ![r].learned = Pending]
  /\ UNCHANGED <<zen, prices, ready, boot, timer, stopped>>

\* A failure of the save; the metadata stays.
SaveFails(r) ==
  /\ refresh[r].meta \in {"writing", "removed"}
  /\ refresh' = [refresh EXCEPT ![r].meta = "settled", ![r].learned = Pending]
  /\ UNCHANGED <<zen, prices, ready, cache, boot, timer, stopped>>

\* The cache is read only while nothing better is known.
MetadataFails(r) ==
  /\ refresh[r].meta = "asked"
  /\ refresh' = [refresh EXCEPT ![r].meta = IF ready THEN "settled" ELSE "loading"]
  /\ UNCHANGED <<zen, prices, ready, cache, boot, timer, stopped>>

\* Slip: an empty cache counts as metadata.
LoadsAnything(r) ==
  /\ refresh[r].meta = "loading"
  /\ prices' = cache /\ ready' = TRUE
  /\ Settles(r, "meta")
  /\ UNCHANGED <<zen, cache, boot, timer, stopped>>

\* What was learned while the file was read is overwritten.
Loads(r) ==
  /\ refresh[r].meta = "loading"
  /\ IF cache = Pending THEN UNCHANGED <<prices, ready>> ELSE prices' = cache /\ ready' = TRUE
  /\ Settles(r, "meta")
  /\ UNCHANGED <<zen, cache, boot, timer, stopped>>

\* The cache file gets too old to be used.
CacheExpires ==
  /\ cache # Pending /\ cache' = Pending
  /\ UNCHANGED <<zen, prices, ready, refresh, boot, timer, stopped>>

(***************************************************************************)
(* start, stop and the interval.                                           *)
(***************************************************************************)
CatalogStart(r) ==
  /\ boot.phase = "new" /\ Idle(r)
  /\ boot' = [boot EXCEPT !.phase = "refreshing", !.awaits = r]
  /\ Asks(r)
  /\ UNCHANGED <<zen, prices, ready, cache, timer, stopped>>

\* Slip: start() arms the interval without asking again.
ArmsUnasked ==
  /\ boot.phase = "refreshing" /\ Idle(boot.awaits)
  /\ IF zen = {} /\ boot.attempts < MaxAttempts /\ ~stopped
     THEN boot' = [boot EXCEPT !.phase = "waiting", !.attempts = @ + 1] /\ UNCHANGED timer
     ELSE boot' = [boot EXCEPT !.phase = "ended"] /\ timer' = TRUE
  /\ UNCHANGED <<zen, prices, ready, cache, refresh, stopped>>

\* Slip: start() retries for as long as the list is empty.
RetriesForever ==
  /\ boot.phase = "refreshing" /\ Idle(boot.awaits)
  /\ IF zen = {} /\ ~stopped
     THEN boot' = [boot EXCEPT !.phase = "waiting"] /\ UNCHANGED timer
     ELSE boot' = [boot EXCEPT !.phase = "ended"] /\ timer' = ~stopped
  /\ UNCHANGED <<zen, prices, ready, cache, refresh, stopped>>

\* The refresh that start() awaits has settled.
Continues ==
  /\ boot.phase = "refreshing" /\ Idle(boot.awaits)
  /\ IF zen = {} /\ boot.attempts < MaxAttempts /\ ~stopped
     THEN boot' = [boot EXCEPT !.phase = "waiting", !.attempts = @ + 1] /\ UNCHANGED timer
     ELSE boot' = [boot EXCEPT !.phase = "ended"] /\ timer' = ~stopped
  /\ UNCHANGED <<zen, prices, ready, cache, refresh, stopped>>

Retries(r) ==
  /\ boot.phase = "waiting" /\ Idle(r)
  /\ IF stopped THEN boot' = [boot EXCEPT !.phase = "ended"] /\ UNCHANGED refresh
     ELSE boot' = [boot EXCEPT !.phase = "refreshing", !.awaits = r] /\ Asks(r)
  /\ UNCHANGED <<zen, prices, ready, cache, timer, stopped>>

Tick(r) ==
  /\ timer /\ Idle(r)
  /\ Asks(r)
  /\ UNCHANGED <<zen, prices, ready, cache, boot, timer, stopped>>

\* stop() leaves the refreshes in flight alone.
Stop ==
  /\ ~stopped /\ stopped' = TRUE
  /\ timer' = FALSE
  /\ UNCHANGED <<zen, prices, ready, cache, refresh, boot>>

\* The process ends, wherever it is, and another one starts.
Restart ==
  /\ boot.phase # "new"
  /\ zen' = {} /\ prices' = Pending /\ ready' = FALSE
  /\ refresh' = [r \in Refreshes |-> NoRefresh]
  /\ boot' = Booting
  /\ timer' = FALSE /\ stopped' = FALSE
  /\ UNCHANGED cache

Settling(r) ==
  \/ \E list \in SUBSET Models : ZenAnswers(r, list)
  \/ ZenFails(r)
  \/ \E answer \in Answers : MetadataAnswers(r, answer)
  \/ MetadataFails(r) \/ SaveRemoves(r) \/ SaveRenames(r) \/ SaveFails(r) \/ Loads(r)

CatalogNext ==
  \/ \E r \in Refreshes : Settling(r) \/ CatalogStart(r) \/ Retries(r) \/ Tick(r)
  \/ Continues \/ Stop \/ CacheExpires \/ Restart

\* Requests and file operations come to an end, one way or the other.
CatalogFairness ==
  /\ \A r \in Refreshes : WF_catalogVars(Settling(r))
  /\ WF_catalogVars(Continues) /\ WF_catalogVars(\E r \in Refreshes : Retries(r))

CatalogSpec == CatalogInit /\ [][CatalogNext]_catalogVars /\ CatalogFairness

(***************************************************************************)
(* Properties.                                                             *)
(***************************************************************************)

\* The reference for decide and decision: whether the metadata may speak.
Silent(m) == ~ready \/ prices[m] = "absent"

Vouched(m) ==
  m \notin Unavailable /\
    \/ ready /\ prices[m] = "free"
    \/ Silent(m) /\ m \in FreeNamed \cup Static
    \/ ready /\ prices[m] \in {"unknown", "deprecated"} /\ m \in Static

\* What is offered is the upstream's list cut down to the models that metadata
\* or, where it is silent, name or verification vouch for, and the verified
\* ones while there is no list: whatever order answers, failures, restarts and
\* the cache came in.
OffersOnlyVouched ==
  List = IF zen = {} THEN Static ELSE {m \in zen : Vouched(m)}

\* Metadata counts as ready only when it says something about some model, also
\* when it came from a cache that a crash cut short.
ReadyMeansLearned == ready => \E m \in Models : prices[m] # "absent"

\* The types, and metadata that was learned before it counts.
CatalogInv == CatalogTypeOK /\ ReadyMeansLearned

\* A stop at any point of start() leaves no interval behind.
NoTimerAfterStop == stopped => ~timer

\* start() comes to an end, with the interval armed or stopped meanwhile.
StartEnds == boot.phase = "refreshing" ~> (boot.phase = "ended" \/ boot.phase = "new")
=============================================================================

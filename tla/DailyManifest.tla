---------------------------- MODULE DailyManifest ----------------------------
(***************************************************************************)
(* Connection of the Day's calendar: connection_daily_manifest.py and its  *)
(* commands, the gate that publishes it and dailyManifest.ts, which        *)
(* resolves a date in the browser.  A frozen schedule gives each date one  *)
(* round of one generation of the rounds pool; schema 2 (ADR 0066) lets a  *)
(* manifest span several generations, each with a rounds file of its own.  *)
(*                                                                         *)
(* A rounds file is the pool it says it is (its provenance triple) and the *)
(* content of every round it holds; an entry's fingerprint is the content  *)
(* its round had.  The operator's working copy and the published site are  *)
(* the same kind of record.  A schema-1 manifest is one generation at the  *)
(* live URL whose entries carry no generation.                             *)
(***************************************************************************)
EXTENDS Naturals, Sequences, FiniteSets, SequencesExt

CONSTANTS Rounds,       \* content-derived round ids
          OneHop,       \* those that are real one-hop rounds
          Contents,     \* what a fingerprint tells apart
          Pools,        \* generations of the rounds pool
          PoolRounds,   \* the rounds each pool was generated with
          Similar,      \* pairs of rounds that share a record or a performer
          Urls, Live,   \* where rounds files are published; Live is rounds.v1.json
          Generations,  \* generation ids
          NoGeneration, NoFile, NoManifest, NoDay,
          StartDates, BuildDays, ExtendDays,  \* what an operator asks for
          FirstPool,    \* the pool the calendar starts from
          LastDay,      \* bound: the days the model lives through
          MaxCommands   \* bound: commands run after the first build

Entry == [date : Nat, id : Rounds, fp : Contents, gen : Generations \cup {NoGeneration}]
Manifest ==
  [schema : {1, 2}, start : Nat, schedule : Seq(Entry),
   generations : Seq([id : Generations \cup {NoGeneration}, pool : Pools, url : Urls])]
File == [pool : Pools, rounds : UNION {[ids -> Contents] : ids \in SUBSET Rounds}]
Copy == [manifest : Manifest \cup {NoManifest}, files : [Urls -> File \cup {NoFile}]]

RoundsFile(p) == [pool |-> p, rounds |-> PoolRounds[p]]

ASSUME ConstantsFit ==
  /\ IsFiniteSet(Rounds) /\ OneHop \subseteq Rounds
  /\ Live \in Urls /\ FirstPool \in Pools
  /\ \A p \in Pools : RoundsFile(p) \in File
  /\ Similar \subseteq SUBSET Rounds
  /\ {LastDay, MaxCommands} \cup StartDates \subseteq Nat
  /\ BuildDays \cup ExtendDays \subseteq Nat \ {0}

\* What stands for nothing is no file, manifest or day.
ASSUME NothingIsNothing ==
  NoFile \notin File /\ NoManifest \notin Manifest /\ NoDay \notin Nat

\* MUTANT of _MIN_CUTOVER_LEAD_DAYS: the next UTC day.
CutoverTomorrow == 1

_MIN_CUTOVER_LEAD_DAYS == 2

VARIABLES tree,      \* the operator's working copy
          site,      \* what is published
          day,       \* the UTC date
          migrated,  \* the first generated_at of the migrations not published yet
          page,      \* a daily page
          shown,     \* history: the rounds dealt for each date
          overtaken, \* history: dates that a migration came too late for
          commands   \* bound

vars == <<tree, site, day, migrated, page, shown, overtaken, commands>>

Days == 0 .. LastDay + 1

(* On a day of UTC players may be on any date up to the next (UTC+14).      *)
Reached(d, on) == d <= on + 1

----------------------------------------------------------------------------
(* Schedules.                                                               *)

Eligible(file) == DOMAIN file.rounds \cap OneHop

\* MUTANT of EntryHolds: the fingerprint is not compared.
EntryHoldsById(e, file) == e.id \in Eligible(file)

EntryHolds(e, file) == e.id \in Eligible(file) /\ file.rounds[e.id] = e.fp

Scheduled(entries) == {entries[i].id : i \in DOMAIN entries}

(* A schedule is in date order.                                             *)
EntriesBefore(entries, date) ==
  SubSeq(entries, 1, Cardinality({i \in DOMAIN entries : entries[i].date < date}))

Conflict(a, b) == {a, b} \in Similar

Swapped(s, i, j) == [s EXCEPT ![i] = s[j], ![j] = s[i]]

(* The round at i makes room for the nearest later one that does not        *)
(* repeat its predecessor; without one the repeat stays.                    *)
Unrepeat(s, i, previous) ==
  LET later == {j \in i + 1 .. Len(s) : ~Conflict(s[j], previous)}
  IN IF ~Conflict(s[i], previous) \/ later = {} THEN s
     ELSE Swapped(s, i, CHOOSE j \in later : \A k \in later : j <= k)

(* One forward pass, from the second round on.                              *)
ForwardPass(s) ==
  LET pass[i \in 0 .. Len(s)] ==
        IF i < 2 THEN s ELSE Unrepeat(pass[i - 1], i, pass[i - 1][i - 1])
  IN pass[Len(s)]

\* MUTANT of _quality_scheduled_order: what precedes the new days is ignored.
order_within(shuffled, before) == ForwardPass(shuffled)

(* before is <<>> or the last scheduled round.                              *)
_quality_scheduled_order(shuffled, before) ==
  ForwardPass(IF before = <<>> \/ shuffled = <<>> THEN shuffled
              ELSE Unrepeat(shuffled, 1, before[1]))

(* What may be scheduled for days dates from first on: any shuffle, put in  *)
(* order, cut to the rounds there are.                                      *)
NewEntries(ids, file, before, first, days, g) ==
  {[k \in 1 .. (IF days < Len(s) THEN days ELSE Len(s)) |->
      [date |-> first + k - 1, id |-> s[k], fp |-> file.rounds[s[k]], gen |-> g]] :
     s \in {_quality_scheduled_order(t, before) : t \in SetToSeqs(ids)}}

----------------------------------------------------------------------------
(* Validation: graph-core's validators, the contracts package's port of     *)
(* them, and the gate.                                                      *)

Contiguous(schedule) ==
  \A i \in 2 .. Len(schedule) : schedule[i].date = schedule[i - 1].date + 1

GenerationIds(m) == {m.generations[i].id : i \in DOMAIN m.generations}
Generation(m, g) == CHOOSE x \in ToSet(m.generations) : x.id = g
Newest(m) == Last(m.generations)

(* Both shapes: a contiguous schedule from start_date on, no round twice.   *)
WellFormed(m) ==
  /\ m.schedule # <<>> /\ m.schedule[1].date = m.start /\ Contiguous(m.schedule)
  /\ IsInjective([i \in DOMAIN m.schedule |-> m.schedule[i].id])

(* supplied gives each generation its rounds file, or NoFile.               *)
validate_connection_daily_manifest_v2(m, supplied) ==
  /\ m.schema = 2 /\ WellFormed(m)
  /\ IsInjective([i \in DOMAIN m.generations |-> m.generations[i].id])
  /\ \A g \in ToSet(m.generations) : supplied[g.id] # NoFile => supplied[g.id].pool = g.pool
  /\ \A e \in ToSet(m.schedule) :
       e.gen \in GenerationIds(m) /\ supplied[e.gen] # NoFile /\ EntryHolds(e, supplied[e.gen])

validate_connection_daily_manifest(m, file) ==
  /\ m.schema = 1 /\ WellFormed(m) /\ file # NoFile /\ Newest(m).pool = file.pool
  /\ \A e \in ToSet(m.schedule) : EntryHolds(e, file)

(* The files on disk at the URLs the generations name.                      *)
Supplied(m, files) ==
  [g \in GenerationIds(m) |-> files[Generation(m, g).url]]

\* MUTANT of _daily_manifest_failures: a schema-2 manifest is not verified.
failures_of_v1_only(copy) ==
  copy.manifest.schema = 1 /\ ~validate_connection_daily_manifest(copy.manifest, copy.files[Live])

(* validate-public-artifacts: the live rounds are a self-consistent         *)
(* artifact and the manifest holds of the files beside it.                  *)
_daily_manifest_failures(copy) ==
  ~ IF copy.manifest.schema = 2
    THEN validate_connection_daily_manifest_v2(copy.manifest, Supplied(copy.manifest, copy.files))
    ELSE validate_connection_daily_manifest(copy.manifest, copy.files[Live])

Publishable(copy) ==
  /\ copy.manifest # NoManifest /\ copy.files[Live] = RoundsFile(copy.files[Live].pool)
  /\ ~_daily_manifest_failures(copy)

----------------------------------------------------------------------------
(* The commands.  Each verifies everything, then writes the working copy.   *)

Command == commands < MaxCommands /\ commands' = commands + 1
Outside == <<site, day, page, shown, overtaken>>
Write(m) == tree' = [tree EXCEPT !.manifest = m]

build_connection_daily_manifest(start, days) ==
  /\ tree.manifest = NoManifest /\ Eligible(tree.files[Live]) # {}
  /\ \E new \in NewEntries(Eligible(tree.files[Live]), tree.files[Live], <<>>, start, days, NoGeneration) :
       Write([schema |-> 1, start |-> start, schedule |-> new,
              generations |-> <<[id |-> NoGeneration, pool |-> tree.files[Live].pool, url |-> Live]>>])
  /\ UNCHANGED <<Outside, migrated, commands>>

(* Dates are added after the last one, from the rounds not used yet.        *)
Extended(m, file, days) ==
  LET last == Last(m.schedule)
      free == Eligible(file) \ Scheduled(m.schedule)
  IN {[m EXCEPT !.schedule = @ \o new] :
        new \in NewEntries(free, file, <<last.id>>, last.date + 1, days, Newest(m).id)}

extend_connection_daily_manifest(days) ==
  /\ Command
  /\ tree.manifest # NoManifest
  /\ LET m == tree.manifest
         file == tree.files[Live]
     IN /\ m.schema = 1 /\ Newest(m).pool = file.pool
        /\ \A e \in ToSet(m.schedule) : EntryHolds(e, file)
        /\ Eligible(file) \ Scheduled(m.schedule) # {}
        /\ \E m2 \in Extended(m, file, days) :
             validate_connection_daily_manifest(m2, file) /\ Write(m2)
  /\ UNCHANGED <<Outside, migrated>>

(* Only the newest generation grows, from the live pool; the files of the   *)
(* older ones are supplied for the validation of the result.                *)
extend_connection_daily_manifest_v2(days) ==
  /\ Command
  /\ tree.manifest # NoManifest
  /\ LET m == tree.manifest
         g == Newest(m).id
         file == tree.files[Live]
         newest == {e \in ToSet(m.schedule) : e.gen = g}
     IN /\ m.schema = 2 /\ Newest(m).pool = file.pool
        /\ newest # {} /\ \A e \in newest : EntryHolds(e, file)
        /\ Eligible(file) \ Scheduled(m.schedule) # {}
        /\ \E m2 \in Extended(m, file, days) :
             /\ validate_connection_daily_manifest_v2(m2, [Supplied(m2, tree.files) EXCEPT ![g] = file])
             /\ Write(m2)
  /\ UNCHANGED <<Outside, migrated>>

(* A change of shape only: the one generation gets a name and a URL.        *)
upgrade_connection_daily_manifest_to_v2(g, url) ==
  /\ Command
  /\ tree.manifest # NoManifest /\ tree.manifest.schema = 1
  /\ Write([schema |-> 2, start |-> tree.manifest.start,
            generations |-> <<[Newest(tree.manifest) EXCEPT !.id = g, !.url = url]>>,
            schedule |-> [i \in DOMAIN tree.manifest.schedule |->
                            [tree.manifest.schedule[i] EXCEPT !.gen = g]]])
  /\ UNCHANGED <<Outside, migrated>>

(* The guards of repoint_connection_daily_manifest_generation.              *)
MayRepoint(m, file, g, url) ==
  /\ m.schema = 2 /\ g \in GenerationIds(m)
  /\ \A other \in ToSet(m.generations) : other.url = url => other.id = g
  /\ Generation(m, g).pool = file.pool
  /\ \A e \in ToSet(m.schedule) : e.gen = g => EntryHolds(e, file)

repoint_connection_daily_manifest_generation(m, g, url) ==
  [m EXCEPT !.generations = [i \in DOMAIN @ |->
                               IF @[i].id = g THEN [@[i] EXCEPT !.url = url] ELSE @[i]]]

(* The frozen copy is written, then the manifest; a frozen file is never    *)
(* overwritten with other bytes.  The command may die between the two.      *)
freeze_generation(g, source, url) ==
  /\ Command
  /\ tree.manifest # NoManifest /\ tree.files[source] # NoFile
  /\ MayRepoint(tree.manifest, tree.files[source], g, url)
  /\ tree.files[url] \in {NoFile, tree.files[source]}
  /\ LET files == [tree.files EXCEPT ![url] = tree.files[source]]
     IN \E m \in {tree.manifest, repoint_connection_daily_manifest_generation(tree.manifest, g, url)} :
          tree' = [manifest |-> m, files |-> files]
  /\ UNCHANGED <<Outside, migrated>>

(* Dates from the cutover on are replaced by rounds of a new generation,    *)
(* the live pool (ADR 0066).  generated_at is what the operator hands in,   *)
(* never read off a clock.                                                  *)
migrate_connection_daily_manifest_generation(cutover, g, days, generated_at) ==
  /\ Command
  /\ tree.manifest # NoManifest
  /\ LET m == tree.manifest
         file == tree.files[Live]
         kept == EntriesBefore(m.schedule, cutover)
         free == Eligible(file) \ Scheduled(kept)
         generation == [id |-> g, pool |-> file.pool, url |-> Live]
         old == Supplied(m, tree.files)
     IN /\ m.schema = 2
        /\ cutover >= generated_at + _MIN_CUTOVER_LEAD_DAYS
        /\ g \notin GenerationIds(m)
        /\ \A other \in ToSet(m.generations) : other.url # Live
        /\ kept # <<>> => cutover = Last(kept).date + 1
        /\ \A e \in ToSet(kept) :
             /\ old[e.gen] # NoFile
             /\ e.id \in DOMAIN old[e.gen].rounds /\ old[e.gen].rounds[e.id] = e.fp
        /\ free # {}
        /\ \E new \in NewEntries(free, file, IF kept = <<>> THEN <<>> ELSE <<Last(kept).id>>,
                                 cutover, days, g) :
             LET m2 == [m EXCEPT !.generations = Append(@, generation), !.schedule = kept \o new]
             IN /\ validate_connection_daily_manifest_v2(m2, [x \in GenerationIds(m2) |->
                                                                IF x = g THEN file ELSE old[x]])
                /\ Write(m2)
  /\ migrated' = IF migrated = NoDay \/ generated_at < migrated THEN generated_at ELSE migrated
  /\ UNCHANGED Outside

(* build-connection-rounds overwrites the live pool.                        *)
Regenerate(p) ==
  /\ Command
  /\ tree' = [tree EXCEPT !.files[Live] = RoundsFile(p)]
  /\ UNCHANGED <<Outside, migrated>>

(* A frozen rounds file is edited by hand: one round's content changes and  *)
(* the provenance it declares does not.  (The live file's artifact_version  *)
(* is recomputed by its own contract, so such an edit of it is not merged.) *)
EditFile(url, r, c) ==
  /\ Command
  /\ url # Live /\ tree.files[url] # NoFile /\ r \in DOMAIN tree.files[url].rounds
  /\ tree' = [tree EXCEPT !.files[url].rounds[r] = c]
  /\ UNCHANGED <<Outside, migrated>>

(* The change is merged when the checks pass, and the site built from it,   *)
(* on whatever day that is.                                                 *)
Deploy ==
  /\ Publishable(tree) /\ tree # site
  /\ site' = tree /\ migrated' = NoDay
  /\ overtaken' = overtaken \cup
       {d \in Days : migrated # NoDay /\ Reached(d, day) /\ ~Reached(d, migrated)}
  /\ UNCHANGED <<tree, day, page, shown, commands>>

(* The change is abandoned.                                                 *)
Discard ==
  /\ tree # site /\ tree' = site /\ migrated' = NoDay
  /\ UNCHANGED <<Outside, commands>>

----------------------------------------------------------------------------
(* The daily page: the live rounds, the player's local date, the manifest,  *)
(* and for a date of another generation that generation's file.             *)

NoPage == [pc |-> "closed"]
PlayerDates == {d \in Days : d \in {day - 1, day, day + 1}}

OpenPage ==
  /\ page = NoPage /\ site.manifest # NoManifest
  /\ \E d \in PlayerDates : page' = [pc |-> "manifest", loaded |-> site.files[Live], date |-> d]
  /\ UNCHANGED <<tree, site, day, migrated, shown, overtaken, commands>>

fetchDailyManifest ==
  /\ page.pc = "manifest"
  /\ page' = [pc |-> "resolve", loaded |-> page.loaded, date |-> page.date, manifest |-> site.manifest]
  /\ UNCHANGED <<tree, site, day, migrated, shown, overtaken, commands>>

(* The round resolveDailyRound deals, with its content: none is one of its  *)
(* typed failures.                                                          *)
resolveDailyRound(m, loaded, date, files) ==
  LET file(e) == IF m.schema = 1 \/ loaded.pool = Generation(m, e.gen).pool
                 THEN loaded ELSE files[Generation(m, e.gen).url]
      due == {e \in ToSet(m.schedule) :
                /\ e.date = date /\ e.gen \in GenerationIds(m)
                /\ file(e) # NoFile /\ file(e).pool = Generation(m, e.gen).pool
                /\ EntryHolds(e, file(e))}
  IN {<<e.id, file(e).rounds[e.id]>> : e \in due}

ClosePage ==
  /\ page.pc = "resolve"
  /\ shown' = [shown EXCEPT ![page.date] = @ \cup
                 resolveDailyRound(page.manifest, page.loaded, page.date, site.files)]
  /\ page' = NoPage
  /\ UNCHANGED <<tree, site, day, migrated, overtaken, commands>>

(* Midnight UTC.  Pages are short.                                          *)
Tick ==
  /\ day < LastDay /\ page = NoPage /\ site.manifest # NoManifest
  /\ day' = day + 1
  /\ UNCHANGED <<tree, site, migrated, page, shown, overtaken, commands>>

----------------------------------------------------------------------------
Init ==
  /\ tree = [manifest |-> NoManifest,
             files |-> [u \in Urls |-> IF u = Live THEN RoundsFile(FirstPool) ELSE NoFile]]
  /\ site = tree
  /\ day = 0 /\ migrated = NoDay
  /\ page = NoPage
  /\ shown = [d \in Days |-> {}]
  /\ overtaken = {}
  /\ commands = 0

Next ==
  \/ \E start \in StartDates, days \in BuildDays : build_connection_daily_manifest(start, days)
  \/ \E days \in ExtendDays : extend_connection_daily_manifest(days)
  \/ \E days \in ExtendDays : extend_connection_daily_manifest_v2(days)
  \/ \E g \in Generations, url \in Urls : upgrade_connection_daily_manifest_to_v2(g, url)
  \/ \E g \in Generations, source \in Urls, url \in Urls : freeze_generation(g, source, url)
  \/ \E cutover \in Days, g \in Generations, days \in ExtendDays, generated_at \in 0 .. LastDay :
       migrate_connection_daily_manifest_generation(cutover, g, days, generated_at)
  \/ \E p \in Pools : Regenerate(p)
  \/ \E url \in Urls, r \in Rounds, c \in Contents : EditFile(url, r, c)
  \/ Deploy \/ Discard
  \/ OpenPage \/ fetchDailyManifest \/ ClosePage
  \/ Tick

Spec == Init /\ [][Next]_vars

----------------------------------------------------------------------------
TypeOK ==
  /\ tree \in Copy /\ site \in Copy
  /\ day \in 0 .. LastDay /\ migrated \in 0 .. LastDay \cup {NoDay}
  /\ page # NoPage => page.pc \in {"manifest", "resolve"} /\ page.date \in Days
  /\ page.pc = "resolve" => page.manifest \in Manifest
  /\ shown \in [Days -> SUBSET (Rounds \X Contents)] /\ overtaken \subseteq Days
  /\ commands \in 0 .. MaxCommands

(* A claim of the documentation that the code does not keep: every player   *)
(* who opens a date ever gets the same round for it with the same content,  *)
(* as a migration "can never be used to rewrite a date that might already   *)
(* have been reached by any player, anywhere".                              *)
DateKeepsItsRound == \A d \in Days : Cardinality(shown[d]) <= 1

(* A date is dealt two rounds, or two contents of one, only if a migration  *)
(* came too late for it: players reached the date after the generated_at    *)
(* the migration names and before it was published.  Whatever else is       *)
(* regenerated, edited, frozen, extended or migrated between two visits, or *)
(* between two requests of one page, leaves a date its round.               *)
OnlyOvertakenDatesChange == \A d \in Days : Cardinality(shown[d]) > 1 => d \in overtaken

(* What the gate lets through is what the browser can resolve: a page that  *)
(* reads one published site deals every date on its schedule.               *)
ScheduledResolves ==
  site.manifest # NoManifest =>
    \A e \in ToSet(site.manifest.schedule) :
      resolveDailyRound(site.manifest, site.files[Live], e.date, site.files) = {<<e.id, e.fp>>}

(* "A forced repeat": two adjacent days share a record or a performer only  *)
(* if every round of the pool that was still free does so too -- across the *)
(* joints of extensions and migrations as well as inside one build.         *)
RepeatsAreForced ==
  tree.manifest # NoManifest =>
    LET m == tree.manifest
        free(i) == (DOMAIN PoolRounds[Generation(m, m.schedule[i].gen).pool] \cap OneHop)
                     \ {m.schedule[k].id : k \in 1 .. i}
    IN \A i \in 2 .. Len(m.schedule) :
         Conflict(m.schedule[i].id, m.schedule[i - 1].id) =>
           \A r \in free(i) : Conflict(r, m.schedule[i - 1].id)

(* The calendar of a manifest, as the players know it.                      *)
Published(m) ==
  IF m = NoManifest THEN <<>>
  ELSE [d \in {e.date : e \in ToSet(m.schedule)} |->
          LET e == CHOOSE x \in ToSet(m.schedule) : x.date = d IN <<e.id, e.fp>>]

(* The day whose dates the next publication keeps.                          *)
AsOf == IF migrated = NoDay \/ migrated > day THEN day ELSE migrated

Calendar == INSTANCE FrozenCalendar
              WITH today <- day, calendar <- Published(site.manifest), asOf <- AsOf

(* Publishing never changes or takes away a date players had reached on the *)
(* day its migration names, leaves no gap, and gives no two dates one round.*)
CalendarIsFrozen == Calendar!Spec
=============================================================================

# wdb in TLA+

wdb (met.no's weather and water database) is a set of SQL functions, C and C++
code that runs inside PostgreSQL backends, and a few programs around them.  Its
core stores *values* (grids in files, point values in tables), each with a data
provider, a place, times, parameters and a data version, and answers `wci.read`.

These modules describe what the code does when several backends use it at the
same time, when transactions are undone and when processes die; how the
metadata functions transform their tables over long sequences of calls; how a
read takes its arguments apart, which query it builds from them, and which points
of a grid it returns over the caches that earlier reads have left; and what the
programs of administrators do.  TLC checks small instances; TLAPS proves the main
results for every number of backends, grids, names, geometries and so on.

## 1. Inventory

Paths are below `src/src`.

| Part | State it keeps | Operations | What is hard | Module |
|---|---|---|---|---|
| Grid store, `blob/` | table `file_blob`, a sequence, a directory of files | `reserve_file_id`, `write_file`, `drop_file`, `vacuum_file_blob`, `remove_unreferenced_files`, `read_file`, `cache_file` | files are outside transactions: interleavings, aborts, crashes, ages | `FileBlob`, `BlobStore`, `FileBlobStore`, `FileBlobProofs`; names and contents of files: `GridFile` |
| Nightly cleaner, `cleaningProgram/` | `clean.strategies` | `cleanupdb` | one transaction over rows and files | in `FileBlob` (`StrategyDrop` and the cleaner's steps), in `GridValue` and `FloatValue` (removers, `Browse`, `Low`) |
| Grid values, `callInterface/api/wciWrite`, `wciRemove`, `core/wciWriteInternals`, `database/gridValue*` | table `gridvalue`, deletion trigger | `wci.write`, `wci.remove` | versions and reference counts computed from snapshots | `GridValue`, `GridValueProofs` |
| Point values, the same files, `database/floatValue*` | `floatvaluegroup`, `floatvalueitem` | `wci.write`, `wci.remove` | the same, with groups shared between reference times | `FloatValue`, `FloatValueProofs` |
| Places, `api/wciMetaPlace*`, `database/placeDefinition*` | places, names with times of validity, a materialized view | add, update and name points, polygons and grids; look up | interval arithmetic over calls, a view kept by triggers | `PlaceName`, `PlaceNameProofs` |
| Data providers, `api/wciMetaDataProvider` | providers, names, nested sets | add, name, group; look up | renumbering of the sets | `DataProvider`, `MetadataProofs` |
| Materialized views, `database/materializedView`, `*Triggers` | copies of views | refresh in triggers | overlapping refreshes | `MaterializedView`, `MetadataProofs` |
| Session, `api/wciBegin`, `wciEnd`, `core/wciSession`, `core/wciRead/ReadStore` | a static C++ object, the role, a static map of names | `wci.begin`, `wci.end`, name lookups of `wci.read` | C++ state that no rollback undoes | `WciSession`, `MetadataProofs` |
| Read path, `core/wciRead`, `core/wciRead/query` | prepared plans, the store of a set-returning read, caches | `wci.read` for values and for grid identifiers | caches that outlive a read; queries put together from seven optional arguments | `ReadFloat`, `ReadFloatProofs`, `ReadQuery` |
| Specification types, `callInterface/types` | none | parsers of locations, times, levels, parameters | texts that can be read in two ways | `Specification` |
| Extraction, `core/wciRead/extractGridData` | caches of readers, geometries and texts; objects that wrappers share | points, polygons, interpolation | caches keyed by part of what they hold, use counts, rounding, edges of grids | `ReadFloat`, `ReadFloatProofs`, `PointReader`, `GridFile`, `GeomWrapper`, `GeometryProofs` |
| Projections and geometries of grids, `common/projection`, `common/math`, `core/projTransform` | a cache of projections; corners and outline of a grid, computed once | transform coordinates; outline of a grid | a pointer into a cache that may be emptied; values kept after a change | `Projection`, `GeometryProofs`, `GridGeometry` |
| Browsing, `api/wciBrowse`, `core/wciBrowse` | none | `wci.browse` | the queries of reads, grouped | in `ReadQuery` (partly) |
| Configuration of programs, `common/configuration` | options of the command line, three files, the environment | `wdbConfiguration`, the start of `wdb` | sources one after the other, missing or malformed | `Configuration`, `AdminProofs` |
| Administration program, `admin/` | a prompt, a connection, roles | `createuser`, `changeuser`, `dropuser` and nine others | transactions that are attempted again, other administrators | `AdminProgram`, `AdminProofs` |
| Parameters, parties, namespaces | metadata tables | insert or update | - | not modelled, but for the view of parameters |
| Aggregates, logging, schema, installation | none that is shared | - | - | not modelled |

The parts meet in PostgreSQL transactions and in the state of a backend.
`wci.write` reserves a grid, inserts the value and writes the file; deleting the
last value that refers to a grid fires a trigger that drops the grid; the cleaner
removes values, vacuums dropped grids and scans the directory.  `wci.read` needs
the session, resolves names through it and through the materialized views,
becomes a query, finds values by version, and for each grid asks the caches for
its specification, reader, geometries and points, whose values it reads from the
file of the grid, through projections when the grid has one.

The properties that make each part correct are in the last section of its
module; `PROJECT.json` lists the hazards, each at its line, and the properties
that watch over it.

## 2. Plan

1. The grid store, because it is the only part whose state PostgreSQL does not
   protect, and its abstract specification. *Done.*
2. Values and versions on top of it (`GridValue`, `FloatValue`, over the common
   `ReadCommitted`). *Done.*
3. Metadata: `PlaceName`, `DataProvider`, `MaterializedView`. *Done for calls
   that do not overlap; views with overlap.*
4. `WciSession`. *Done.*
5. The read path: the set-returning reads and their caches (`ReadFloat`,
   `GeomWrapper`, `Projection`). *Done.*
6. Pure algorithms against references over bounded inputs: texts of
   specifications (`Specification`), queries (`ReadQuery`), points that a location
   selects (`PointReader`), names and contents of files (`GridFile`), outlines of
   grids (`GridGeometry`). *Done.*
7. The programs of administrators (`Configuration`, `AdminProgram`). *Done.*
8. Proofs: the grid store and its refinement, `GridValue`, `FloatValue`,
   `WciSession`, `MaterializedView`, `DataProvider`, `PlaceName`, `ReadFloat`'s caches
   and what its reads return, `GeomWrapper`, `Projection`, `GridGeometry`, the lines and
   cells of `PointReader`, `Configuration`, `AdminProgram`. *Done.*

What is left, in order of what it would add:

- calls of the metadata functions that overlap, over `ReadCommitted` tables, and
  the check-then-insert functions of parameters and parties with them;
- the cleaning strategy that selects values by their reference times;
- the composition of `GridValue` and `BlobStore`: a value that can be read has a
  grid that can be read;
- proofs of what lookups of definitions of places list.

## 3. Modules

### Transactions

All of wdb runs at READ COMMITTED, PostgreSQL's default: every statement of a
(volatile) function sees the rows committed when it starts and the changes of
its own transaction, and waits for rows that another transaction has changed.
`ReadCommitted` has the operators: a row has a committed state `now`, and, when
transaction `by` has changed it, an uncommitted state `next`; `Seen`, `Free`,
`Put`, `Committed` and `RolledBack` say what statements see, wait for and do,
and what COMMIT and ROLLBACK make of a table.  An absent row is a state of the
row.  `FileBlob` has the same in variables of its own (`row`, `lock`, `draft`).
PostgreSQL is not part of the repository; these definitions are marked external
in the map.  A step of a model is at most one statement; an `UPDATE` or `DELETE`
of several rows takes its snapshot in one step and changes each row in a step of
its own.

### FileBlob

A client takes an identifier (`ReserveFileId`, not transactional), inserts the row
(`InsertRow`), removes a file that exists (`RemoveExisting`), writes the temporary
file (`WriteTemporary`), renames it (`RenameFile`) and returns, which closes the
stream (`CloseFile`).  `unflushed` says that the data is still in the buffer of the
stream: `writeFile` tests `f.good()` and renames before anything flushes it.
`DropFile` is the update by the deletion trigger; the cleaner does it through its
strategies (`StrategyDrop`).  `VacuumStart`, `VacuumUnlink` and `VacuumDelete` are
`vacuum_file_blob()`: the loop's snapshot, the unlinking, the `DELETE` with a later
snapshot.  `ScanStart`, `ScanCheck` and `ScanUnlink` are
`remove_unreferenced_files()`: the identifiers, one directory entry at a time, the
removal by name.  `ReadCheck` and `ReadData` are the reading functions.  `Age` lets a
file pass the limit of 3600 seconds.

Constants name what the environment may do: `Leftover` (files from an earlier
database), `Timely` (a write transaction and a scan that overlap take less than
an hour together, see the comment in `fileblobImpl.h`), `Strategies`,
`CleanerAborts`, `FlushFails`.

`BlobStore` says what the rest of wdb relies on: a grid is free, stored, dropped,
gone, in this order; a reader of a stored grid gets all of it, unless the grid is
dropped meanwhile.  `FileBlobStore` maps `FileBlob` to it.

### GridValue and FloatValue

`GridValue` has the rows of `gridvalue` and of `file_blob`.  `WriteNew` and
`WriteShared` are the overloads of `wci.write` up to the choice of the version;
`UpdateStart`, `UpdateRow`, `InsertValue` and `FinishWrite` the update of
`maxdataversion`, the insertion with its unique index and `write_file`.
`RemoveStart`, `DeleteRow`, `Trigger` and `RemoveEnd` are `wci.remove`, with the
trigger run once for every deleted row, after the deletion.  `Removal` says what is
removed: `"any"` set of rows that a caller may select, or what the cleaner's
`clean_dataversions()` selects (`"low"`): `Browse` finds the highest data version and
`Low` lists the rows that the call with the versions below it, or with NULL, is for.
`removed` is a history variable: that -1 selects the highest version can only be
expected until something is removed, as an update of `maxdataversion` does not follow
a removal, and a writer that has chosen a version before it may write it afterwards.
`WriteShared` is `wci.write(returnGid)`, which inserts a row for any grid identifier that
it is given, also for one of a grid that has been dropped since the client read it, or that
there never was; `bare` is the history variable for the grids that have been named while no
row referred to them, of which nothing can be promised.  The other overload for grid
identifiers, with the rest as single arguments, raises an error before it changes anything
and has no action.  `Numbering` says who chooses versions: wci.write (`"auto"`),
loaders in ascending order, or loaders in any order.

`FloatValue` is the counterpart for one field of point values: a group for each
version, an item for each version and reference time; the state of an item is
its `maxdataversion`.

### PlaceName

A row of `placename` is a record; the functions are actions that transform the
set of rows and, through the triggers, the materialized view.  A call that
raises an error changes nothing and has no action; the constraints of the table
(`Legal`, `CanInsert`) are therefore guards.  `AddOrUpdatePlacePoint` and
`AddOrUpdatePlacePolygon` go through the branches of the SQL in its order
(`AdjustOwn`).  `PlaceId` and `PlaceDefinition` are the two lookups.

### DataProvider

`rows` are the names with their intervals, `parent` remembers what
administrators asked for (it is not in the code).  The three updates of
`addDataProviderToGroup` are one step, as each depends on values read before.  A row has
the day from which the name is valid, since the constraint on the table is about
namespace, name and day (`Clashes`): `setDataProviderName` gives a name to a second provider
on another day, and so does `addDataProvider` to a new one when the name has blanks around
it.  A name then stands for both, which is what `GroupsAreRight` says.  Of two
providers of a name, `addDataProviderToGroup` takes any; `NamesMayJoin` says that administrators
group by names for which that makes no difference.

### MaterializedView

`refreshMV` and `updateplacespec`, in transactions that change the base table:
each copy in the view is a row with its own lock.  `whole` is chosen at the beginning
and says which of the two functions the triggers call; `overlap` is a history
variable, set when a transaction begins while another is open.

### WciSession

One connection: the role (which a rollback restores), the static session
object and the static map of place names (which nothing restores), with and
without transaction blocks.  Other connections give names to places (`Renames`).

### Specification and ReadQuery

`Specification` takes texts apart as the parsers do: a text is a sequence of words,
numbers, brackets, whole geometries and white space, so that a keyword can be a
part of a name.  `Location`, `TimeSpec`, `LevelSpec` and `Parameter` have the order of
the tests in the code.  The operators `Written...`, used by the properties only, write
a text down.

`ReadQuery` is what `WciReadParameterCollection`, `Builder` and the functions of
`core/wciRead/query` make of seven optional arguments, as a function from the rows of
a view to how often they are in the answer: joins can return a row twice.
`NULL` is no condition, an empty array is an error, and locations that need a
geometry look for it under the name.  `AnswerIsRight` compares the result with what
the arguments mean, said once for a single row.  Where an argument can be read in two
ways, a wide and a narrow one (`Fits`: a period is before an instant if it begins, or if
all of it is; any level of one parameter, or of all), it says that what suits in the narrow
reading is selected and what does not suit in the wide one is not; `PeriodsAreBeforeOrAfter`
says of times what the manual says.  `BrowseIsRight` does it for the
queries of `wci.browse`.  Places and geometries lie on a line.

### ReadFloat

The set-returning functions behind `wci.read` hand out one row per call.  `Start`
and `StartGid` are their first calls, which also clear the geometries; `NextFloat`,
`OpenGrid` (with `OpenBareGrid` for a row whose place is no grid, and `EndGrids`
when there are no more), `NextPoint` and `NextGid` the others: the loop of
`ReadStoreGridReturnNext` is one step for each grid that it opens.  `specs`, `readers`,
`geoms`, `indices`, `wkts` and `plans` are the caches of the backend with their keys
as in the code: a key may leave out a field of what it stands for.  `NextPointPurged`
is the branch for coordinates that are not in the cache any more; `NoDanglingPoint`
says that no read comes to it.  `CachePurge` is `wci.readCachePurge`.  A backend that has
crashed is followed by one with empty caches (`Reconnect`).

### GeomWrapper

The constructors, copies, assignments and destructors of `GEOSGeomWrapper`, which
share an object with a use count; an address can be used again.

### PointReader, GridFile

`PointReader` has the arithmetic of `SinglePointReader` and `PolygonReader` in
integers: a coordinate is a number of units of 0.00001 degrees, an index is kept as a
distance to be divided by the step, roundings are those of the code.  Its reference
definitions say which points a location should select.  `GridFile` has the name of a
file (sixteen hexadecimal digits in the code, three of base four in the run, with
the ids wrapped round) and the reading of one value at an offset.

### GridGeometry, Projection

A `GridGeometry` computes its corners and its outline when they are first asked for, and
keeps them; it may be changed afterwards, which `mixed` remembers: `GeometryIsRight` says
nothing of what was computed before a change.  In `Projection`, `live` is the objects that
exist, by address, and `cache` the addresses in the map, which is emptied when it has more
than `MaxProjections` (512) entries.  A transformation asks for two pointers, one after the other;
`Owned` is what `boost::shared_ptr` keeps from being deleted, and an address that is free may
be given to the next object.

### Configuration

The layers of options in the order in which they are read, each of which may be
missing, malformed, or give a port that is no number, and the environment.  The options
library parses a value only when it does not leave the option alone: a bad port in a file is
not noticed when an earlier source gave one (`PortFails`).  A value is named after the source
that it comes from, so that a result tells which one came first.  The program is
`wdb`, which connects, or `wdbConfiguration`, which prints.

### AdminProgram

A program takes a command from its command line or from its prompt (`Typed`) and
performs it in a transaction, one action for each statement, with up to `Attempts`
attempts; roles and memberships are `ReadCommitted` tables.  External are
libpqxx, which begins each attempt with a new copy of the transactor and makes no other
when it is in doubt about the COMMIT, and the fact that a statement about a
role waits for one that is pending.  `answer` is what the user reads.  The commands that
change no role are steps that succeed or fail.  `others` and `alone` are history
variables: what other administrators have committed since the command began.

### Instances

`MCReadPath`, `MCMetadata` and `MCAdmin` contain several modules that share
no state; `part` says which of them moves in a behaviour, and the others stay in one of
their initial states.  Modules that theorems are about are extended, so that a run checks
the very definitions that the theorems name; a property of one of the other modules has the
same name there.

### Mutants

Some definitions have a variant just before them, marked *Mutant*, which is a
plausible slip in the code they model.  No specification uses a mutant; each is
there to show that the property it is listed with in `PROJECT.json` notices.

## 4. Runs

`MC*.tla` instantiate the modules; a run is one of their `.cfg` files.  Backends,
names, fields and places are model values, with symmetry between those of one
kind in runs that check no liveness.  The modules of the grid store, values and
metadata have a type invariant that a run checks.

| Run | Checks | What it shows |
|---|---|---|
| `blob_store` (`MCFileBlobStore_refines.cfg`) | TypeOK, ActiveHasFile, ReaderSeesWhole, ScanRemovesOnlyOrphans, ScanSparesYoung, AbortedDropKeepsFile, StorePromise | Clients, a reader and a cleaner that may be killed at any point: no interleaving of writing, dropping, vacuuming, scanning and aborting loses the file of an active grid, shows a reader a part of one or scans away the file of a running transaction; and the table and the directory together implement the abstract store that the rest of wdb relies on. |
| `blob_live` (`MCFileBlob_live.cfg`) | OrphansAreRemoved, DroppedAreVacuumed, NoForeignData | With files left by an earlier database, transactions of any length, full disks and strategies: under the fairness of a nightly cleaner the files of aborted writes are removed and dropped grids vacuumed, and a reader never gets the file of an earlier database. |
| `grid_latest` (`MCGridValue_latest.cfg`) | TypeOK, LatestIsHighest, NoLeakedGrid | Two backends that write numbered versions of a field and remove rows or low versions at the same time: data version -1 is the highest version until something is removed, and no grid stays without a value, through triggers, rollbacks and waiting. |
| `grid_shared` (`MCGridValue_shared.cfg`) | NoDanglingValue, AtMostOneSelected | One backend that also writes values for grids that it names, there or not, in transactions of many calls that may be undone: the trigger's count keeps a grid as long as a value refers to it, unless it was named when none did, and a negative data version never selects two values of a field, whatever was removed. |
| `float_all` (`MCFloatValue_all.cfg`) | TypeOK, LatestIsHighest, ItemHasGroup | Two backends that write numbered point values and remove any of them, or low versions: data version -1 is the highest version until something is removed, and no value is left without its group. |
| `metadata` (`MCMetadata_all.cfg`) | TypesAreRight, GroupsAreRight, SetsAreNested, ViewIsComplete, ViewIsExact, NameIsCurrent, StatementsKeepRole | Providers of one namespace in groups of plain providers, added, named and grouped in any order, with names that two of them have from different days on; two backends that rebuild a view, or the rows of one place in it, at the same time; one connection with transaction blocks, failures and rollbacks, while others name places: the nested sets are the groups, no row of a view gets lost, and none is there twice or too long as long as rebuildings do not overlap; no statement brings role and session apart, and the map of names gives what the names stand for. |
| `read_path` (`MCReadPath_all.cfg`) | GeometriesAreHeld, ReadIsComplete, NoDanglingPoint, PlansAreBounded, SpecificationsAreUnderstood, AnswersAreRight, PointsAreRight, GeometryIsRight, ProjectionsAreLive, ViewIsCurrent, CallIsHonoured, NewPointIsClear, ReadEnds | Reads of one session in any order over the caches that earlier ones have left, with grids that differ in one field of their specification: every read returns all rows with its own coordinates, keeps what it still needs, and ends; geometries live as long as they are held. Texts of locations, times, levels and parameters mean what they say; queries with one or two arguments select what suits both; points, polygons and bilinear values are those of the grid, and read from the right file; outlines are rings; the two projections of a transformation live while it uses them, although the cache may be emptied in between; and, for all calls that add and name places in namespace 0 and two others, the view follows the names, a call that succeeds is honoured for all of its time, and a new point takes no name that is in use. |
| `admin` (`MCAdmin_all.cfg`) | SettingsAreFirstGiven, RightsAreAsAsked | A program that starts uses the settings that come first, and has understood every source, but for ports that it does not use; two administrators who create, change and drop the same user while statements fail and transactions are attempted again: a command that reports success gave no right that nobody asked for, and exactly those asked for if nobody else was at work. |

Four runs find a disagreement between the code and what a document or a comment
of the repository says; `PROJECT.json` quotes it under `findings`.

| Run | Violated | What it shows |
|---|---|---|
| `blob_rename` (`MCFileBlob_rename.cfg`) | FinalNameIsWhole | The temporary file gets its final name while the stream that writes it still holds data. |
| `grid_race` (`MCGridValue_race.cfg`) | LatestIsHighest | Two loaders that write ascending versions of a field at the same time: the rows end up with different values of maxdataversion. |
| `read_manual` (`MCReadPath_manual.cfg`) | QualifiersAreAsDescribed | The manual says that *before* selects periods that end before the time, and *after* periods that start after it; the code compares `validtimefrom < from` and `validtimeto > to` (`timeQuery.cpp:128-135`), so that each also selects periods that the time lies in. |
| `grid_clean` (`MCGridValue_clean.cfg`) | LatestLives | The cleaner of low data versions finds 0 as the highest version in the database, passes NULL to wci.remove, and so removes every value. |

### Known disagreements

The same modules show more of them, each with one property and a few constants
changed in one of the configurations above.  They are what the conditions of the
passing runs leave out.

| Configuration | Changed | Fails | Because |
|---|---|---|---|
| `MCFileBlobStore_refines` | `Leftover = {1}` | ScanSparesYoung | A scan compares the age of a file (`fileblobImpl.cpp:116`) and removes it by name (`:118`): a writer that replaces a left over file in between loses the new one.  `src/NEWS:16`: "No longer deleting very new blob files, even if they are unreferenced in database". |
| the same | `Strategies = TRUE` | AbortedDropKeepsFile | A cleaning transaction that drops a grid and vacuums it has unlinked the file when it is rolled back (`cleanDb.c:95`).  `TransactionCorrectnessTest.cpp:95-132` expects the data of a deletion that is rolled back. |
| the same | `FlushFails = TRUE` | ActiveHasFile | `f.good()` is tested before the buffer is flushed (`fileblobImpl.cpp:75`): on a full disk a grid is committed with a truncated file. |
| the same | `Timely = FALSE` | ScanRemovesOnlyOrphans | A write transaction, or a scan, that lasts an hour loses its file. |
| `MCGridValue_race` | `Writer = {p1}`, `Numbering = "any"` | LatestIsHighest | A version written below one that is there becomes the maximum (`wciWriteInternals.in.sql:92`).  `wci_system-design-specification.xml:268-269`: -1 selects "the value with the highest data version". |
| `MCGridValue_shared` | - | EveryValueHasGrid | A client writes a value for a grid whose last value it has removed, or that there never was: nobody asks whether it is there, and reading the value fails (`wciWrite.in.sql:542`; `:291-292`, in another overload: "Verify GridId", "TODO: Not implemented yet."). |
| the same | `Writer = Remover = {p1, p2}`, one field, two rows | NoLeakedGrid | Two transactions delete the two rows of a grid: each trigger sees the row that the other is deleting (`gridValueTriggers.in.sql:29`), and nothing drops the grid. |
| the same | `Writer = Remover = {p1, p2}`, one field, two rows | NoDanglingValue | A row is added for a grid (`write(returnGid)`) while the transaction that drops the grid commits. |
| the same | `Writer = Remover = {p1, p2}`, one field, two rows | AtMostOneSelected | Two writers do not update each other's rows: both versions are their own maximum. |
| `MCFloatValue_all` | `Remover = {}`, `Numbering = "ascending"` | LatestIsHighest | Two loaders do not see each other's versions when they look for the maximum. |
| the same | `Writer = {p1}`, `Remover = {}`, `Numbering = "any"` | LatestIsHighest | Version 0 written after a higher one is taken to be the only one (`wciWriteInternals.in.sql:272`). |
| `MCReadPath_all` | `PlacePoints = {a1, a2}`, `Operation = {"addPlacePoint"}` | OnePlacePerName | `addPlacePoint` does not look for other places with the name.  `wdb-metadata_user-manual.xml:351-353`: "each PlaceName uniquely identifies one geographical object". |
| the same | `Operation = {"addOrUpdatePlacePoint"}`, two points | OnePlacePerName | For a point that is there, only its own rows are looked at (`wciMetaPlacePoint.in.sql:163`). |
| the same | three polygons, `Infinity = 5`, `Operation = {"addOrUpdatePlacePolygon"}` | OnePlacePerName | Cutting the times of other polygons may also extend them, over a third one (`wciMetaPlace.in.sql:145`). |
| the same | `Operation = {"addOrUpdatePlacePoint"}`, two points | OneDefinitionPerName | `getPlacePoint` lists both places at the instant at which a name passes from one to the other (`wciMetaPlacePoint.in.sql:285`). |
| the same | `Operation = {"addPlacePoint"}` | CanonicalIsKnown | No trigger on insertions into `placedefinition`: a point added in namespace 0 never gets into the view.  `wci_user-manual.xml:1965-1966`: "only the canonical name would be added to the database". |
| `MCMetadata_all` | `Grouping = "nested"` | GroupsAreRight | A group that contains the one added to is shifted instead of widened (`wciMetaDataProvider.in.sql:135`). |
| the same | `ProviderNamespace = {k1, k2}`, `ProviderName = {n1, n2}`, `Day = {d1}`, no symmetry | GroupsAreRight | The shift is made in all namespaces and tears their groups apart. |
| the same | `ProviderNamespace = {k1, k2}`, no symmetry | ReadsByNamespace | `wci.read` resolves the name of a provider in all namespaces (`buildQuery.cpp:75`). |
| the same | - | NameIdentifies | A name is refused only for a provider that gets it on the same day as another (`dataProviderTables.in.sql:70`, `wciMetaDataProvider.in.sql:281-288`). `wdb-metadata_user-manual.xml:201-202`: "A data provider is identified by a DataProviderName". |
| the same | - | RoleMatchesSession | A transaction that called `wci.begin` is rolled back: the role goes back, the session does not.  `wciSession.h:60-62`: the user "should be the same as the database role to use wci". |
| the same | `Namespace = {k1, k2}` | NameIsCurrent | After `wci.begin` with another place namespace, names are taken from the map of the earlier one (`ReadStore.cpp:54`). |
| the same | `Renames = "any"` | NameIsCurrent | The map keeps the place of a name that another connection has changed. |

Others came up while the definitions were written; they need no interleaving to be
seen, and the properties leave them out by their conditions.

*Reading.*

- *any* level is, for the code, any level of the parameter that is named
  (`levelQuery.cpp:45`); the manual says that it is "logically equivalent to specifying a
  NULL for the level" (`wci_user-manual.xml:453-455`).  `AnswersAreRight` allows for both.
- Without a location a read is of all data (`wci_user-manual.xml:258`), but a grid then
  yields no points (`readPoints.cpp:55`).
- A name of two places makes a read of grids by it fail, although `location.cpp:254` says
  that it "corresponds to an exact query"; grids by the name of a place are selected
  without regard to when the place had the name (`location.cpp:253-256`), and "_" and "%"
  in it are wildcards, of whose matches the first is taken (`buildQuery.cpp:187-197`,
  `getPlaceSpecification.c:106`).
- `surround` with more than one point and a geometry fails for point values
  (`location.cpp:335`), and its limit counts rows, not places.
- Naming a group of providers and a member of it returns rows twice
  (`buildQuery.cpp:71-85`).
- The qualifiers of times are accepted in any case but compared in one
  (`TimeSpecification.cpp:40-57`).
- Names of places that begin with a keyword of interpolation or a bracket, or
  contain POINT or POLYGON, cannot be asked for (`location.cpp:143-161`); nor can
  parameters whose name begins with "instant " (`ValueParameterType.cpp:63-66` takes it away
  when writing, `parameterQuery.cpp:37` does not when reading).
- The last row and column of a grid give no bilinear value; a point is found again
  by the coordinates it was returned with only for steps of 0.05 degrees and more; a
  MULTIPOLYGON of one part is an error.
- `wci.browse` lists grids and point values separately, also when they have a row in
  common.

*Files and geometries.*

- The name of the temporary file is built by streaming the stream into itself
  (`fileblobImpl.cpp:69`), so that the file lies in the working directory of the backend.
- `GEOSGeomCmp` takes both sizes from its first argument (`GEOSGeomWrapper.cpp:128-131`), two
  empty wrappers are not equal (`:112-113`), and assigning a wrapper to itself would
  delete what it holds (`:79-87`); nothing does.
- A negative file id has a path but is not found again (`PathGenerator.cpp:79-85`).

*Programs of administrators.*

- `wdbConfiguration --conf` with a query is refused (`wdbConfigurationMain.cpp:82-85`), which
  `doc/man/wdbConfiguration.xml:86-92` describes; a malformed default file ends the program, but
  a port in it that is no number goes unnoticed when an earlier source gave one; a PGPORT
  that is no number ends `wdb` also when `--port` is given.
- `createuser` for a role that exists changes its rights (the test is a comment,
  `createUser.h:115-116`); `changeuser` without rights for a role that does not exist
  reports success; `dropuser` leaves the user's data provider; `vacuum` and `testclean` report
  success when cleaning has failed; `testclean` counts rows of data providers.
- Two administrators who change the rights of a user at the same time can leave
  rights that neither of them asked for alone (`changeUser.h:86-134`): `RightsAreAsAsked` allows
  for it with `others`.  A COMMIT in doubt is reported as a failure.
- Without HOME the program crashes (`adminCommandLineInterpreter.cpp:471`); two spaces at
  the prompt make an empty word.

### Bounds

- `MaxId`, `MaxGrid`, `MaxRow`: identifiers that sequences can hand out.  Two
  files let one be written while another is dropped, vacuumed, scanned and read;
  no step of the store looks at more than one identifier, except for the sets
  that vacuums and scans walk through in any order.  Three rows let a field have
  every version, or one of them be removed and written again.
- `MaxVersion`: 2, that is three versions: a lower, a middle and a highest one.
- `RefTime` in `MCFloatValue_all`: one reference time.  Items of different
  reference times share nothing but groups, which are never deleted; with two
  reference times, two versions and one of the backends removing it passes too.
- `Infinity`: times are `0 .. Infinity`.  Three instants give intervals that are
  empty, short and long, and that touch, overlap and contain each other; the
  disagreement about three polygons needs six.
- `MaxSet`, `MaxId` of `DataProvider`: four providers and twelve bounds: two
  groups with members, with room for shifting.  `Day`, `ProviderName`: two days, so that a
  name may be of two providers, and three names.
- `MaxGrid`, `Field` of `MCGridValue_shared`: two grids and two fields, so that a grid has
  the rows of one field, of both, or none.
- `MaxCopy`: copies ever inserted in a view, three rebuildings of two rows.
- `MaxPlans` (32 in the code) is 2, `MaxProjections` (512) is 1: the caches are full
  after the first entries, as reads use three queries and transformations two
  projections.  `Address`: four, of which one is free when the cache is full and both pointers are
  held.  `MaxReturn`, the number of points that a polygon may select, is 8,
  so that grids of nine points exceed it.
- `Request`, `SpecOf`, `Hits` of `MCReadPath`: three grids, of which each two differ in one
  field of their specification or in two, and a place that is none; reads of all of
  them, of a part, without a location, and of a geometry that cannot be read.
- `Wrapper`, `Object`: three of each; a wrapper can be assigned from one that shares
  its object, one that has another, and one that is empty.
- The requests of `MCReadPath`: all pairs of arguments out of seven, each with its
  qualifiers and with values below, at and above those of the six rows; words in
  both cases, with none, one or two spaces; grids of up to three by three points,
  with locations on, beside and between their lines and off the grid.
- `Base`, `Digits`: 4 and 3, so that ids have all lengths and may be negative.
- `Admin`, `User`, `Attempts`, `Right`: two administrators of one user, two attempts and
  two rights; the three rights of the code are checked one after the other in the
  same way.  `Given` and `Environment`: nothing, one setting or two, one of them a
  port that is no number.
- Backends: races need two; a third that reads and a fourth that cleans are there
  in `MCFileBlobStore_refines`.

When a bound is reached, sequences are exhausted and a run may come to a state
without successors; the configurations of the modules where that happens say
`CHECK_DEADLOCK FALSE`.  In `FileBlob` the vacuum can always run, and deadlock is
checked.  That a read does not stop short of its end is part of `ReadEnds`.  PostgreSQL
breaks deadlocks between row locks by aborting a transaction, which `ClientAbort`, `CleanerAbort` and `Abort` cover.

### Fairness

Two runs assume any.  In `read_path` it is `WF` on the steps of a read that has begun:
the executor calls a set-returning function until it has returned its last row, and no
client can keep it from it but by ending the statement.  Nobody is obliged to read.
In `blob_live`, a client that has begun to write goes on and its
transaction ends (`WF` on its steps and on its end); the cleaner is started every
night by cron and runs to its end (`WF` on its steps); time passes (`WF` on `Age`).
`vacuum_file_blob()` may also be called alone, which ends the transaction before
the scan: `SF` on `ScanStart` says that `cleanupdb()`, which always scans, is run
again and again.  Nobody is obliged to write, to drop or to read, and an abort is
never forced.

## 5. Proofs

The constants are arbitrary in all of them but for what the second column says, and
`PROJECT.json` says which property of which run a theorem is about.

### The grid store

`FileBlobProofs` proves, for any sets of clients, cleaners and readers and any number
of identifiers:

| Theorem | Assumes | Says |
|---|---|---|
| `TypeCorrect` | nothing | `TypeOK` always holds, whatever the failures |
| `NoForeignDataCorrect` | nothing | no read returns the file of an earlier database |
| `InvCorrect` | `Benign` | the inductive invariant `IInv` always holds |
| `ActiveHasFileCorrect` | `Benign` | a committed, active grid has its complete file |
| `ReaderSeesWholeCorrect` | `Benign` | a reader gets all of a grid, or an error |
| `ScanRemovesOnlyOrphansCorrect` | `Benign` | the scan removes no file of a row or a running writer |
| `ScanSparesYoungCorrect` | `Benign` | the scan removes no file younger than an hour |
| `AbortedDropKeepsFileCorrect` | `Benign` | rolling back a drop keeps the file |
| `StoreCorrect` | `Undisturbed` | `FileBlob` implements `BlobStore` |

All rest on `ConstantsAssumption` (the kinds of backends are disjoint, the bound
is a number).  `Benign` (at the end of `FileBlob`) excludes files of an earlier
database, transactions and scans that overlap for more than an hour, full disks, and
cleaners that are killed although their strategies have dropped grids.  All four
are needed: the first four rows of the known disagreements drop one each.  `Undisturbed` adds that the strategies drop nothing:
a cleaner that drops a grid unlinks its file before it commits, so that a reader
can miss the file of a grid that is still active for it, which `BlobStore` does
not allow.

The argument for `IInv`.  None of the properties is inductive: that an active
grid has its file depends on what vacuums and scans, which have read the table
long before, are about to remove.  The parts of `IInv` say what each backend
may still do with the knowledge it has:

- `FreshInv`: an identifier that has not been handed out has no row, lock or file,
  so that a new writer is alone with it;
- `ClientsInv`: a client in the middle of `write_file` holds the lock of the row it
  has inserted, and nobody else works on its identifier before that;
- `LocksInv`: what an uncommitted change can be, given its owner and the committed
  row: a client makes a row or drops one, a cleaner deletes what is dropped;
- `FilesInv`: when a complete file is there, also for rows that are not committed
  yet; a file is old only when its writer has ended;
- `CleanersInv`: what a vacuum or a scan will remove is `Gone` (no row that is active or
  can become so, no writer) or belongs to the cleaner's own transaction.  For a scan
  the claim is about all old files that it did not find in the table, also those
  that become old while it runs: `Timely` enters here, in `AgeInv`;
- `ReadersInv`: a grid that passed the check of a reader will not be written any
  more, so that the file is the complete one or absent when it is opened.

`FileBlobProofs` has one lemma for each action (`ReserveFileIdInv` to `AgeInv`), with one
step for each part.  `NoForeignData` has an invariant of its own, `ForeignInv`: where
the file is an earlier database's, no row is active but the one that a client has just inserted
and not written yet, and no reader is about to open it.  The action properties follow from `IInv` in the state before
or after the step.  For the refinement it adds that a grid that is gone stays so
(`GoneStays`), what commits can do to a row (`RowSteps`), hence that stages follow one
another as `Later` says (`StageSteps`), and that a reader's steps are those of the
abstract store (`AskStep`, `AnswerStep`).  Liveness is not part of `BlobStore`.

### The other modules

| Module | Theorem | Assumes | Inductive invariant |
|---|---|---|---|
| `GridValueProofs` | `TypeCorrect` | `GridConstants` | `Typed`: the types, and that a write that is under way has chosen a field, a version and a grid |
| | `LatestIsHighestCorrect` | `Numbering = "auto"` | `RowInv` (the unique index: between what is committed and what open transactions hold, no version of a field is there twice) and `LatestInv`: versions of a field are closed downwards, and a transaction that adds to a field holds all its rows |
| | `NoDanglingValueCorrect`, `NoLeakedGridCorrect` | `Sharing = FALSE`, or one client | `GridInv`: no two rows name one grid, and each open transaction still owes what would part a row from its grid (`RowsOwe`, `GridsOwe`); for one client `AloneInv`, where rows may share grids and those in `bare` are left out |
| | `AtMostOneSelectedCorrect` | one client | `MaxInv`: the rows of a field name the same maximum, but for those that an update has still to reach |
| `FloatValueProofs` | `TypeCorrect` | `FloatConstants` | `Typed`: a write that is under way has a reference time, and when it looks for the highest version it has an item of its own, so that there is one |
| | `ItemHasGroupCorrect` | `FloatConstants` | `GroupsAreAdded` (whoever changes a group adds it) and `ItemsAreGrouped`: whoever has an item, or is about to, knows its group: it is committed, or its own |
| | `LatestIsHighestCorrect` | `Numbering = "auto"` | `LatestInv`: versions of a reference time are closed downwards, also with those that an open transaction holds, and a transaction that deletes nothing in the end holds all of them when it has written |
| `MetadataProofs` | `StatementsKeepRoleCorrect` | `SessionConstants` | none: every step keeps the types, and every step but a rollback keeps role and session together |
| | `RoleMatchesWithoutBlocks` | `Blocks = FALSE` | role and session match |
| | `NameIsCurrentCorrect` | one namespace, `Renames = "new"` | `CacheIsCurrent`: what the map has of a name is what the table says, and stays so, since a name that has a place keeps it |
| | `ViewIsCompleteCorrect` | `ViewConstants` | `CompleteInv`: copies that may still be inserted are untouched, copies are only deleted, and a committed row has a committed copy that nobody deletes, or whoever deletes it owes or has made another (`Covered`) |
| | `ViewIsExactCorrect` | `ViewConstants` | `ExactInv`: while `overlap` is false, one backend at most has changes, the committed copies are the committed rows, and the rebuilding backend has still to delete exactly the copies that are not its own |
| | `ProviderTypeCorrect` | `ProviderConstants` | `TypedProviders`: the types, and that intervals are not empty |
| | `SetsAreNestedCorrect`, `GroupsAreRightCorrect` | `FlatGroups`: one namespace of providers, no groups in groups | `SetsInv`: identifiers are handed out once (`Identified`), what is in a group is no group (`Grouped`), and the intervals of any two rows are nested or apart as their parents say (`Related`) |
| | `PartsAreBehaviours`, `TypesAreRightCorrect` | the constants of the parts | none: a behaviour of `MCMetadata`, which lets one part step at a time, is a behaviour of each part, so that the theorems about the parts hold of it |
| `PlaceNameProofs` | `PlaceTypeCorrect`, `ViewIsCurrentCorrect`, `CallIsHonouredCorrect`, `NewPointIsClearCorrect` | `PlaceConstants`: a grid is no point or polygon, 0 is a namespace | `PInv`: the view is current, a row covers the last call (`Covered`), grids have their names for all time (`GridsAlways`), and names are of places that are defined |
| `ReadFloatProofs` | `NoDanglingPointCorrect`, `PlansAreBoundedCorrect` | `ReadConstants`, `ConstantsAreRight`: queries find sequences of rows of places, locations select sequences | `Shape` of the store, `CachesAreTyped`, `PlansAreSome` (a set that can be counted, of at most `MaxPlans`) and `NoDanglingPoint` itself |
| | `ReadIsCompleteCorrect` | `ConstantsAreRight`; `GridsAreRight`: what a location selects in a grid depends on the numbers and the projection of the grid only, which is all that a reader is made from | `ReadInv`: readers and locations in the caches answer as new ones would (`CachesAreRight`), and the rows that have been returned, those of the list that is being emptied and those that are still to be read are together what was specified (`ListIsRight`, `FloatsAreRight`, `GridsRead`) |
| `GeometryProofs` | `GeometriesAreHeldCorrect` | wrappers are finitely many | `Counted`: only wrappers hold, counts are numbers; the lemmas say what a copy, an assignment and a destruction do to the number of holders |
| | `ProjectionsAreLiveCorrect` | `Earth` is valid, `MaxProjections` a number, no address is the empty pointer | `Exist`: what the cache and the pointers refer to is live; `Held`: the pointers refer to what was asked for, in order; `Small`: the cache has at most `MaxProjections + 1` entries |
| | `GeometryIsRightCorrect` | grids are records of whole numbers | `OutlineInv`: what has been computed of a grid that did not change since is what would be computed now |
| | `ExactReadsTheSamePoint`, `SurroundingLinesAreNearby`, `CellIsInterpolatedOnItsPlane`, `CoveredPointsAreTried` | `GridIsRight`: whole numbers of points, steps forwards; for polygons `PolygonIsRight`: closed rings with coordinates within bounds | none: they are about operators |
| `AdminProofs` | `RightsAreAsAskedCorrect`, `MembersExistCorrect` | `AdminConstants`: users that are typed are in `User`, groups are the three | `AInv`: committed members exist; what a transaction has changed is about its user (`Restrained`), what it has found out is so but for what others have committed (`Informed`), and at its COMMIT it has what it was asked for (`Finished`) |
| | `SettingsAreFirstGivenCorrect` | `Missing` and `Malformed` can be told from each other and from an empty file | `Progress`: when n sources have been read, `stored` is `After(n)`, the first value that they give, and none of them was malformed or the first to give a port that is no number |

Why they are needed: `ItemHasGroup` is about committed rows, but a writer adds its
item on the strength of a group that is its own or that another transaction has
committed in the meantime; the invariant is therefore about what each process can
see.

`LatestIsHighest` is about committed rows too, and a writer computes its version and its
update from a snapshot that others make old.  What saves it is that two transactions
cannot both add to one field.  For grids, each holds all rows of the field, since the
update comes before the insertion, or inserts version 0, which the unique index gives to
one of them only (`OneAdds`).  For points the insertion comes first; since the committed
versions and those of a transaction are closed downwards together, two that add a version
both hold the lowest one that is free, which is one row.  A transaction may delete items
and insert them anew before it commits, and then no removal is seen: that is why the
progress of a transaction is stated for what it holds and not for what it has not deleted.

`NoDanglingValue` and `NoLeakedGrid` relate two tables that a write and a trigger change
in statements of their own, so that neither holds in the middle of a transaction.  The
invariant says what is owed: a row that is added, its grid; a row that is deleted, the
trigger; a grid that is dropped, the row.  A client that names a grid by its identifier owes
nothing and is asked for nothing: the value it writes has a grid only if some row referred to the grid
when it was named, since then its own transaction has not dropped it; the others are in
`bare`, and without it the property is false already for one client.  With grids that rows share and several clients,
both are false (see the known disagreements): two triggers that count references at the same
time each find the other's row.  `AtMostOneSelected` is false with several clients too, as two
writers do not update each other's rows.  The theorems assume what is left: one row for a
grid, or one client.

`ViewIsComplete` holds although a rebuild skips copies that another transaction deletes
and inserts copies of rows that it cannot see: who deletes the last copy of a row has seen
the row, and copies it.  `ViewIsExact` needs that nobody overlaps, and that as many copies as
rows, one for every row, are one for each (`OneCopyEach`).  `ProjectionsAreLive` is about the moment between the two questions of a
transformation: the second one may empty the cache that the first answer is in, and
the transformation goes on with both, because it holds shared pointers; nothing else can
have been made at their addresses.  The cache is emptied before it grows, so that one entry above the limit is the most.

`ViewIsCurrent` rests on triggers that are called for rows that are inserted or updated, never
for rows that an update makes disappear.  The proof is therefore about what each call does
to the table: a place that gets no new row loses none (`Keeps`).  For an update of several
rows that is so because the constraint on (namespace, name, beginning) keeps the new rows apart: a
row that became one that was there before would have to be that row (`TwiceIsOnce`), also when
times are cut by two updates, one after the other (`TakeOverReplaces`).  For
`CallIsHonoured` each of the branches of a call has to leave one row that contains the
times asked for (`AdjustReplaces`), and a grid that is renamed keeps its times, which
`GridsAlways` says are all; nothing else may cut them, and the branch that reports a
contained name as an error is what sees to it.

`RightsAreAsAsked` compares what a command has done with what it was asked for, after any
number of attempts, while others give and take rights and drop the role.  A program changes
only the difference between what is asked for and what it has found, and asks once for each
right, so that `Informed` has to say what the answers are still worth: each right that its
transaction sees is one that it has found, granted, or that somebody who committed meanwhile
was asked for; alone, it is exactly what it has found.  An attempt that began with the answers of
the last one would break this, and `has[p] \subseteq Checked(p)` says that it does not.
`MembersExist` is needed with it: whoever drops a role holds the rows of its memberships, so that
nobody can give it a right in the meantime.  The step by step proof also required that the
alternatives of `Look` exclude each other: where two guards of a `CASE` are true at once, its
value is either one.

`ReadIsComplete` compares all rows of a read with what the request specifies.  Rows are read
in four ways: values at once, grids one after the other, points of a grid through a list
that is filled and emptied, each from caches that earlier reads have left.  The invariant therefore has to say
that the caches answer as the grids would, although readers are kept under less than a whole
specification; that is where `GridsAreRight` enters.  The rows of all grids are
put together with `FlattenSeq`, whose recursive function exists and obeys its equation for every
length (`FlattenExists`, `FlattenedIs`); without an induction theorem, each is shown by the least
length at which it would fail.

The four theorems about points say for all grids what the runs check on a few.  A point is found
again by the coordinates that it is returned with, because four decimals are less than a thousandth
of any step from 0.05 degrees on, whatever the start of the grid.  The lines read around a location are the
nearest to each side, on a line of the grid and off the grid too; what is interpolated in the cell between
four of them is on their plane; and no covered point is cut away by the rectangle in which
a polygon is looked for, although one bound is truncated, another compared as an unsigned number.

Only model-checked, and why:

- liveness under fairness (`OrphansAreRemoved`, `DroppedAreVacuumed`, `ReadEnds`);
- `SpecificationsAreUnderstood` and `AnswersAreRight`: `Specification` and `ReadQuery` have recursive
  operators, as a text and a pattern are read from left to right;
- `PointsAreRight` as a whole: it counts the points that `SelectSeq` has left, and the provers do not
  know what `SelectSeq` returns.  The theorems about points end where it is applied;
- with `PlaceName`, what lookups of definitions list.

## 6. What is not modelled, and why

- Parameters, parties and namespaces: functions that insert or update one row.
  Aggregates and time functions: pure SQL functions of their arguments.
- The choice of the strategy that cleans old reference times: its effect, values
  that are removed in one transaction with a vacuum, is in the models of values.
- `wci.browse` for anything but the values themselves: statistics of tables.
- GEOS, PROJ and libpqxx are external: which texts are geometries, what covers a
  point (polygons are rectangles here), what a transformation computes, when a
  transaction is attempted again.
- Code that nothing reaches: `AllPointsReader`, `extractGridData.c`, the regular
  expressions at the beginning of `location.cpp`, `getEarthShape`, `ProjPjHandler`, `WdbConfigFile`,
  `WdbDataConfiguration`, `GridPoint`, the classes for GRIB files, the SQL functions `matches`.
- Two reads that interleave: the executor drains a function in FROM before it calls
  another one.
- Temporary files are not in `FileBlob`: no function looks at one that it has not
  created itself.  The loss of data that the operating system has not written to
  the disk is not there either: the code never calls `fsync`, so that a crash of
  the machine can lose any recent file, which is what a state with `"short"`
  files under a final name shows already for the crash of a process.
- The keys of values (provider, place, times, parameters, levels) are one
  model value, the field: all statements compare the whole key.
- The overload of `wci.write` that is given the identifier of a grid and the rest in single
  arguments (`wciWrite.in.sql:263-376`): it refers to a variable it does not have, and raises
  an error.
- Logging, exceptions, help texts and installation scripts: no state that several
  steps share.  `help` and `quit` have further names, `?` and `q`, at the prompt.
- External: PostgreSQL (row locks, snapshots, COMMIT, ROLLBACK, SET ROLE) and the
  file system's clock, as the code under `src/src` uses them.

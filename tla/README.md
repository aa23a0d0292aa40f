# AERIS core: TLA+ models, model checking and proofs

AERIS stores a map project in one SQLite file (`world.aeris`), keeps the session in a sidecar
(`world.aeris.session`), derives scenes from verified geographic sources and shows them in a Qt
workbench. This project models the parts of the code where order, concurrency and failure decide
whether it is correct, checks them with TLC and proves the central results with TLAPS.

Paths below are relative to the repository. `PROJECT.json` maps every definition that models
code to the lines it models, lists the runs, the mutants that show each property can fail, the
hazards of the code and the theorems.

## 1. Inventory

| Component | State | Operations | Interacts with |
|---|---|---|---|
| Project document (`src/storage/project.cpp`, `projection.cpp`, `resource.cpp`) | `aeris_meta` (revision, frozen, worldview, projection summary), the projection row, resource rows and chunks | `update_metadata`, `set_project_projection`, `store_external_resource`, `embed_resource_file`, `freeze_project` | every other storage component advances its revision |
| Project handles (`project.cpp`, `sqlite_detail.cpp`) | cached metadata, a connection | `open`, `refresh_metadata`, `verify_integrity`, `load_project_projection`, every mutation | other handles through SQLite's lock and committed rows |
| Publication (`project.cpp`, `session.cpp`) | staging directory, destination path | `ProjectStore::create`, `SessionStore::open_or_create` | other processes through the filesystem |
| Layer stack (`layer.cpp`, `layer_stack.cpp`) | ordered layers with source and resource bindings | append, append bindings, update state, set order, remove, initialize | resources (requirement, frozen), sources |
| Styles (`style.cpp`) | styles with parents, properties, resources; layer style bindings | `set_style`, `remove_style`, `set_layer_style_bindings` | layers, resources |
| Provenance and datasets (`provenance.cpp`, `dataset.cpp`, `geometry.cpp`, `feature_property.cpp`) | per source: provenance, canonical geometry, complete feature properties, each written once | `store_source_snapshot`, `store_source_geometry`, `store_source_feature_properties`, `store_source_dataset`, indexes, feature readers, `verify_integrity` | layers, the source bridge |
| Session view state (`session.cpp`) | one sidecar per project path: mode, camera, zoom, session revision; each handle caches the metadata | open or create, read, write, verify | other handles of the sidecar, the project whose UUID it names |
| Sources (`src/source`) | verified snapshots, adapter registry | `verify_local_snapshot`, `AdapterRegistry::load`, four Natural Earth adapters, Shapefile and DBF readers | file system, the bridge |
| Source bridge and reader (`src/project/source_bridge.cpp`, `source_reader.cpp`) | none of their own | `record_verified_source_snapshot`, `load_durable_source_result` | sources, datasets |
| World layers (`src/project/world_layers.cpp`) | none of their own | initialize the built-in stack, ensure the surface layer, each after several reads | provenance, indexes and properties of sources, layer stack |
| Rings and the seam (`src/geometry/geographic.cpp`, `src/projection/seam.cpp`, `ring_piecewise.cpp`) | none | canonicalize a ring, its area, split it at the projection's seam, close it over a pole | adapters, storage's validation, scene building |
| Projection, geodesy, elevation (`src/projection`, `src/geo`, `src/elevation`) | none | pure floating-point functions | scene building |
| Globe and planar views (`src/view`, `src/geometry/planar.cpp`) | none | visibility, clipping, filling, picking | scene building |
| Viewer (`viewer/`) | window and canvas fields, two job controllers with a pool thread each | clicks, drags, background scenes and unfold bundles, animation | scene building |
| Tools, tests (`tools/`, `tests/`) | none | probes | everything |

What is hard about it:

* **Concurrency.** Several handles, in threads or processes, share one project file. The code
  uses `BEGIN IMMEDIATE` for its mutations and autocommit reads for everything else, so two reads
  of one call see two states. Each handle caches a row that others change.
  Compositions and readers of sources span half a dozen connections between which anybody may
  commit.
* **Failure.** Every SQLite statement and every file operation can fail, after a commit as well as
  before it; processes die in the middle of publication.
* **Retries.** Mutations are idempotent by exact comparison ("exact retry"), so that a caller that
  lost an answer can ask again.
* **Cross-table promises.** The frozen flag speaks of resources that layers and styles bind; the
  projection is stored twice; ordinals are unique and dense while they are rewritten row by row.
* **Partial sources.** A source arrives in parts, through four stores, and is read feature by
  feature on separate connections while another handle adds the next part.
* **Degenerate geometry.** Vertices and edges on the antimeridian, on the seam or on a pole, and
  rings that wind around a pole, must be decided alike by the reader, the storage and the split.
* **Stale results.** The viewer's background jobs outlive the request that started them; results
  wait in the event queue while the user changes mode, content and camera.

What makes each component correct is stated by the properties of section 4; the hazards in
`PROJECT.json` name the lines where each could go wrong.

## 2. Modules

| Module | Models | Composes |
|---|---|---|
| `ProjectDocument` | the bodies of the mutations of metadata, projection and resources as atomic steps: the abstract specification of a project | |
| `ProjectDocument_proofs` | its theorems | `ProjectDocument` |
| `ProjectStore` | handles that run calls statement by statement; the detailed specification | `ProjectDocument`, whose `Verdict` and `Written` are the transaction bodies |
| `ProjectStore_proofs` | its inductive invariants, the refinement of `DocumentSpec` and what is promised to callers | `ProjectStore`, `ProjectDocument_proofs` |
| `SessionStore` | handles of one session sidecar, statement by statement | |
| `SessionStore_proofs` | its inductive invariant and the proofs of its properties | `SessionStore` |
| `Publication` | creation of a file under a name that must not be overwritten, for projects and sidecars (`Sidecar`) | |
| `Publication_proofs` | its inductive invariant and the proofs of its safety | `Publication` |
| `LayerStack` | layers, their bindings and their order | `ProjectDocument` |
| `ProjectContent` | styles, and every mutation of document, layers and styles together | `LayerStack` |
| `Workbench` | the window, the canvas, both controllers, their pool threads, the event queue and the mouse | |
| `Workbench_proofs` | its inductive invariant and the proofs of its safety | `Workbench` |
| `Catalog` | the abstract specification of sources: parts written once, each with the part it describes, one revision per addition | |
| `SourceDataset` | the stores of provenance, geometry and properties, the indexes, the reader and the audits, called by several handles; the detailed specification | `Catalog`, which it implements |
| `WorldLayers` | both compositions of built-in layers, read by read, beside stores of sources and a user's edits of layers | `Catalog`, `LayerStack` |
| `LayerStack_proofs` | two inductive invariants, of the contents of a project and of the compositions, a theory of inheritance as a ranked forest, and the proofs of all properties of both | `ProjectContent`, `WorldLayers`, `ProjectDocument_proofs` |
| `SourceImport` | acquisition, registry, the four adapters and the bridge, up to the dataset that is stored | `SourceDataset` |
| `SourceImport_proofs` | the refinement of the catalog, and what answers, loads, imports and joins promise on top of it | `SourceImport` |
| `GeographicRing` | a ring from source points to its canonical form, the storage's validation, the area | |
| `SeamSplit` | the split of a canonical ring at the seam and the closure of its pieces over a pole, as functions | `GeographicRing` |
| `RingPipeline` | the steps of a polygon's parts: read, store, split; and an independent reference for what is covered | `SeamSplit` |
| `RingPipeline_proofs` | reader and storage agree on rings; chains close; pieces keep to the limit and the domain | `RingPipeline` |
| `MC*` | the constants and requests of the runs | the module they are named after |

How state and actions correspond to the code:

* **`ProjectDocument`**: `doc` is the committed content of the tables. A mutation is
  `Verdict(doc, q)`, which follows the checks of the body in their order and is `"commit"`,
  `"retry"` or the error, and `Written(doc, q)`, what it writes, revision included. The revision
  is bounded by `MaxRevision`, the last signed 64-bit integer in the code, which refuses further
  mutations exactly as the code does. Content identities, worldviews and projections are values.
* **`ProjectStore`**: `pc[h]` is the statement the call of handle `h` executes next, `local[h]`
  what it has read, `cache[h]` `Impl::metadata`, `writer` SQLite's RESERVED lock. Reads outside
  transactions are one step each. `Commit` writes what was computed from `local[h].snapshot`, the
  rows the transaction read, and not from the current rows: that these are equal is a property,
  not an assumption. `StatementFails` can happen at every statement, `Stop` at every step. A
  mutation through a second connection of the same call (`open_database` in each function) is the
  same handle here, since it lives no longer than the call.
* **`Publication`**: files are inodes, `path` the destination name, `staged` the staging
  directories, `litter` those of dead processes. One action per filesystem or SQLite call;
  `sidecar` says whether the name is of a session or of a project, whose steps differ.
* **`SessionStore`**: the variables are those of `ProjectStore` for the other database:
  `sidecar` is the committed file, `cache[h]` `Impl::metadata`, `next_revision[h]` the local of
  `write_view_state` with that name, computed before `BeginImmediate`. A handle belongs to the
  project `ProjectOf[h]`, and the path may hold a sidecar of another project, a damaged file or
  none. `behind` and `commits` are history: which handles' metadata others' commits outdated, and
  how many commits there were. A new sidecar appears in one step, `Create`; how it gets its name,
  and the race about it, are `Publication`.
* **`LayerStack`, `ProjectContent`**: one step per mutation, because `ProjectStore` shows that a
  transaction is atomic and decides on fresh rows; the storage functions of layers and styles have
  the same skeleton (`BEGIN IMMEDIATE`, read, decide, write, advance the revision, commit, refresh).
  `OrdinalAfter` and `RewriteCollides` look inside one step, at the row-by-row rewrite of
  ordinals under `UNIQUE(ordinal)`. `LayersReadable`, `StyleSemantics` and their parts are what
  the loaders and `verify_integrity` refuse of rows.
* **`Workbench`**: one action per UI event handler with everything it calls, composed from
  functions with the names of the code (`CancelUnfoldActivity`, `PresentScene`, ...) in the order
  of the code, and one action per finished job. A job keeps whether its generation is the
  controller's current one, which is all the code asks of generations.
* **`SourceDataset`, `SourceImport`**: a transaction of a store is one step, and every read outside
  one (the match against the geometry, the look for an existing set, each index and each feature
  of a load, the audits of geometry and of properties) is a step of its own. `Promise` is the
  catalog with `stored` in place of its variable: each committed transaction is one `Add`, every
  other step a stutter. A file is its decoded content and its hash is that content, so
  equal hashes are equal contents. `Imports` computes where one import of a verified snapshot
  brings its caller: rejected with the error of the code, or at the dataset transaction with the
  row the adapter decoded. Files are assumed not to change between verification and decoding,
  which `docs/SOURCE-PIPELINE.md` requires of caches.
* **`WorldLayers`**: `worker[h]` is the composition a handle is in: the call, the storage call it
  makes next, and what the indexes told it. The sources are the catalog's, since `SourceDataset`
  implements it: `StoreSource` is one addition. The mutation at the end of a composition, and the
  edits of the user, are the actions of `LayerStack`. Role, name and visibility are the state of
  a layer; the properties of a feature are its surface class.
* **`GeographicRing`, `SeamSplit`, `RingPipeline`**: longitudes and latitudes are integers with
  `Turn` and `Pole` as a whole turn and the latitude of the pole, so that the tolerances of the
  code become exact comparisons and coordinates on the seam are exactly on it. The authalic
  function is the identity, with which the area integral of an edge is exact. The split follows
  `seam.cpp` stage by stage: strips, arcs, ownership of edges on the seam, chains, pairing of
  chain ends, merging. Loops are recursive functions over edges (`ChainsInStrip`), chains
  (`Cycles`) and strips (`ClippedToStrips`); the sorted ends of a boundary are given by how many
  ends lie before each (`Before`). The walk of `clip_ring_to_strip` over the followers of chains
  refuses a chain it has visited, one without a follower and more steps than chains; `Cycle` has
  no such refusals, because `EveryChainIsInOnePiece` shows that they cannot happen. `RingPipeline` takes the parts of a polygon one by one through reading,
  storing and splitting; parts do not influence each other.

## 3. Runs

| Run | Instance | Shows |
|---|---|---|
| `store` | 2 handles, one that adds external resources and one that embeds, freezes and audits, revisions to 2, liveness | fresh transactions, the lock, caches, truthful answers, return of calls, refinement of `DocumentSpec` |
| `race` | 2 open handles (`RaceInit`), one changes the projection, one the worldview | finding: two mutations that do not both succeed |
| `publication` | 2 clients, 3 files, projects and sidecars, liveness | one creator, nothing half-made is ever published, losers refuse or open the winner |
| `withdrawn` | 2 clients, 2 files | finding: a published path withdrawn under an acknowledged mutation |
| `content` | 3 layers, 2 slots, 3 styles, 2 resources, 1 source, revisions to 8 | the promise of the project database: every order of a fixed set of edits of metadata, projection, resources, layers and styles |
| `session` | 2 handles of the project at the path and 1 of the project before it, 3 views of which one is malformed, 6 files that may be there first, revisions to 3 | a stored view is one accepted write, foreign files are left alone, the revision counts the writes of handles that are not behind |
| `world` | 2 symmetric handles, 4 sources stored in parts, 6 layers, 5 edits of the user, revisions to 6 | compositions can be drawn, answer truly and leave the user's state alone |
| `import` | 2 symmetric handles, 1 source stored in parts, 1 source with 7 manifests, 5 directories and 8 bindings, revisions to 3 | the catalog is implemented; sources are true to the bytes they came from, whoever stores and reads at once |
| `rings` | turns of 32, pole at 12, roundoff 1, seams at 16 and 8, limits of 2 and 4 pieces; all parts of four and closed triangles of eleven points, polar caps, an arch and snakes in every rotation and direction | a part that is read is accepted, split without loss and shown where it was |
| `viewer` | 2 flat modes, 2 contents, 2 cameras, 2 outstanding jobs, liveness | the workbench |
| `badge`, `drag` | as `viewer` | findings in the viewer |

The bounds. Two handles suffice for every interleaving between a reader and a writer and between
two writers (the third of `session` only adds the former project at the path): SQLite lets only one transaction hold the lock, and no code path depends on how many
others wait; the theorems of section 5 hold for any number of handles. Two or three revisions
let each handle write before and after the other and reach the limit itself. Two clients of
one name give a winner and a loser, and an opener in between; the third file lets a client create
again after a withdrawal. Three layers and three styles are the least with a permutation that is
not a swap and a cycle longer than two edges. Requests are listed in the `MC` modules: each pairs
two values that agree and two that conflict (the same resource with another identity, a slot
already bound, an order of too few layers). Two outstanding jobs allow one obsolete and one
current job of either controller at once, and one current job of each. `MaxRevision` bounds the
revision as the code's limit does, so no state outside the program's is reached; `content` and
`world` switch deadlock checking off because the last revision stops them. The six revisions of
`world` are enough to store both sources of the world, compose it, store a surface source in two
parts and attach it, or to edit layers instead of some of these; its offers pair complete with
incomplete sources and known with unknown classes. The three of `session` let a handle that is
behind overwrite a newer view and repeat or lower the revision. In `import` the constraint `OneSourceInPlay` keeps the two
sources apart: no store or load reads or writes two of them. Its three revisions are the three parts
of one source. The eleven points of `rings` lie on the seams and on both sides of them, on a pole
and a roundoff out of range; four of them make a dart that crosses a seam four times, and the
longer rings add six crossings, three pieces, coincident edges and both windings.

Fairness. `FairStoreSpec` assumes only that a thread inside a call runs on; `BusyTimeout` is the
step that SQLite's `busy_timeout` guarantees to a waiting `BEGIN`. `FairPublicationSpec` assumes
the same of clients. Nobody has to call, to fail or to die. `FairWorkbenchSpec` assumes that the
pool threads run, the event loop delivers posted results and the animation timer fires (weak
fairness of each); `Settles` is conditional on the user letting go, because one who keeps
superseding a request is never owed its result.

## 4. Properties

* `ProjectDocument`: a frozen project has the bytes of every required resource (`FrozenClaim`);
  both copies of the projection agree (`ProjectionSynchronized`); every change is one revision
  (`RevisionPerMutation`, proved); only an external requirement ends the frozen state
  (`ThawOnlyByExternalRequirement`); rows of resources only gain (`ResourceRowsMonotone`, proved).
  The others are checked in `content`, among all other mutations of a project.
* `ProjectStore`: the lock is held by exactly the handle inside a transaction (`LockNotLeaked`);
  a transaction decides on current rows (`TransactionReadsFresh`); caches are rows of one revision
  (`CacheCoherent`); a successful mutation leaves its handle no older than what it wrote or found
  (`ReadYourWrites`); acknowledged means in effect, for `durably_committed` with a failed refresh
  too (`AcknowledgedInEffect`); every call returns (`CallsReturn`); all of it implements
  `DocumentSpec`.
* `SessionStore`: the view and its stamp are those of one accepted write (`ViewIsOneWrite`); a file
  that is not the project's own sidecar is neither changed, down to its journal configuration,
  nor shown (`ForeignSidecarUntouched`); while no handle writes from metadata that others outdated,
  the revision counts the writes and caches are the row (`RevisionCountsWrites`). When one does,
  revisions repeat or go back, because the next one comes from the cache before the lock is held:
  the run reaches this, and the property says where it ends. `docs/STORAGE-FOUNDATION.md:90`
  promises monotonic revisions of projects only, so this is no finding.
* `Publication`: what is published is complete and created by one client
  (`PublishedIsComplete`, `OneCreator`); open handles share the published file unless it was
  withdrawn, so it is never replaced (`OneLiveFile`); every call returns. The staging directory of
  a process that died stays as `litter`; nothing promises its collection, and no property speaks
  of it.
* `LayerStack`, `ProjectContent`: every permutation can be written (`ReorderSucceeds`); inheritance
  is a forest (`StyleForest`); whatever was edited, every loader and every audit accepts it:
  ordinals are dense, slots within their bounds, no binding dangles, bound resources are required
  (`ReadersAccept`); a frozen project has the bytes of everything its layers and styles use
  (`FrozenReproducible`); the request committed last is an exact retry (`ExactRetry`); one
  revision per change (`RevisionPerContentMutation`).
* `Workbench`: VERIFIED is only claimed of the view that is shown (`VerifiedIsShown`); what can
  still be accepted is for the current content, camera and target (`AcceptableIsCurrent`); busy
  flags are true exactly while something will reset them (`FlagsAreWork`); the Unfold action is
  enabled exactly when it would act (`UnfoldActionIsGuard`); the viewer settles (`Settles`).
* `SourceDataset`: no part is stored without the part it describes, none is ever replaced, and
  every addition is one revision, as the catalog says (`CatalogSpec`); what a store reports is true
  when the caller hears it, errors after the commit included (`OutcomeIsTrue`); a load that
  succeeds is the stored source, and neither loads nor audits call a source corrupt because it was
  completed meanwhile (`LoadIsConsistent`).
* `WorldLayers`: a layer that was composed has every channel it reads, complete and of known
  classes (`ChannelsAreStored`); an answer is true when it is given, and an error without a change
  changed nothing (`CompositionAnswersTrue`); names, visibility, wiring and order of the user's
  layers survive (`UserStateSurvives`).
* `SourceImport`: geometry, properties and provenance of an imported source come from one
  snapshot, and each country has the properties of its own row (`PartsAgree`); only what was
  verified is recorded, under the acquisition it came from (`RecordedIsAcquired`).
* `RingPipeline`: the storage accepts every ring the reader makes (`AcceptedByStorage`, in exact
  arithmetic: the rounding of summed longitudes against the tolerances of 64 and 256 epsilon in
  `geographic.cpp` and `dataset.cpp` is outside it, and outside the theorem `RingsAreAccepted`); the
  pieces of a split ring are within the limit and in one turn (`PiecesFit`), and wind about every
  point as often as the ring (`SplitIsPartition`); a
  point is in the polygon exactly when it is in one of the pieces, by a crossing count that
  shares nothing with the split (`PolygonIsShown`).

No run checks types: `ContentTypeOK`, `PublicationTypeOK`, `SessionTypeOK`, `WorkbenchTypeOK` and
`SourceTypeOK` are theorems of section 5, and the runs spend their time on the properties above.

Findings, each with a run whose trace shows it:

* `race`: of `update_metadata` and `set_project_projection` on two open handles not both need
  succeed. `update_metadata` is the only mutation that checks the project outside of its
  transaction: before `BEGIN IMMEDIATE` it reads the structured projection and its summary in two
  autocommit statements, and when the other handle commits between them it is refused with
  `schema_invalid`. The claim is about mutations. `open`, `refresh_metadata` (also after the commit
  of a mutation) and `verify_integrity` read the two copies, and metadata and resource rows, with
  the same window, so that they may report disagreement, or that a frozen project requires an
  external resource, of no committed state; no document says that they do not.
* `withdrawn`: a creator that cannot open what it published removes the path, although another
  process may have acknowledged a mutation of it.
* `badge`: choosing Globe while an unfold is prepared leaves VERIFYING on the canvas with nothing
  under way.
* `drag`: releasing the mouse during a transition leaves the canvas dragging.

Three places of the documentation describe something else than the code and have no run of their
own. `docs/PROJECTION-SEAM-TOPOLOGY.md:204` and `:251` say that edges on the seam are rejected;
`seam.cpp` decides which strip owns them and never returns `seam_coincident_edge`, and
`tests/test_seam_split.cpp:216` expects one owner. `PolygonIsShown` and `SplitIsPartition` cover
exactly this case and side with the code and its test; the document is not reconciled with them.
No property depends on the other two. `docs/PROJECT-PROVENANCE.md:112` says that the bridge
records provenance and geometry separately; `source_bridge.cpp` hands both to one dataset
transaction.
`include/aeris/project/world_layers.hpp:77` says that the user's state is preserved and only
conflicting wiring rejected; when another handle attaches the surface layer and the user hides it
between `list_project_layers` and `append_layer`, the call is refused with `record_exists`, because
the append compares the whole row. The layer and the user's state stay as they are.

## 5. Proofs

All theorems hold for every value of the constants under the named assumptions of the modules
(`DocumentAssumption`, `StoreAssumption`, `LayerAssumption`, `ContentAssumption`,
`PublicationAssumption`, `SessionAssumption`, `EarlierWrites`, `NoBundleAssumption`,
`SourceAssumption`, `ImportAssumption`, `RecordAssumption`, `WorldAssumption`, `UserAssumption`,
`RingAssumption`, `PipelineAssumption`),
which say that the special values are distinct from the ordinary ones, that bounds are natural
numbers, that requests and bindings are ones the interfaces accept, that shape and property files
are tables and what an adapter decodes of them is a row of a source, that a view found at the path
was written by an earlier call, that only compositions bind the built-in layers, and that a turn
is an even number of units and coordinates are integers. TLC evaluates each of them on the instances of the runs,
and has checked each inductive invariant as an invariant of the run of its module before it was
proved.

* `ProjectDocument_proofs`: `DocumentSafety` proves `DocumentInv`, the conjunction of the types,
  `FrozenClaim` and `ProjectionSynchronized`, by one step per mutation. The conjunction is
  inductive as it stands: the frozen claim needs the types to know that a required resource is
  stored, and `set_project_projection` needs the synchronization to know its verdict.
  `OneRevisionPerMutation`, `RowsAreMonotone` and `ThawsByExternalRequirement` are the action
  properties, from the shape of `Written` under that invariant.
* `ProjectStore_proofs`: the inductive invariant `StoreInv` joins types, `DocumentInv`,
  `LockNotLeaked`, `TransactionReadsFresh` and `CacheCoherent`. None of them is inductive alone:
  freshness of a snapshot needs the lock (nobody else can commit while a transaction runs), the
  refinement needs freshness (`Commit` writes `Written(local[h].snapshot, q)`, a mutation of the
  document only because the snapshot is the document), cache coherence needs that a commit moves
  the revision by exactly one, and types of the caches need the document's. One lemma per part
  shows that a handle's step preserves it; `OthersUntouched` says that a step changes nothing of
  other handles but the lock and the document. From `StoreInv`, `StoreImplementsDocument` shows
  that every step is a mutation of the document or a stutter, and `FrozenClaimIsKept` and
  `ProjectionIsKept` carry the document's invariants over to any number of concurrent handles.
  What a caller is told needs a second invariant, `PromiseInv`, inductive relative to `StoreInv`:
  a handle that has committed, or found its request in effect, carries a target revision that is
  the document's or older, and its request is done. `HandlesReadTheirWrites` and
  `AcknowledgedStays` follow; that done stays done under the commits of others is
  `BodiesMonotone`, so the resource rows' being forever is what makes the answer lasting.
* `LayerStack_proofs`, first part (`ProjectContent`): `ContentInv` is what the loaders and the audits check of rows, with one
  exception. `validate_parent_chain` walks up from the parent a style is to get, at most one step
  per style, and refuses when it meets the style itself. That this excludes cycles needs a rank
  that falls from child to parent, and `ContentInv` states the forest by its existence. A walk
  that meets no style twice is shorter than the number of styles (the pigeonhole of
  `FiniteSetTheorems`), so the bounded walk has met every ancestor; then all that is not a new
  ancestor can be ranked above the rest, which is the rank after `set_style`. Induction over
  numbers comes from `LeastNumber` (a set of counterexamples has a least element), since the
  library's induction theorems cannot be instantiated here. Dense ordinals are a bijection with an
  interval, so the temporary ordinals of `rewrite_order` are free and `ReordersSucceed`. The
  other conjuncts are one lemma per mutation and table. `RetriesAreExact` needs one more invariant,
  `RetryInv`: what the last request asked for is in the rows (`InEffect`); that asking again then
  finds it, needs that an order is the only sequence sorted by its ordinals. With it all
  properties of the run `content` are theorems.
* `SessionStore_proofs`: `SessionInv` says what each statement may rely on: a handle past `begin`
  has an accepted request and the next revision of the metadata it holds, metadata are only held
  of a sidecar of the handle's own project, and the lock is the writing handle's. From it
  `ViewsAreWhole`, `ForeignSidecarsUntouched` and `RevisionsCount`. The last needs the pair of
  history variables: who is not behind holds the row or is the only one about to remember it.
* `Publication_proofs`: `PublicationInv` follows a caller's file from its staging directory to the
  destination: directories are never shared, a file is ready before it is linked, and while its
  creator looks at what it linked, the destination names just that file. This gives
  `NothingIncomplete`, `NeverTwoLive` and `CreatorIsOne` for any number of callers, and
  `OwnIsWithdrawn`: who removes the destination removes the file it has linked itself.
* `Workbench_proofs`: `WorkbenchInv` has two halves. The queues hold at most one current job of a
  controller, in its pool or among the posted results, whatever was canceled, started or dropped;
  the window's fields fit each other (a verified scene is of the mode, content and camera shown,
  a transition runs between two such views). They meet in two equivalences, a busy flag with the
  existence of a current job, and in every current job's being for what the window shows. Each
  handler of the window has a lemma that lists the fields it may change. From this
  `VerifiedViewIsShown`, `NothingObsoleteIsAccepted`, `LockedWhileWorking` and
  `UnfoldOfferedWhenPossible`, for any bound on outstanding jobs.
* `SourceImport_proofs`, first part: `SourcesImplementCatalog` shows that handles which store, import, load
  and audit implement the catalog. That rows are described is not inductive for two reasons, and
  `CatalogInv` adds what each needs: a dataset was validated before its transaction (`Valid` of the
  call, kept from `Begin` or from the bridge's `Import` on), and the geometry that properties were
  matched against, on another connection and before the transaction, is stored and has exactly
  their features while the handle looks on and probes. The second survives the commits of others
  because they only extend rows (`MatchSurvives`); so the guarantee that a part is never replaced
  is what makes the unlocked match sound. `MergedIsDescribed` and `MatchedIsDescribed` turn the
  two into a described row, `CommitAdds` into one addition. The proof rests on `SourceAssumption`,
  `ImportAssumption` and `RecordAssumption`.
* `SourceImport_proofs`, second part: two more invariants over `CatalogInv`. `AnswerInv` states for each `pc`
  what the handle has read of its source and what it may already have answered; it survives the
  commits of others because stored parts are never replaced, which is the catalog's promise, and
  gives `OutcomesAreTrue` and `LoadsAreConsistent`. `ImportInv` says that the geometry of an
  imported source came, with its whole row, from one accepted import: a later import of the same
  provenance decodes the same files, so that what it adds does not mix. It gives
  `ImportsAreWhole` and `RecordedAreAcquired`.
* `SourceImport_proofs`, third part: `PartsAlwaysAgree`, from `ImportsAreWhole`. A stored geometry
  is what one import decoded of a shapefile, so it remains to show that decoding numbers the
  records that are not null as the reference `PartsAgree` does, and that a join keeps each record
  with the row of its number. The decoding is a recursive function over records, about which
  `ShapesAreRead` is an induction; `JoinedRows` and `FeaturesAreRecords` say that an accepted join
  has one row per record and that no two records have one feature ID.
* `LayerStack_proofs`, second part (`WorldLayers`): `WorldInv` says of each `pc` of a composition what it has read, as a claim
  about the sources as they are now (`WorkerOK`), and of each layer of the world that its channels
  are complete (`WiringOK`). Both survive the stores of others because a stored part is never
  replaced (`Grows`), so here the promise of the catalog is used as `SourceImport_proofs` proves
  it of the stores. `WiredIsStored` follows; it assumes that the other handles do not bind the
  built-in layers to sources of their own (`UserAssumption`), since the storage reserves no IDs and
  such a layer would not be composed. `AnswersAreTrue` has one case per answer; success without
  a change is the exact retry, and that an equal stack has all layers asked for needs that dense
  ordinals enumerate the layers (`OrderIsOfLayers`). `UserStateStays` is what the verdicts of the
  mutation leave: new rows only where there was none.

* `RingPipeline_proofs`: the split is defined by recursive functions, and what they compute is
  proved by existence of a solution (`Recursion`) and induction along an interval (`UpTo`), since
  the library's theorems on recursion cannot be instantiated here.
  `RingsAreAccepted`: unwrapping adds whole turns to a longitude and nothing else
  (`UnwrappedStaysOnMeridian`), so the sum around the ring is a whole number of turns, which is
  the winding the reader reports and the storage computes; the tests for a first longitude, an
  edge of half a turn and a closing duplicate then decide alike on both sides (`CanonicalRings`).
  `EveryChainIsInOnePiece`: the ends that lie on one boundary have distinct latitudes and are
  even in number, so that pairing the first with the second, the third with the fourth and so on
  leaves none over (`EveryEndIsPaired`) and uses none twice (`PairsAreDisjoint`); the follower of
  a chain is then a permutation of the chains (`ChainsFollowEachOther`), a walk along it returns
  to where it began by the pigeonhole (`ChainsClose`), two walks meet only if they are one
  (`OrbitsAreShared`), and each is begun from its least chain (`OneLeader`).
  `SplitsFitTheirProjection`: every edge is clipped to its strip (`ClippedIsInStrip`), chains are
  merged of such segments, pieces are joined of chains and shifted by the strip's turns
  (`PiecesOfChainsFit`), a ring that fits one branch needs one shift for all of its vertices
  (`ShiftedRings`), strips add up to no more pieces than the limit (`AllStripsAreKept`), and a
  ring closed over a pole is a ring again (`ClosuresAreRings`).

Only model-checked:

* liveness (`CallsReturn`, `Settles`), which is outside the prover's reach;
* the half of `SplitIsPartition` about coverage, and `PolygonIsShown`. They are about where points
  lie in the plane: that the pieces of a simple polygon do not overlap is the Jordan curve
  theorem in disguise, and a cut is at the exact latitude only on the grids of the run, since
  `PointAt` divides integers. What is proved of the split needs neither.

## 6. Plan

In order of importance; all are done.

1. `ProjectDocument` and `ProjectStore`, with the refinement between them and its proof.
2. `Publication`.
3. `LayerStack` and `ProjectContent`.
4. `Workbench`.
5. `SourceDataset` and `SourceImport`; `Catalog`, which they implement, and its proof.
6. `GeographicRing`, `SeamSplit` and `RingPipeline`.
7. `SessionStore`.
8. `WorldLayers`.
9. Proofs: done for everything but what section 5 lists as only model-checked.

## 7. Not modelled

* Projection, geodesy, elevation, refinement, rendering and scene building: floating-point
  mathematics and drawing; the finite abstractions TLC can explore keep nothing of what makes
  them correct. Of the rings' path, record numbering, decoding, classification and the cut at the
  seam are modelled on an integer grid; the projection of each piece that `ring_piecewise` makes
  afterwards, and its check of the projected orientation, are not.
* The byte layout of shapefiles, DBF files, CSV and command lines; SHA-256; validation of texts,
  timestamps and schema objects: pure functions of bytes. An invalid argument is refused before
  anything is read, and requests in the models are valid ones.
* The chunks of an embedded resource: verified content is a value, and a file whose bytes are not
  those of the identity is an input that makes the call fail.
* The well-formedness checks of `validate_result` (`adapter.cpp:33-91`) other than the comparison of
  snapshots: the rows that the modelled adapters decode pass them.
* Corrupted databases: `verify_integrity` meets what the mutations can write.
* Layer visibility, zoom, texts and the offscreen rendering of the viewer, and the closing of its
  window, where the destructors cancel and wait for the pools.
* The bounds on bindings, properties and resources of one layer or style; those on layers and
  styles are `MaxLayers` and `MaxStyles`.

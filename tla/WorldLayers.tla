------------------------------ MODULE WorldLayers ------------------------------
(***************************************************************************)
(* The built-in layers of the world (src/src/project/world_layers.cpp):    *)
(* initialize_builtin_world_layer_stack wires five layers to a physical    *)
(* and a political source, ensure_builtin_surface_classification_layer     *)
(* attaches one more to a source of surface classes.  Both look at the     *)
(* sources and layers of the project with one storage call after the other,*)
(* each on a connection of its own, before the one mutation they make.     *)
(*                                                                         *)
(* Other handles meanwhile store sources, as Catalog promises (the stores  *)
(* of SourceDataset implement it), and edit layers, as in LayerStack.      *)
(*                                                                         *)
(* Abstracted: the state of a layer is its role, name and visibility; the  *)
(* properties of a feature are its surface class, or that it has none.     *)
(***************************************************************************)
EXTENDS LayerStack

CONSTANTS
  Handle,       (* open ProjectStores on one project file.                 *)
  Missing,      (* a part of a source that is not stored.                  *)
  Offer,        (* the rows that other handles store of each source.       *)
  SurfaceClass, (* what parse_surface_class_id accepts.                    *)
  WorldCall,    (* the compositions asked for.                             *)
  UserCall      (* the edits of layers by other handles.                   *)

VARIABLES
  catalog,      (* provenance, geometry and properties of the sources.     *)
  worker        (* the composition of each handle and its locals.          *)

worldVars == <<doc, layer, source, catalog, worker>>

Sources == INSTANCE Catalog WITH revision <- doc.revision

(* BuiltinWorldLayerSources, and the ID of a surface source.               *)
InitializeWorldCall ==
  [op : {"initialize_builtin_world_layer_stack"}, physical : Source, political : Source]
EnsureSurfaceCall ==
  [op : {"ensure_builtin_surface_classification_layer"}, political : Source]
NoWorldCall == [op |-> "none"]

Provenance == [capability : SUBSET {"land", "admin0", "surface_classification"},
               worldview : STRING]

-----------------------------------------------------------------------------
(* The layers.                                                             *)
Labels == "builtin.political.labels"
Borders == "builtin.political.borders"
Countries == "builtin.political.countries"
Coastline == "builtin.physical.coastline"
Land == "builtin.physical.land"
Surface == "builtin.physical.surface-classification"

RoleOf ==
  [l \in {Labels, Borders, Countries, Coastline, Land, Surface} |->
     CASE l = Labels -> "country_label"
       [] l = Borders -> "political_boundary"
       [] l = Countries -> "political_country_fill"
       [] l = Coastline -> "physical_coastline"
       [] l = Land -> "physical_land_fill"
       [] l = Surface -> "physical_surface_classification"]

(* A new layer is visible and has the name of its role.                    *)
NewLayerState(l) == [role |-> RoleOf[l], name |-> RoleOf[l], visible |-> TRUE]

ASSUME WorldAssumption ==
  /\ DOMAIN RoleOf \subseteq Layer
  /\ {"geometry", "properties", "classification"} \subseteq Slot
  /\ WorldCall \subseteq InitializeWorldCall \cup EnsureSurfaceCall
  /\ UserCall \subseteq LayerCallType
  /\ \A l \in DOMAIN RoleOf : NewLayerState(l) \in LayerState
  /\ \A s \in Source, row \in UNION {Offer[t] : t \in Source} :
       row.provenance \in Provenance \cup {Missing}

(* The other handles do not bind the layers of the world to sources of     *)
(* their own: those IDs are the compositions'.                             *)
ASSUME UserAssumption ==
  \A q \in UserCall :
    /\ q.op = "append_layer" => q.request.layer \notin DOMAIN RoleOf
    /\ q.op = "append_layer_bindings" => q.layer \notin DOMAIN RoleOf
    /\ q.op = "initialize_layer_stack" =>
         \A r \in RequestsOf(q) : r.layer \notin DOMAIN RoleOf

Wired(l, slots, s) ==
  [layer |-> l, state |-> NewLayerState(l), resources |-> NoBindings,
   sources |-> [slot \in Slot |-> IF slot \in slots THEN s ELSE Unbound]]

WorldStack(q) ==
  <<Wired(Labels, {"properties"}, q.political),
    Wired(Borders, {"geometry"}, q.political),
    Wired(Countries, {"geometry", "properties"}, q.political),
    Wired(Coastline, {"geometry"}, q.physical),
    Wired(Land, {"geometry"}, q.physical)>>
SurfaceRequest(q) == Wired(Surface, {"classification", "geometry"}, q.political)

(* exact_surface_layer_wiring: the role and the two bindings, not the name *)
(* or the visibility, which are the user's.                                *)
ExactSurfaceWiring_AnySource(row, q) ==
  row.state.role = RoleOf[Surface] /\ Bound(row.resources) = {}
ExactSurfaceWiring(row, q) ==
  /\ row.state.role = RoleOf[Surface]
  /\ Bound(row.resources) = {}
  /\ row.sources = SurfaceRequest(q).sources

-----------------------------------------------------------------------------
(* left: features whose class is still to be read.  physical, features:    *)
(* the features of the geometry indexes of the two sources, as read.       *)
Outcome(error, changed) == [error |-> error, changed |-> changed]
AtRest == [pc |-> "idle", call |-> NoWorldCall, outcome |-> Outcome("pending", FALSE),
           physical |-> {}, features |-> {}, left |-> {}]

At(h, pc) == worker[h].pc = pc
Asked(h) == worker[h].call
Ensures(h) == Asked(h).op = "ensure_builtin_surface_classification_layer"
Parts(s) == catalog[s]
Features(part) == IF part = Missing THEN {} ELSE DOMAIN part

Go(h, pc) == worker' = [worker EXCEPT ![h].pc = pc]
AnswerWith(h, error, changed) ==
  worker' = [worker EXCEPT ![h] =
    [AtRest EXCEPT !.pc = "done", !.call = Asked(h), !.outcome = Outcome(error, changed)]]
Refuse(h, error) == AnswerWith(h, error, FALSE)
ReadsOnly == UNCHANGED <<doc, layer, source, catalog>>

Begin(h) ==
  /\ worker[h].pc \in {"idle", "done"}
  /\ \E q \in WorldCall :
       worker' = [worker EXCEPT ![h] =
         IF q.op = "initialize_builtin_world_layer_stack" /\ q.physical = q.political
         THEN [AtRest EXCEPT !.pc = "done", !.call = q,
                             !.outcome = Outcome("invalid_request", FALSE)]
         ELSE [AtRest EXCEPT !.pc = "snapshots", !.call = q]]
  /\ ReadsOnly

(* list_source_snapshots, and what the provenance of a source must say.    *)
Advertises(s, capability) ==
  /\ Parts(s).provenance # Missing
  /\ capability \in Parts(s).provenance.capability

ContractOfSnapshots(q) ==
  IF q.op = "ensure_builtin_surface_classification_layer"
  THEN Advertises(q.political, "surface_classification")
  ELSE /\ Advertises(q.physical, "land")
       /\ Advertises(q.political, "admin0")
       /\ Parts(q.political).provenance.worldview # ""

ReadSnapshots(h) ==
  /\ At(h, "snapshots")
  /\ IF ~ContractOfSnapshots(Asked(h)) THEN Refuse(h, "source_contract_mismatch")
     ELSE Go(h, IF Ensures(h) THEN "geometry" ELSE "physical_geometry")
  /\ ReadsOnly

(* list_source_geometry_index of the physical source.                      *)
ReadPhysicalGeometry(h) ==
  /\ At(h, "physical_geometry")
  /\ LET geometry == Parts(Asked(h).physical).geometry
     IN IF geometry = Missing THEN Refuse(h, "source_contract_mismatch")
        ELSE worker' = [worker EXCEPT ![h].pc = "geometry",
                                      ![h].physical = DOMAIN geometry]
  /\ ReadsOnly

(* Of the political or the surface source.                                 *)
ReadGeometry(h) ==
  /\ At(h, "geometry")
  /\ LET geometry == Parts(Asked(h).political).geometry
     IN IF geometry = Missing THEN Refuse(h, "source_contract_mismatch")
        ELSE worker' = [worker EXCEPT ![h].pc = "properties",
                                      ![h].features = DOMAIN geometry]
  /\ ReadsOnly

(* list_source_feature_properties_index: the channel is complete, and both *)
(* indexes describe the same features.                                     *)
IndexesAgree_IfThere(h, properties) ==
  worker[h].features # {} /\ (Ensures(h) => properties # Missing)
IndexesAgree(h, properties) ==
  /\ properties # Missing
  /\ worker[h].features # {}
  /\ Ensures(h) \/ worker[h].physical # {}
  /\ DOMAIN properties = worker[h].features

ReadProperties(h) ==
  /\ At(h, "properties")
  /\ IF ~IndexesAgree(h, Parts(Asked(h).political).properties)
     THEN Refuse(h, "source_contract_mismatch")
     ELSE worker' = [worker EXCEPT ![h].pc = IF Ensures(h) THEN "classes" ELSE "compose",
                                   ![h].left = worker[h].features]
  /\ ReadsOnly

(* load_feature_properties of one feature: its class must be there and     *)
(* known.                                                                  *)
HasClass(value) == value \in SurfaceClass

ReadClass(h) ==
  /\ At(h, "classes") /\ worker[h].left # {}
  /\ LET f == CHOOSE g \in worker[h].left : TRUE
     IN IF ~HasClass(Parts(Asked(h).political).properties[f])
        THEN Refuse(h, "source_contract_mismatch")
        ELSE worker' = [worker EXCEPT ![h].left = @ \ {f}]
  /\ ReadsOnly

Classified(h) ==
  /\ At(h, "classes") /\ worker[h].left = {}
  /\ Go(h, "layers")
  /\ ReadsOnly

(* list_project_layers.  A layer that is there is left as the user has it. *)
ReadLayers_Restores(h) ==
  /\ At(h, "layers")
  /\ IF Surface \notin Layers THEN Go(h, "compose") ELSE AnswerWith(h, "none", TRUE)
  /\ layer' = IF Surface \notin Layers THEN layer
              ELSE [layer EXCEPT ![Surface].state = NewLayerState(Surface)]
  /\ UNCHANGED <<doc, source, catalog>>
ReadLayers(h) ==
  /\ At(h, "layers")
  /\ IF Surface \notin Layers THEN Go(h, "compose")
     ELSE IF ExactSurfaceWiring(layer[Surface], Asked(h)) THEN Refuse(h, "none")
     ELSE Refuse(h, "source_contract_mismatch")
  /\ ReadsOnly

-----------------------------------------------------------------------------
(* The one mutation, with the verdict of its own transaction.  The refresh *)
(* after the commit may fail.                                              *)
Mutation(h) ==
  IF Ensures(h) THEN [op |-> "append_layer", request |-> SurfaceRequest(Asked(h))]
  ELSE [op |-> "initialize_layer_stack", requests |-> WorldStack(Asked(h))]

Compose(h) ==
  /\ At(h, "compose")
  /\ LayerVerdict(Mutation(h)) = "commit"
  /\ AppendLayer(Mutation(h)) \/ InitializeLayerStack(Mutation(h))
  /\ \E error \in {"none", "storage_rejected"} : AnswerWith(h, error, TRUE)
  /\ UNCHANGED catalog

NotComposed(verdict) == IF verdict = "retry" THEN "none" ELSE "storage_rejected"

LeaveComposed(h) ==
  /\ At(h, "compose")
  /\ LayerVerdict(Mutation(h)) # "commit"
  /\ Refuse(h, NotComposed(LayerVerdict(Mutation(h))))
  /\ ReadsOnly

(* Any storage call may fail.                                              *)
StorageFails(h) ==
  /\ worker[h].pc \notin {"idle", "done"}
  /\ Refuse(h, "storage_rejected")
  /\ ReadsOnly

-----------------------------------------------------------------------------
(* The other handles.                                                      *)
StoreSource(s) ==
  /\ doc.revision < MaxRevision
  /\ \E row \in Offer[s] : catalog' = [catalog EXCEPT ![s] = row]
  /\ doc' = Advance(doc, doc.frozen)
  /\ source' = source \cup {s}
  /\ Sources!Add(s)
  /\ UNCHANGED <<layer, worker>>

EditLayers ==
  /\ \E q \in UserCall : LayerStep(q)
  /\ UNCHANGED <<catalog, worker>>

WorldInit ==
  /\ LayerInit
  /\ Sources!Init
  /\ worker = [h \in Handle |-> AtRest]

Look(h) ==
  \/ ReadSnapshots(h) \/ ReadPhysicalGeometry(h) \/ ReadGeometry(h)
  \/ ReadProperties(h) \/ ReadClass(h) \/ Classified(h) \/ ReadLayers(h)

WorldNext ==
  \/ \E h \in Handle :
       Begin(h) \/ Look(h) \/ Compose(h) \/ LeaveComposed(h) \/ StorageFails(h)
  \/ \E s \in Source : StoreSource(s)
  \/ EditLayers

WorldSpec == WorldInit /\ [][WorldNext]_worldVars

-----------------------------------------------------------------------------
(* A layer that was composed can be drawn: each channel it reads is stored *)
(* completely, although the sources were looked at in several reads while  *)
(* they were being stored, and every surface feature has a known class.    *)
Channel(slot, s) ==
  /\ slot = "geometry" => Features(Parts(s).geometry) # {}
  /\ slot = "properties" => Features(Parts(s).properties) = Features(Parts(s).geometry)
  /\ slot = "classification" =>
       \A f \in Features(Parts(s).geometry) :
         f \in Features(Parts(s).properties) /\ Parts(s).properties[f] \in SurfaceClass

ChannelsAreStored ==
  \A l \in Layers \cap DOMAIN RoleOf, slot \in Slot :
    layer[l].sources[slot] # Unbound => Channel(slot, layer[l].sources[slot])

(* What a composition reports is true when it does: after success all the  *)
(* layers it was asked for are there with their wiring, and an error it    *)
(* returns without a change changed nothing.                               *)
IsComposed(q) ==
  IF q.op = "ensure_builtin_surface_classification_layer"
  THEN Surface \in Layers /\ layer[Surface].sources = SurfaceRequest(q).sources
  ELSE \A r \in RequestsOf([requests |-> WorldStack(q)]) :
         r.layer \in Layers /\ layer[r.layer].sources = r.sources

Answers(h) == worker[h].pc # "done" /\ worker'[h].pc = "done"
CompositionAnswersTrue ==
  [][\A h \in Handle : Answers(h) =>
       LET outcome == worker'[h].outcome
       IN /\ outcome.error = "none" \/ outcome.changed => (IsComposed(Asked(h)))'
          /\ ~outcome.changed => layer' = layer]_worldVars

(* What the user made of the layers survives a composition: their names,   *)
(* visibility, wiring and order stay, and new layers come in one revision. *)
UserStateSurvives ==
  [][(\E h \in Handle : worker'[h] # worker[h]) =>
       /\ \A l \in Layers : layer'[l] = layer[l]
       /\ layer' # layer => doc'.revision = doc.revision + 1]_worldVars

=============================================================================

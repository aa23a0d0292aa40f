------------------------------ MODULE LayerStack ------------------------------
(***************************************************************************)
(* The ordered layers of a project (src/src/storage/layer.cpp and          *)
(* layer_stack.cpp) over the document of ProjectDocument: each layer's     *)
(* ordinal, state and bindings to sources, resources and styles.           *)
(*                                                                         *)
(* Like the bodies of ProjectDocument, a mutation here is one step: its    *)
(* verdict on the rows it reads and the rows it writes.  The mutations of  *)
(* styles are in ProjectContent, which composes the two.                   *)
(*                                                                         *)
(* Abstracted: role, name and visibility are one layer state, of which an  *)
(* update changes a part; bindings are functions of the slot.              *)
(***************************************************************************)
EXTENDS ProjectDocument, FiniteSets, Sequences

CONSTANTS
  Layer,        (* layer IDs.                                              *)
  LayerState,   (* role, name and visibility.                              *)
  Slot,         (* slot IDs of bindings.                                   *)
  Source,       (* source IDs.                                             *)
  Style,        (* style IDs.                                              *)
  Unbound,      (* no binding in this slot.                                *)
  NoLayer,      (* no row for this layer ID.                               *)
  MaxLayers,    (* kMaxProjectLayers.                                      *)
  MaxBindings,  (* kMaxLayerBindings.                                      *)
  OrdinalShift  (* what rewrite_order adds to move ordinals out of the way.*)

VARIABLES
  layer,        (* aeris_layer and its three binding tables.               *)
  source        (* the source IDs of aeris_source.                         *)

Bindings(S) == [Slot -> S \cup {Unbound}]
NoBindings == [slot \in Slot |-> Unbound]
Bound(bindings) == {bindings[slot] : slot \in Slot} \ {Unbound}
SlotsOf(bindings) == {slot \in Slot : bindings[slot] # Unbound}

LayerRow ==
  [ordinal : Nat, state : LayerState, sources : Bindings(Source),
   resources : Bindings(Resource), styles : Bindings(Style)]

ASSUME LayerAssumption ==
  /\ IsFiniteSet(Layer)
  /\ MaxLayers \in Nat
  /\ MaxBindings \in Nat
  /\ OrdinalShift \in Nat
  /\ MaxLayers <= OrdinalShift
  /\ NoLayer \notin LayerRow

(* The requests of the layer interface.                                    *)
LayerCreateRequest ==
  [layer : Layer, state : LayerState, sources : Bindings(Source),
   resources : Bindings(Resource)]
AppendLayerCall == [op : {"append_layer"}, request : LayerCreateRequest]
AppendBindingsCall ==
  [op : {"append_layer_bindings"}, layer : Layer,
   sources : Bindings(Source), resources : Bindings(Resource)]
UpdateStateCall ==
  [op : {"update_layer_state"}, layer : Layer, state : LayerState]
SetOrderCall == [op : {"set_layer_order"}, order : Seq(Layer)]
RemoveLayerCall == [op : {"remove_layer"}, layer : Layer]
InitializeCall ==
  [op : {"initialize_layer_stack"}, requests : Seq(LayerCreateRequest)]
StoreSourceCall == [op : {"store_source_snapshot"}, source : Source]
LayerCallType ==
  AppendLayerCall \cup AppendBindingsCall \cup UpdateStateCall \cup SetOrderCall
    \cup RemoveLayerCall \cup InitializeCall \cup StoreSourceCall

-----------------------------------------------------------------------------
(* Ordinals.                                                               *)

Layers == {l \in Layer : layer[l] # NoLayer}

(* validate_binding_sets, for requests and for rows that are read.         *)
ValidBindings(sources, resources) ==
  /\ Cardinality(SlotsOf(sources)) <= MaxBindings
  /\ Cardinality(SlotsOf(resources)) <= MaxBindings

LayerReadable(l) == ValidBindings(layer[l].sources, layer[l].resources)

(* load_layers, the first thing every reader and most mutations do: the    *)
(* ordinals of n layers are 0..n-1, or the whole project is refused.       *)
LayersReadable ==
  /\ Cardinality(Layers) <= MaxLayers
  /\ {layer[l].ordinal : l \in Layers} = 0..Cardinality(Layers) - 1
  /\ \A l \in Layers : LayerReadable(l)

(* The vector load_layers returns.                                         *)
OrderOf(layers) ==
  CHOOSE order \in [1..Cardinality(layers) -> layers] :
    \A i, j \in DOMAIN order :
      i < j => layer[order[i]].ordinal < layer[order[j]].ordinal

IsOrderOf(order, layers) ==
  /\ Len(order) = Cardinality(layers)
  /\ layers = {order[i] : i \in DOMAIN order}

(* rewrite_order, first the shift of every row, then one row after the     *)
(* other: the ordinals of the layers when the first n rows are written.    *)
Shifted_InPlace(l) == layer[l].ordinal
Shifted(l) == layer[l].ordinal + OrdinalShift

OrdinalAfter(order, n, l) ==
  IF \E i \in 1..n : order[i] = l
  THEN (CHOOSE i \in 1..n : order[i] = l) - 1
  ELSE Shifted(l)

(* UNIQUE(ordinal) fails a statement that meets a row it has not moved yet.*)
RewriteCollides(order, layers) ==
  \/ \E k, l \in layers : k # l /\ Shifted(k) = layer[l].ordinal
  \/ \E n \in DOMAIN order :
       \E l \in layers \ {order[n]} : OrdinalAfter(order, n - 1, l) = n - 1

(* The rows of the layers once all of the order is written; the row of a   *)
(* removed layer is gone, and its bindings with it (ON DELETE CASCADE).    *)
Reordered(order, layers) ==
  [l \in Layer |->
     IF l \in layers
     THEN [layer[l] EXCEPT !.ordinal = OrdinalAfter(order, Cardinality(layers), l)]
     ELSE NoLayer]

-----------------------------------------------------------------------------
(* Bindings.                                                               *)

(* append_layer_bindings: slots that are bound stay as they are.           *)
Merged(old, new) ==
  [slot \in Slot |-> IF old[slot] = Unbound THEN new[slot] ELSE old[slot]]

SlotsConflict(old, new) ==
  \E slot \in Slot :
    /\ Unbound \notin {old[slot], new[slot]}
    /\ old[slot] # new[slot]

(* The bound is on what the layer would have.                              *)
WithinBound_Request(old, q) == ValidBindings(q.sources, q.resources)
WithinBound(old, q) ==
  ValidBindings(Merged(old.sources, q.sources), Merged(old.resources, q.resources))

Added_Requested(old, new) == Bound(new)
Added(old, new) == Bound([slot \in Slot |->
  IF old[slot] = Unbound THEN new[slot] ELSE Unbound])

TargetsExist(sources, resources) ==
  sources \subseteq source /\ resources \subseteq Stored(doc)

(* promote_resource_requirement for every new binding, then                *)
(* advance_revision: an external target ends the frozen state.             *)
RequireBound_KeepsFrozen(resources) ==
  [Advance(doc, doc.frozen) EXCEPT !.required = doc.required \cup resources]
RequireBound(resources) ==
  [Advance(doc, doc.frozen /\ resources \subseteq doc.embedded) EXCEPT
     !.required = doc.required \cup resources]

-----------------------------------------------------------------------------
(* The stack as initialize_layer_stack writes and reads it.                *)

RequestsOf(q) == {q.requests[i] : i \in DOMAIN q.requests}

(* canonicalize_stack.                                                     *)
ValidStack(requests) ==
  /\ Len(requests) \in 1..MaxLayers
  /\ \A i \in DOMAIN requests : ValidBindings(requests[i].sources, requests[i].resources)
  /\ \A i, j \in DOMAIN requests : requests[i].layer = requests[j].layer => i = j

(* A layer as it would be requested.                                       *)
StoredRequest(l) ==
  [layer |-> l, state |-> layer[l].state,
   sources |-> layer[l].sources, resources |-> layer[l].resources]

(* load_existing_stack.                                                    *)
ExistingStack ==
  LET order == OrderOf(Layers) IN [i \in DOMAIN order |-> StoredRequest(order[i])]

(* equal_stack: the same layers in the same order.                         *)
EqualStack(requests) == ExistingStack = requests

(* insert_bindings, promote_resource_requirement and advance_revision of   *)
(* the whole stack.                                                        *)
BoundByStack(q) == UNION {Bound(r.resources) : r \in RequestsOf(q)}
ExternalRequired(resources) == ~(resources \subseteq doc.embedded)
RequireStack(q) ==
  LET next == IF ExternalRequired(BoundByStack(q)) THEN FALSE ELSE doc.frozen
  IN [Advance(doc, next) EXCEPT !.required = doc.required \cup BoundByStack(q)]

-----------------------------------------------------------------------------
(* Verdicts, as in ProjectDocument: "commit", "retry" or an error.         *)

(* Writing needs another revision.                                         *)
Committed == IF doc.revision = MaxRevision THEN "schema_invalid" ELSE "commit"

RowOf(q, ordinal) ==
  [ordinal |-> ordinal, state |-> q.state, sources |-> q.sources,
   resources |-> q.resources, styles |-> NoBindings]

(* equal_existing: everything but the ordinal and the style bindings.      *)
EqualExisting(q) ==
  layer[q.layer] = [RowOf(q, layer[q.layer].ordinal) EXCEPT
                      !.styles = layer[q.layer].styles]

VerdictOnAppend(q) ==
  IF ~ValidBindings(q.sources, q.resources) THEN "invalid_argument"
  ELSE IF ~LayersReadable THEN "schema_invalid"
  ELSE IF q.layer \in Layers THEN IF EqualExisting(q) THEN "retry" ELSE "record_exists"
  ELSE IF Cardinality(Layers) >= MaxLayers THEN "invalid_argument"
  ELSE IF TargetsExist(Bound(q.sources), Bound(q.resources)) THEN Committed
  ELSE "record_not_found"

VerdictOnBindings(q) ==
  LET old == layer[q.layer]
  IN IF \/ Bound(q.sources) \cup Bound(q.resources) = {}
        \/ ~ValidBindings(q.sources, q.resources) THEN "invalid_argument"
     ELSE IF ~LayersReadable THEN "schema_invalid"
     ELSE IF q.layer \notin Layers THEN "record_not_found"
     ELSE IF \/ SlotsConflict(old.sources, q.sources)
             \/ SlotsConflict(old.resources, q.resources) THEN "record_exists"
     ELSE IF ~WithinBound(old, q) THEN "invalid_argument"
     ELSE LET sources == Added(old.sources, q.sources)
              resources == Added(old.resources, q.resources)
          IN IF sources \cup resources = {} THEN "retry"
             ELSE IF TargetsExist(sources, resources) THEN Committed
             ELSE "record_not_found"

VerdictOnState(q) ==
  IF q.layer \notin Layers THEN "record_not_found"
  ELSE IF layer[q.layer].state = q.state THEN "retry" ELSE Committed

VerdictOnOrder(q) ==
  IF ~LayersReadable THEN "schema_invalid"
  ELSE IF ~IsOrderOf(q.order, Layers) THEN "invalid_argument"
  ELSE IF q.order = OrderOf(Layers) THEN "retry"
  ELSE IF RewriteCollides(q.order, Layers) THEN "sqlite_failure"
  ELSE Committed

VerdictOnRemove(q) ==
  LET rest == Layers \ {q.layer}
  IN IF ~LayersReadable THEN "schema_invalid"
     ELSE IF q.layer \notin Layers THEN "record_not_found"
     ELSE IF RewriteCollides(OrderOf(rest), rest) THEN "sqlite_failure"
     ELSE Committed

VerdictOnInitialize(q) ==
  IF ~ValidStack(q.requests) THEN "invalid_argument"
  ELSE IF ~LayersReadable THEN "schema_invalid"
  ELSE IF Layers # {}
  THEN IF EqualStack(q.requests) THEN "retry" ELSE "record_exists"
  ELSE IF \A r \in RequestsOf(q) : TargetsExist(Bound(r.sources), Bound(r.resources))
       THEN Committed ELSE "record_not_found"

VerdictOnSource(q) == IF q.source \in source THEN "retry" ELSE Committed

LayerVerdict(q) ==
  CASE q.op = "append_layer" -> VerdictOnAppend(q.request)
    [] q.op = "append_layer_bindings" -> VerdictOnBindings(q)
    [] q.op = "update_layer_state" -> VerdictOnState(q)
    [] q.op = "set_layer_order" -> VerdictOnOrder(q)
    [] q.op = "remove_layer" -> VerdictOnRemove(q)
    [] q.op = "initialize_layer_stack" -> VerdictOnInitialize(q)
    [] q.op = "store_source_snapshot" -> VerdictOnSource(q)

-----------------------------------------------------------------------------
(* The mutations.  Each transaction writes its rows and one revision.      *)

AppendLayer(q) ==
  /\ q.op = "append_layer"
  /\ LayerVerdict(q) = "commit"
  /\ layer' = [layer EXCEPT
       ![q.request.layer] = RowOf(q.request, Cardinality(Layers))]
  /\ doc' = RequireBound(Bound(q.request.resources))
  /\ UNCHANGED source

AppendLayerBindings(q) ==
  /\ q.op = "append_layer_bindings"
  /\ LayerVerdict(q) = "commit"
  /\ layer' = [layer EXCEPT
       ![q.layer].sources = Merged(layer[q.layer].sources, q.sources),
       ![q.layer].resources = Merged(layer[q.layer].resources, q.resources)]
  /\ doc' = RequireBound(Added(layer[q.layer].resources, q.resources))
  /\ UNCHANGED source

UpdateLayerState(q) ==
  /\ q.op = "update_layer_state"
  /\ LayerVerdict(q) = "commit"
  /\ layer' = [layer EXCEPT ![q.layer].state = q.state]
  /\ doc' = Advance(doc, doc.frozen)
  /\ UNCHANGED source

SetLayerOrder(q) ==
  /\ q.op = "set_layer_order"
  /\ LayerVerdict(q) = "commit"
  /\ layer' = Reordered(q.order, Layers)
  /\ doc' = Advance(doc, doc.frozen)
  /\ UNCHANGED source

(* What the layer required stays required.                                 *)
RowsWithout(l) == Reordered(OrderOf(Layers \ {l}), Layers \ {l})

RemoveLayer(q) ==
  /\ q.op = "remove_layer"
  /\ LayerVerdict(q) = "commit"
  /\ layer' = RowsWithout(q.layer)
  /\ doc' = Advance(doc, doc.frozen)
  /\ UNCHANGED source

InitializeLayerStack(q) ==
  /\ q.op = "initialize_layer_stack"
  /\ LayerVerdict(q) = "commit"
  /\ layer' = [l \in Layer |->
       IF \E i \in DOMAIN q.requests : q.requests[i].layer = l
       THEN LET i == CHOOSE j \in DOMAIN q.requests : q.requests[j].layer = l
            IN RowOf(q.requests[i], i - 1)
       ELSE NoLayer]
  /\ doc' = RequireStack(q)
  /\ UNCHANGED source

StoreSourceSnapshot(q) ==
  /\ q.op = "store_source_snapshot"
  /\ LayerVerdict(q) = "commit"
  /\ source' = source \cup {q.source}
  /\ doc' = Advance(doc, doc.frozen)
  /\ UNCHANGED layer

LayerInit ==
  /\ DocumentInit
  /\ layer = [l \in Layer |-> NoLayer]
  /\ source = {}

LayerStep(q) ==
  \/ AppendLayer(q) \/ AppendLayerBindings(q) \/ UpdateLayerState(q)
  \/ SetLayerOrder(q) \/ RemoveLayer(q) \/ InitializeLayerStack(q)
  \/ StoreSourceSnapshot(q)

-----------------------------------------------------------------------------
(* Every column keeps its type and range.                                  *)
LayerTypeOK ==
  /\ layer \in [Layer -> LayerRow \cup {NoLayer}]
  /\ source \subseteq Source

(* Any permutation of the current layers can be written although ordinal   *)
(* is UNIQUE and the rows are updated one after the other.                 *)
ReorderSucceeds ==
  \A order \in [1..Cardinality(Layers) -> Layers] :
    IsOrderOf(order, Layers) => ~RewriteCollides(order, Layers)

=============================================================================

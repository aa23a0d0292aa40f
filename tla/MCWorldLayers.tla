---------------------------- MODULE MCWorldLayers ----------------------------
(* Two handles that compose the world, over sources that are stored while  *)
(* they look, and a user who hides, reorders and removes layers.           *)
EXTENDS WorldLayers, TLC

CONSTANTS h1, h2

From(capability, worldview) ==
  [capability |-> {capability}, worldview |-> worldview]
Row(provenance, geometry, properties) ==
  [part \in {"provenance", "geometry", "properties"} |->
     CASE part = "provenance" -> provenance
       [] part = "geometry" -> geometry
       [] part = "properties" -> properties]
On(features, value) == [f \in features |-> value]

Offers ==
  [s \in Source |->
     CASE s = "land" -> {Row(From("land", ""), On({"a"}, "A"), Missing)}
       [] s = "countries" ->
            {Row(From("admin0", "de-facto"), On({"a", "b"}, "A"), Missing),
             Row(From("admin0", "de-facto"), On({"a", "b"}, "A"), On({"a", "b"}, "x"))}
       [] s = "shelves" ->
            {Row(From("surface_classification", ""), On({"a"}, "A"), Missing),
             Row(From("surface_classification", ""), On({"a"}, "A"), On({"a"}, "ice")),
             Row(From("surface_classification", ""), On({"a"}, "A"), On({"a"}, "lava"))}
       [] s = "surfaces" ->
            {Row(From("surface_classification", ""), On({"a", "b"}, "A"), On({"a", "b"}, "ice"))}]

World == [op |-> "initialize_builtin_world_layer_stack",
          physical |-> "land", political |-> "countries"]
SurfaceOf(s) == [op |-> "ensure_builtin_surface_classification_layer", political |-> s]
WorldCalls ==
  {World, SurfaceOf("shelves"), SurfaceOf("surfaces"), [World EXCEPT !.political = "land"]}

Edits ==
  {[op |-> "update_layer_state", layer |-> Surface,
    state |-> [NewLayerState(Surface) EXCEPT !.visible = FALSE]],
   [op |-> "remove_layer", layer |-> Surface],
   [op |-> "update_layer_state", layer |-> Land,
    state |-> [NewLayerState(Land) EXCEPT !.visible = FALSE]],
   [op |-> "remove_layer", layer |-> Land],
   [op |-> "set_layer_order",
    order |-> <<Surface, Labels, Borders, Countries, Coastline, Land>>]}

LayerStates == {NewLayerState(l) : l \in DOMAIN RoleOf}
  \cup {[NewLayerState(l) EXCEPT !.visible = FALSE] : l \in {Surface, Land}}

HandleSymmetry == Permutations({h1, h2})

=============================================================================

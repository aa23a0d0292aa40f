--------------------------- MODULE MCProjectContent ---------------------------
(* Three layers, two slots, three styles, two resources and one source.    *)
EXTENDS ProjectContent

CONSTANTS
  l1, l2, l3, s1, s2, s3, r1, r2, i1, a, b, on, off, src, plain,
  bold, Sinusoidal

In(slot, target) == [NoBindings EXCEPT ![slot] = target]

NewLayer(l, source_id, resource) ==
  [layer |-> l, state |-> on, sources |-> In(a, source_id), resources |-> In(a, resource)]
AppendOf(request) == [op |-> "append_layer", request |-> request]

Appends == {AppendOf(NewLayer(l1, src, Unbound)), AppendOf(NewLayer(l2, Unbound, r1)),
            AppendOf(NewLayer(l3, Unbound, Unbound))}
Initializations ==
  {[op |-> "initialize_layer_stack",
    requests |-> <<NewLayer(l2, Unbound, r1), NewLayer(l1, Unbound, Unbound)>>]}
BindingAppends ==
  {[op |-> "append_layer_bindings", layer |-> l2, sources |-> In(b, src),
    resources |-> In(a, r1)],
   [op |-> "append_layer_bindings", layer |-> l1, sources |-> In(b, src),
    resources |-> In(a, r2)]}
LayerEdits ==
  {[op |-> "update_layer_state", layer |-> l1, state |-> off]}
    \cup [op : {"remove_layer"}, layer : {l1, l2}]
    \cup [op : {"set_layer_order"}, 
         order : {<<l1, l2>>, <<l2, l1>>, <<l1, l2, l3>>, <<l3, l1, l2>>, <<l2, l3, l1>>}]
Sources == [op : {"store_source_snapshot"}, source : Source]

StyleEdits ==
  [op : {"set_style"}, style : Style,
   row : [body : {plain}, parent : Style \cup {NoParent}, resources : {NoBindings}]]
    \cup {[op |-> "set_style", style |-> s1,
           row |-> [body |-> bold, parent |-> NoParent, resources |-> In(a, r2)]]}
    \cup [op : {"remove_style"}, style : Style]
LayerStyles ==
  [op : {"set_layer_style_bindings"}, layer : {l1}, styles : {In(a, s1), NoBindings}]

Resources ==
  {[op |-> "store_external_resource", resource |-> r1, identity |-> i1, required |-> FALSE],
   [op |-> "embed_resource_file", resource |-> r1, identity |-> i1,
    required |-> TRUE, input |-> i1],
   [op |-> "store_external_resource", resource |-> r2, identity |-> i1, required |-> FALSE],
   [op |-> "store_external_resource", resource |-> r2, identity |-> i1, required |-> TRUE],
   [op |-> "embed_resource_file", resource |-> r2, identity |-> i1,
    required |-> FALSE, input |-> i1],
   [op |-> "freeze_project"]}
Projections ==
  [op : {"set_project_projection"},
   projection : {[model |-> Sinusoidal, meridian |-> Zero]}]
Updates == [op : {"update_metadata"}, worldview : Worldview]

Requests ==
  Appends \cup Initializations \cup BindingAppends \cup LayerEdits \cup Sources
    \cup StyleEdits \cup LayerStyles \cup Resources
    \cup Projections \cup Updates

=============================================================================

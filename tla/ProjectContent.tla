---------------------------- MODULE ProjectContent ----------------------------
(***************************************************************************)
(* The styles of a project (src/src/storage/style.cpp), composed with its  *)
(* layers (LayerStack) and its metadata and resources (ProjectDocument):   *)
(* styles inherit from styles, require resources and are bound to slots of *)
(* layers.  A step is one committed mutation of any of the three.          *)
(*                                                                         *)
(* Abstracted: model, name and typed properties of a style are one body.   *)
(***************************************************************************)
EXTENDS LayerStack

CONSTANTS
  Body,         (* model, name and properties of a style.                  *)
  NoStyle,      (* no row for this style ID.                               *)
  NoParent,     (* parent_style_id is NULL.                                *)
  MaxStyles,    (* kMaxProjectStyles.                                      *)
  MaxStyleSlots,(* kMaxStyleResourceBindings and kMaxLayerStyleBindings.   *)
  ContentCall,  (* the requests made.                                      *)
  NoCall        (* before the first mutation.                              *)

VARIABLES
  style,        (* aeris_style and its resource bindings.                  *)
  last          (* history: the request committed last.                    *)

contentVars == <<doc, layer, source, style, last>>

StyleRow == [body : Body, parent : Style \cup {NoParent},
             resources : Bindings(Resource)]

SetStyleCall == [op : {"set_style"}, style : Style, row : StyleRow]
RemoveStyleCall == [op : {"remove_style"}, style : Style]
SetLayerStylesCall ==
  [op : {"set_layer_style_bindings"}, layer : Layer, styles : Bindings(Style)]
StyleCallType == SetStyleCall \cup RemoveStyleCall \cup SetLayerStylesCall

ASSUME ContentAssumption ==
  /\ IsFiniteSet(Style)
  /\ NoParent \notin Style
  /\ NoStyle \notin StyleRow
  /\ MaxStyles \in Nat
  /\ MaxStyleSlots \in Nat
  /\ ContentCall \subseteq MutationType \cup LayerCallType \cup StyleCallType

Styles == {s \in Style : style[s] # NoStyle}

-----------------------------------------------------------------------------
(* validate_parent_chain: the styles met from a parent upwards.            *)
Ancestors(parent) ==
  LET chain[n \in 0..Cardinality(Style)] ==
        IF n = 0 THEN parent
        ELSE IF chain[n - 1] \in Styles THEN style[chain[n - 1]].parent ELSE NoParent
  IN {chain[n] : n \in 0..Cardinality(Style)} \ {NoParent}

VerdictOnChain_ParentOnly(s, parent) ==
  IF parent = s THEN "invalid_argument"
  ELSE IF parent \in Styles \cup {NoParent} THEN "ok" ELSE "record_not_found"
VerdictOnChain(s, parent) ==
  IF s \in Ancestors(parent) THEN "invalid_argument"
  ELSE IF Ancestors(parent) \subseteq Styles THEN "ok" ELSE "record_not_found"

(* canonicalize_and_validate_style and canonicalize_layer_style_bindings.  *)
ValidStyle(s, row) ==
  /\ row.parent # s
  /\ Cardinality(SlotsOf(row.resources)) <= MaxStyleSlots
ValidLayerStyles(styles) == Cardinality(SlotsOf(styles)) <= MaxStyleSlots

(* load_style: what a style is bound to is stored and required.            *)
BindingsRequired(resources) ==
  /\ resources \subseteq Stored(doc)
  /\ resources \subseteq doc.required
StyleReadable(s) ==
  /\ ValidStyle(s, style[s])
  /\ BindingsRequired(Bound(style[s].resources))

(* load_all_styles and load_layer_bindings.                                *)
StylesReadable ==
  /\ Cardinality(Styles) <= MaxStyles
  /\ \A s \in Styles : StyleReadable(s)
LayerStylesReadable(l) ==
  /\ ValidLayerStyles(layer[l].styles)
  /\ Bound(layer[l].styles) \subseteq Styles

VerdictOnSetStyle(q) ==
  LET chain == VerdictOnChain(q.style, q.row.parent)
  IN IF ~ValidStyle(q.style, q.row) THEN "invalid_argument"
     ELSE IF chain # "ok" THEN chain
     ELSE IF q.style \in Styles /\ ~StyleReadable(q.style) THEN "schema_invalid"
     ELSE IF style[q.style] = q.row THEN "retry"
     ELSE IF q.style \notin Styles /\ Cardinality(Styles) >= MaxStyles
     THEN "invalid_argument"
     ELSE IF Bound(q.row.resources) \subseteq Stored(doc) THEN Committed
     ELSE "record_not_found"

Children(s) == {child \in Styles : style[child].parent = s}
LayersWith(s) == {l \in Layers : s \in Bound(layer[l].styles)}

VerdictOnRemoveStyle(q) ==
  IF q.style \notin Styles THEN "retry"
  ELSE IF ~StyleReadable(q.style) THEN "schema_invalid"
  ELSE IF Children(q.style) \cup LayersWith(q.style) # {} THEN "record_exists"
  ELSE Committed

VerdictOnLayerStyles(q) ==
  IF ~ValidLayerStyles(q.styles) THEN "invalid_argument"
  ELSE IF q.layer \notin Layers \/ ~(Bound(q.styles) \subseteq Styles)
  THEN "record_not_found"
  ELSE IF \/ \E s \in Bound(q.styles) : ~StyleReadable(s)
          \/ ~LayerStylesReadable(q.layer) THEN "schema_invalid"
  ELSE IF layer[q.layer].styles = q.styles THEN "retry" ELSE Committed

ContentVerdict(q) ==
  CASE q \in MutationType -> Verdict(doc, q)
    [] q.op = "set_style" -> VerdictOnSetStyle(q)
    [] q.op = "remove_style" -> VerdictOnRemoveStyle(q)
    [] q.op = "set_layer_style_bindings" -> VerdictOnLayerStyles(q)
    [] OTHER -> LayerVerdict(q)

-----------------------------------------------------------------------------
(* delete_style_contents and insert_style_contents: replaced, not merged.  *)
Rewritten(s, row) == [style EXCEPT ![s] = row]

(* promote_style_resource of every binding, and advance_revision of a      *)
(* style, which can only end the frozen state.                             *)
PromotedForStyle(resources) == doc.required \cup resources
AdvanceStyle(external) == Advance(doc, IF external THEN FALSE ELSE doc.frozen)

SetStyle(q) ==
  /\ q.op = "set_style"
  /\ ContentVerdict(q) = "commit"
  /\ style' = Rewritten(q.style, q.row)
  /\ doc' = [AdvanceStyle(ExternalRequired(Bound(q.row.resources))) EXCEPT
               !.required = PromotedForStyle(Bound(q.row.resources))]
  /\ UNCHANGED <<layer, source>>

RemoveStyle(q) ==
  /\ q.op = "remove_style"
  /\ ContentVerdict(q) = "commit"
  /\ style' = [style EXCEPT ![q.style] = NoStyle]
  /\ doc' = AdvanceStyle(FALSE)
  /\ UNCHANGED <<layer, source>>

SetLayerStyleBindings(q) ==
  /\ q.op = "set_layer_style_bindings"
  /\ ContentVerdict(q) = "commit"
  /\ layer' = [layer EXCEPT ![q.layer].styles = q.styles]
  /\ doc' = AdvanceStyle(FALSE)
  /\ UNCHANGED <<source, style>>

MutateDocument(q) ==
  /\ q \in MutationType
  /\ Mutate(q)
  /\ UNCHANGED <<layer, source, style>>

ContentInit ==
  /\ LayerInit
  /\ style = [s \in Style |-> NoStyle]
  /\ last = NoCall

ContentNext ==
  \E q \in ContentCall :
    /\ last' = q
    /\ \/ MutateDocument(q)
       \/ LayerStep(q) /\ UNCHANGED style
       \/ SetStyle(q) \/ RemoveStyle(q) \/ SetLayerStyleBindings(q)

ContentSpec == ContentInit /\ [][ContentNext]_contentVars

-----------------------------------------------------------------------------
(* The document, layers and styles keep their types.                       *)
ContentTypeOK ==
  /\ DocumentTypeOK
  /\ LayerTypeOK
  /\ style \in [Style -> StyleRow \cup {NoStyle}]

(* Inheritance is a forest of stored styles: no sequence of set_style and  *)
(* remove_style makes a cycle or leaves a child without its parent.        *)
StyleForest ==
  \A s \in Styles :
    /\ s \notin Ancestors(style[s].parent)
    /\ Ancestors(style[s].parent) \subseteq Styles

(* verify_style_semantics: the styles, their inheritance and the style     *)
(* bindings of every layer.                                                *)
StyleSemantics ==
  /\ StylesReadable
  /\ \A s \in Styles : VerdictOnChain(s, style[s].parent) = "ok"
  /\ \A l \in Layers : LayerStylesReadable(l)

(* Whatever sequence of mutations was committed, the project can still be  *)
(* read: the readers and the audits of layers and styles check ordinals,   *)
(* bounds, requirements and references again, and refuse everything when   *)
(* one row is off; and no binding breaks a foreign key.                    *)
ReadersAccept ==
  /\ LayersReadable
  /\ StyleSemantics
  /\ \A l \in Layers :
       /\ Bound(layer[l].sources) \subseteq source
       /\ BindingsRequired(Bound(layer[l].resources))

(* A frozen project has the bytes of everything its layers and styles use, *)
(* whichever of them was bound after the freeze.                           *)
FrozenReproducible ==
  doc.frozen =>
    /\ \A l \in Layers : Bound(layer[l].resources) \subseteq doc.embedded
    /\ \A s \in Styles : Bound(style[s].resources) \subseteq doc.embedded

(* Repeating the request that was just committed is an exact retry that    *)
(* changes nothing: a caller that lost the answer may ask again.  Only     *)
(* update_metadata always writes, and a removed layer is not found.        *)
ExactRetry ==
  last # NoCall /\ last.op \notin {"update_metadata", "remove_layer"} =>
    ContentVerdict(last) = "retry"

(* Any change of the project's content is exactly one revision.            *)
RevisionPerContentMutation ==
  [][doc'.revision = doc.revision + 1]_<<doc, layer, source, style>>

=============================================================================

--------------------------- MODULE ProjectDocument ---------------------------
(***************************************************************************)
(* The durable content of one AERIS project, as src/src/storage keeps it   *)
(* in a .aeris database, and the mutations of it: the aeris_meta row       *)
(* (revision, frozen, worldview_id, projection_id), the aeris_projection   *)
(* singleton and the aeris_resource rows.                                  *)
(*                                                                         *)
(* Every mutation of the code runs its body, reads first and writes after, *)
(* inside one BEGIN IMMEDIATE transaction.  A body is therefore a verdict  *)
(* on the document it read and the document it writes; here both happen in *)
(* one step.  ProjectStore takes them apart (handles, locks, statements)   *)
(* and is shown to implement this specification.                           *)
(*                                                                         *)
(* Abstracted: the UUID and format numbers never change; modified_utc is   *)
(* overwritten by every mutation and read by none; chunk rows are present  *)
(* exactly for an embedded resource, with the bytes of its identity; an    *)
(* input file of another size than declared is refused before any read.    *)
(***************************************************************************)
EXTENDS Naturals

CONSTANTS
  Resource,      (* resource IDs.                                          *)
  Identity,      (* immutable content identities: hash, type, size, URI.   *)
  Absent,        (* no row for this resource ID.                           *)
  Model,         (* projection model IDs.                                  *)
  Meridian,      (* canonical central meridians.                           *)
  Unspecified,   (* aeris.projection.unspecified.                          *)
  Zero,          (* the zero central meridian.                             *)
  Worldview,     (* worldview IDs.                                         *)
  MaxRevision    (* numeric_limits<sqlite3_int64>::max().                  *)

ASSUME DocumentAssumption ==
  /\ Absent \notin Identity
  /\ Unspecified \in Model
  /\ Zero \in Meridian
  /\ MaxRevision \in Nat

VARIABLE doc     (* the committed document.                                *)

(* The records canonicalize_and_validate accepts.  The cut model is a      *)
(* function of the model for the built-in models and is left out.          *)
Projection ==
  {p \in [model : Model, meridian : Meridian] :
     p.model = Unspecified => p.meridian = Zero}

Document ==
  [revision : 0..MaxRevision, frozen : BOOLEAN, worldview : Worldview,
   projection_id : Model,                              (* aeris_meta       *)
   projection : Projection,                            (* aeris_projection *)
   identity : [Resource -> Identity \cup {Absent}],    (* aeris_resource   *)
   required : SUBSET Resource,
   embedded : SUBSET Resource]

(* The mutations of the public interface.                                  *)
MetadataUpdate == [op : {"update_metadata"}, worldview : Worldview]
ProjectionChange == [op : {"set_project_projection"}, projection : Projection]
ExternalResource == [op : {"store_external_resource"}, resource : Resource,
                     identity : Identity, required : BOOLEAN]
EmbeddedResource == [op : {"embed_resource_file"}, resource : Resource,
                     identity : Identity, required : BOOLEAN, input : Identity]
Freeze == [op : {"freeze_project"}]
MutationType == MetadataUpdate \cup ProjectionChange \cup ExternalResource
                  \cup EmbeddedResource \cup Freeze

Stored(d) == {r \in Resource : d.identity[r] # Absent}

(* validate_frozen_claim: no required resource is external.                *)
FrozenClaimHolds(d, claim) == claim => d.required \subseteq d.embedded

-----------------------------------------------------------------------------
(* What a body decides on the document it has read: "commit" after its     *)
(* writes, "retry" (roll back, the request is already in effect), or an    *)
(* error (roll back).                                                      *)

(* equal_content_identity: the row is new or has the same identity.        *)
SameContent_Overwrite(d, q) == TRUE
SameContent(d, q) == d.identity[q.resource] \in {Absent, q.identity}

(* The row is as requested, and required if it has to be.                  *)
RowHas(d, q) ==
  /\ d.identity[q.resource] = q.identity
  /\ q.required => q.resource \in d.required

VerdictOnResource(d, q) ==
  LET external == q.resource \notin d.embedded
      embeds == q.op = "embed_resource_file"
  IN CASE ~SameContent(d, q) -> "record_exists"
       [] SameContent(d, q) /\ embeds /\ external ->
            IF q.input = q.identity THEN "commit" ELSE "integrity_failed"
       [] OTHER -> IF RowHas(d, q) THEN "retry" ELSE "commit"

VerdictOnFreeze(d) ==
  CASE ~(d.required \subseteq d.embedded) -> "invalid_argument"
    [] OTHER -> IF d.frozen THEN "retry" ELSE "commit"

VerdictOnProjection(d, p) ==
  CASE d.projection_id # d.projection.model -> "schema_invalid"
    [] OTHER -> IF d.projection = p THEN "retry" ELSE "commit"

(* No transition fits once the revision is the last SQLite integer.        *)
Verdict(d, q) ==
  LET verdict ==
        CASE q.op = "update_metadata" ->
               IF FrozenClaimHolds(d, d.frozen) THEN "commit" ELSE "schema_invalid"
          [] q.op = "set_project_projection" -> VerdictOnProjection(d, q.projection)
          [] q.op = "freeze_project" -> VerdictOnFreeze(d)
          [] OTHER -> VerdictOnResource(d, q)
  IN IF verdict = "commit" /\ d.revision = MaxRevision
     THEN "schema_invalid" ELSE verdict

-----------------------------------------------------------------------------
(* What a body writes.                                                     *)

NextRevision_OnlyWhenThawed(d) == IF d.frozen THEN d.revision ELSE d.revision + 1
NextRevision(d) == d.revision + 1

(* advance_project_revision: one revision, the frozen flag asked for.      *)
Advance(d, nextFrozen) ==
  [d EXCEPT !.revision = NextRevision(d), !.frozen = nextFrozen]

(* frozen_override of a mutation that requires r: false if r is external.  *)
FrozenAfterRequiring_NewRowsOnly(d, q) ==
  d.frozen /\ ~(q.required /\ d.identity[q.resource] = Absent)
FrozenAfterRequiring_Always(d, q) == d.frozen /\ ~q.required
FrozenAfterRequiring(d, q) ==
  d.frozen /\ ~(q.required /\ q.resource \notin d.embedded)

(* promote_required: monotonic.                                            *)
Promote(d, q) ==
  IF q.required THEN d.required \cup {q.resource} ELSE d.required

UpdateMetadata(d, q) == [Advance(d, d.frozen) EXCEPT !.worldview = q.worldview]

(* The singleton and its summary in aeris_meta.                            *)
SetProjectProjection_NoSummary(d, q) ==
  [Advance(d, d.frozen) EXCEPT !.projection = q.projection]
SetProjectProjection(d, q) ==
  [Advance(d, d.frozen) EXCEPT !.projection = q.projection,
                               !.projection_id = q.projection.model]

(* A new external row, or promotion of a row of either mode.               *)
StoreExternalResource(d, q) ==
  [Advance(d, FrozenAfterRequiring(d, q)) EXCEPT
     !.identity[q.resource] = q.identity,
     !.required = Promote(d, q)]

(* The chunks of a new or an external row, or promotion of an embedded one.*)
EmbedResourceFile(d, q) ==
  [Advance(d, d.frozen) EXCEPT
     !.identity[q.resource] = q.identity,
     !.required = Promote(d, q),
     !.embedded = d.embedded \cup {q.resource}]

FreezeProject(d) == Advance(d, TRUE)

Written(d, q) ==
  CASE q.op = "update_metadata" -> UpdateMetadata(d, q)
    [] q.op = "set_project_projection" -> SetProjectProjection(d, q)
    [] q.op = "store_external_resource" -> StoreExternalResource(d, q)
    [] q.op = "embed_resource_file" -> EmbedResourceFile(d, q)
    [] q.op = "freeze_project" -> FreezeProject(d)

-----------------------------------------------------------------------------
(* ProjectStore::create leaves an unspecified, thawed, empty project.      *)
NewDocument(w) ==
  [revision |-> 0, frozen |-> FALSE, worldview |-> w,
   projection_id |-> Unspecified,
   projection |-> [model |-> Unspecified, meridian |-> Zero],
   identity |-> [r \in Resource |-> Absent], required |-> {}, embedded |-> {}]

DocumentInit == \E w \in Worldview : doc = NewDocument(w)

Mutate(q) ==
  /\ Verdict(doc, q) = "commit"
  /\ doc' = Written(doc, q)

DocumentNext ==
  \/ \E q \in MetadataUpdate : Mutate(q)
  \/ \E q \in ProjectionChange : Mutate(q)
  \/ \E q \in ExternalResource : Mutate(q)
  \/ \E q \in EmbeddedResource : Mutate(q)
  \/ \E q \in Freeze : Mutate(q)

DocumentSpec == DocumentInit /\ [][DocumentNext]_doc

-----------------------------------------------------------------------------
(* Every column keeps its type and range, and only stored rows have flags. *)
DocumentTypeOK ==
  /\ doc \in Document
  /\ doc.required \cup doc.embedded \subseteq Stored(doc)

(* A project that claims to be frozen holds the bytes of every resource    *)
(* required to reproduce it: what freeze_project verifies, no later store, *)
(* promotion or embedding may undo.                                        *)
FrozenClaim == FrozenClaimHolds(doc, doc.frozen)

(* aeris_meta.projection_id always names the model of the structured       *)
(* projection; open, refresh_metadata and update_metadata reject the       *)
(* project otherwise.                                                      *)
ProjectionSynchronized == doc.projection_id = doc.projection.model

(* Any change of the document is exactly one revision, and the revision    *)
(* never moves without one: two states with one revision are one document, *)
(* which is what lets a handle compare its cached revision.                *)
RevisionPerMutation == [][doc'.revision = doc.revision + 1]_doc

(* A frozen project is thawed only by a step that makes an external        *)
(* resource required; embedding, worldview and projection changes do not.  *)
ThawOnlyByExternalRequirement ==
  [][doc.frozen /\ ~doc'.frozen =>
       \E r \in doc'.required : r \notin doc.required \cup doc'.embedded]_doc

(* A resource row is forever: its identity is immutable, a required        *)
(* resource stays required and an embedded one stays embedded.             *)
ResourceRowsMonotone ==
  [][/\ \A r \in Stored(doc) : doc'.identity[r] = doc.identity[r]
     /\ doc.required \subseteq doc'.required
     /\ doc.embedded \subseteq doc'.embedded]_doc

=============================================================================

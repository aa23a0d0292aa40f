------------------------ MODULE ProjectDocument_proofs ------------------------
(***************************************************************************)
(* The invariants and step properties of the project document, for every   *)
(* set of resources, identities, models, worldviews and every MaxRevision. *)
(* DocumentInv is inductive: the frozen claim needs to know that rows only *)
(* become embedded, the projection summary only itself.                    *)
(***************************************************************************)
EXTENDS ProjectDocument, TLAPS

DocumentInv == DocumentTypeOK /\ FrozenClaim /\ ProjectionSynchronized

(* The same three facts of a document d, to state what a body preserves.   *)
WellFormed(d) ==
  /\ d \in Document
  /\ d.required \cup d.embedded \subseteq Stored(d)
  /\ FrozenClaimHolds(d, d.frozen)
  /\ d.projection_id = d.projection.model

(* A body that commits has one revision left.                              *)
LEMMA CommitHasRoom ==
  ASSUME NEW d \in Document, NEW q, Verdict(d, q) = "commit"
  PROVE  d.revision # MaxRevision /\ d.revision + 1 \in 0..MaxRevision
BY DocumentAssumption DEF Verdict, Document

(* The document update_metadata writes is well formed.                     *)
LEMMA UpdateMetadataWellFormed ==
  ASSUME NEW d, WellFormed(d), NEW q \in MetadataUpdate, Verdict(d, q) = "commit"
  PROVE  WellFormed(Written(d, q))
<1> DEFINE e == Written(d, q)
<1>1. d.revision + 1 \in 0..MaxRevision
  BY CommitHasRoom DEF WellFormed
<1>2. e = [d EXCEPT !.revision = d.revision + 1, !.frozen = d.frozen,
                    !.worldview = q.worldview]
  BY DEF Written, MetadataUpdate, UpdateMetadata, Advance, NextRevision,
         WellFormed, Document
<1>3. e \in Document
  BY <1>1, <1>2 DEF WellFormed, Document, MetadataUpdate
<1> QED
  BY <1>2, <1>3 DEF WellFormed, Stored, FrozenClaimHolds, Document

(* set_project_projection writes the singleton and its summary together.   *)
LEMMA SetProjectProjectionWellFormed ==
  ASSUME NEW d, WellFormed(d), NEW q \in ProjectionChange, Verdict(d, q) = "commit"
  PROVE  WellFormed(Written(d, q))
<1> DEFINE e == Written(d, q)
<1>1. d.revision + 1 \in 0..MaxRevision
  BY CommitHasRoom DEF WellFormed
<1>2. e = [d EXCEPT !.revision = d.revision + 1, !.frozen = d.frozen,
                    !.projection = q.projection,
                    !.projection_id = q.projection.model]
  BY DEF Written, ProjectionChange, SetProjectProjection, Advance, NextRevision,
         WellFormed, Document
<1>3. q.projection \in Projection /\ q.projection.model \in Model
  BY DEF ProjectionChange, Projection
<1>4. e \in Document
  BY <1>1, <1>2, <1>3 DEF WellFormed, Document
<1> QED
  BY <1>2, <1>4 DEF WellFormed, Stored, FrozenClaimHolds, Document

(* A row made required while external takes the frozen claim back.         *)
LEMMA StoreExternalResourceWellFormed ==
  ASSUME NEW d, WellFormed(d), NEW q \in ExternalResource, Verdict(d, q) = "commit"
  PROVE  WellFormed(Written(d, q))
<1> DEFINE e == Written(d, q)
<1>1. d.revision + 1 \in 0..MaxRevision
  BY CommitHasRoom DEF WellFormed
<1>2. e = [d EXCEPT !.revision = d.revision + 1,
                    !.frozen = FrozenAfterRequiring(d, q),
                    !.identity[q.resource] = q.identity,
                    !.required = Promote(d, q)]
  BY DEF Written, ExternalResource, StoreExternalResource, Advance, NextRevision,
         WellFormed, Document
<1>3. /\ q.resource \in Resource
      /\ q.identity \in Identity
      /\ q.required \in BOOLEAN
  BY DEF ExternalResource
<1>4. Promote(d, q) = (IF q.required THEN d.required \cup {q.resource} ELSE d.required)
  BY DEF Promote
<1>5. Promote(d, q) \in SUBSET Resource
  BY <1>3, <1>4 DEF WellFormed, Document
<1>6. e \in Document
  <2>1. FrozenAfterRequiring(d, q) \in BOOLEAN
    BY DEF FrozenAfterRequiring
  <2>2. [d.identity EXCEPT ![q.resource] = q.identity]
          \in [Resource -> Identity \cup {Absent}]
    BY <1>3 DEF WellFormed, Document
  <2> QED
    BY <1>1, <1>2, <1>5, <2>1, <2>2 DEF WellFormed, Document
<1>7. e.required \cup e.embedded \subseteq Stored(e)
  BY <1>2, <1>3, <1>4, DocumentAssumption DEF WellFormed, Stored, Document
<1>8. FrozenClaimHolds(e, e.frozen)
  <2>1. /\ e.frozen = FrozenAfterRequiring(d, q)
        /\ e.required = Promote(d, q)
        /\ e.embedded = d.embedded
    BY <1>2 DEF WellFormed, Document
  <2>2. CASE q.required /\ q.resource \notin d.embedded
    <3>1. ~FrozenAfterRequiring(d, q)
      BY <2>2 DEF FrozenAfterRequiring
    <3> QED
      BY <2>1, <3>1, Zenon DEF FrozenClaimHolds
  <2>3. CASE ~(q.required /\ q.resource \notin d.embedded)
    <3>1. d.frozen => Promote(d, q) \subseteq d.embedded
      BY <1>4, <2>3 DEF WellFormed, FrozenClaimHolds
    <3>2. FrozenAfterRequiring(d, q) => d.frozen
      BY DEF FrozenAfterRequiring
    <3> QED
      BY <2>1, <3>1, <3>2, Zenon DEF FrozenClaimHolds
  <2> QED
    BY <2>2, <2>3
<1>9. e.projection_id = e.projection.model
  BY <1>2 DEF WellFormed, Document
<1> QED
  BY <1>6, <1>7, <1>8, <1>9 DEF WellFormed

(* Embedding keeps the frozen claim: the row it may require is embedded.   *)
LEMMA EmbedResourceFileWellFormed ==
  ASSUME NEW d, WellFormed(d), NEW q \in EmbeddedResource, Verdict(d, q) = "commit"
  PROVE  WellFormed(Written(d, q))
<1> DEFINE e == Written(d, q)
<1>1. d.revision + 1 \in 0..MaxRevision
  BY CommitHasRoom DEF WellFormed
<1>2. e = [d EXCEPT !.revision = d.revision + 1, !.frozen = d.frozen,
                    !.identity[q.resource] = q.identity,
                    !.required = Promote(d, q),
                    !.embedded = d.embedded \cup {q.resource}]
  BY DEF Written, EmbeddedResource, EmbedResourceFile, Advance, NextRevision,
         WellFormed, Document
<1>3. /\ q.resource \in Resource
      /\ q.identity \in Identity
  BY DEF EmbeddedResource
<1>4. Promote(d, q) = (IF q.required THEN d.required \cup {q.resource} ELSE d.required)
  BY DEF Promote
<1>5. Promote(d, q) \in SUBSET Resource
  BY <1>3, <1>4 DEF WellFormed, Document
<1>6. e \in Document
  <2>1. [d.identity EXCEPT ![q.resource] = q.identity]
          \in [Resource -> Identity \cup {Absent}]
    BY <1>3 DEF WellFormed, Document
  <2>2. d.embedded \cup {q.resource} \in SUBSET Resource
    BY <1>3 DEF WellFormed, Document
  <2>3. d.frozen \in BOOLEAN /\ d.worldview \in Worldview
        /\ d.projection_id \in Model /\ d.projection \in Projection
    BY DEF WellFormed, Document
  <2> HIDE DEF e
  <2> QED
    BY <1>1, <1>2, <1>5, <2>1, <2>2, <2>3 DEF WellFormed, Document
<1>7. e.required \cup e.embedded \subseteq Stored(e)
  BY <1>2, <1>3, <1>4, DocumentAssumption DEF WellFormed, Stored, Document
<1>8. FrozenClaimHolds(e, e.frozen)
  BY <1>2, <1>4 DEF WellFormed, FrozenClaimHolds, Document
<1>9. e.projection_id = e.projection.model
  BY <1>2 DEF WellFormed, Document
<1> QED
  BY <1>6, <1>7, <1>8, <1>9 DEF WellFormed

(* freeze_project makes the claim only after it has checked it.            *)
LEMMA FreezeProjectWellFormed ==
  ASSUME NEW d, WellFormed(d), NEW q \in Freeze, Verdict(d, q) = "commit"
  PROVE  WellFormed(Written(d, q))
<1> DEFINE e == Written(d, q)
<1>1. d.revision + 1 \in 0..MaxRevision
  BY CommitHasRoom DEF WellFormed
<1>2. e = [d EXCEPT !.revision = d.revision + 1, !.frozen = TRUE]
  BY DEF Written, Freeze, FreezeProject, Advance, NextRevision
<1>3. d.required \subseteq d.embedded
  BY DEF Verdict, VerdictOnFreeze, Freeze
<1> QED
  BY <1>1, <1>2, <1>3 DEF WellFormed, Stored, FrozenClaimHolds, Document

(* Every mutation that commits turns a well-formed document into one.      *)
THEOREM BodiesWellFormed ==
  ASSUME NEW d, WellFormed(d), NEW q \in MutationType, Verdict(d, q) = "commit"
  PROVE  WellFormed(Written(d, q))
BY UpdateMetadataWellFormed, SetProjectProjectionWellFormed,
   StoreExternalResourceWellFormed, EmbedResourceFileWellFormed,
   FreezeProjectWellFormed DEF MutationType

(* A step of the document is a mutation.                                   *)
LEMMA StepIsMutation ==
  ASSUME DocumentNext
  PROVE  \E q \in MutationType : Mutate(q)
BY DEF DocumentNext, MutationType

(* A new project is well formed.                                           *)
LEMMA NewDocumentWellFormed ==
  ASSUME NEW w \in Worldview
  PROVE  WellFormed(NewDocument(w))
<1> DEFINE d == NewDocument(w)
<1>1. d.projection \in Projection
  BY DocumentAssumption DEF NewDocument, Projection
<1>2. d \in Document
  BY <1>1, DocumentAssumption DEF NewDocument, Document
<1> QED
  BY <1>2 DEF NewDocument, WellFormed, FrozenClaimHolds

(* Types, the frozen claim and the projection summary hold of every        *)
(* document any sequence of mutations produces.                            *)
THEOREM DocumentSafety == DocumentSpec => []DocumentInv
<1>1. DocumentInit => DocumentInv
  BY NewDocumentWellFormed
  DEF DocumentInit, DocumentInv, DocumentTypeOK, FrozenClaim,
      ProjectionSynchronized, WellFormed
<1>2. DocumentInv /\ [DocumentNext]_doc => DocumentInv'
  <2> SUFFICES ASSUME DocumentInv, [DocumentNext]_doc PROVE DocumentInv'
    OBVIOUS
  <2> USE DEF DocumentInv, DocumentTypeOK, FrozenClaim, ProjectionSynchronized
  <2>1. WellFormed(doc)
    BY DEF WellFormed
  <2>2. CASE DocumentNext
    <3>1. PICK q \in MutationType : Mutate(q)
      BY <2>2, StepIsMutation
    <3>2. WellFormed(doc')
      BY <2>1, <3>1, BodiesWellFormed DEF Mutate
    <3> QED
      BY <3>2 DEF WellFormed, Stored, FrozenClaimHolds
  <2>3. CASE UNCHANGED doc
    BY <2>3 DEF Stored, FrozenClaimHolds
  <2> QED
    BY <2>2, <2>3
<1> QED
  BY <1>1, <1>2, PTL DEF DocumentSpec

-----------------------------------------------------------------------------
(* What a committing body may do to the rows and to the revision.          *)
LEMMA BodiesMonotone ==
  ASSUME NEW d, WellFormed(d), NEW q \in MutationType, Verdict(d, q) = "commit"
  PROVE  /\ Written(d, q).revision = d.revision + 1
         /\ \A r \in Stored(d) : Written(d, q).identity[r] = d.identity[r]
         /\ d.required \subseteq Written(d, q).required
         /\ d.embedded \subseteq Written(d, q).embedded
<1> DEFINE e == Written(d, q)
<1>1. CASE q \in MetadataUpdate \cup ProjectionChange \cup Freeze
  <2>1. /\ e.revision = d.revision + 1
        /\ e.identity = d.identity
        /\ e.required = d.required
        /\ e.embedded = d.embedded
    BY <1>1 DEF MetadataUpdate, ProjectionChange, Freeze, Written, UpdateMetadata,
      SetProjectProjection, FreezeProject, Advance, NextRevision, WellFormed, Document
  <2> QED
    BY <2>1
<1>2. CASE q \in ExternalResource \cup EmbeddedResource
  <2>1. /\ e.revision = d.revision + 1
        /\ e.identity = [d.identity EXCEPT ![q.resource] = q.identity]
        /\ e.required = Promote(d, q)
        /\ d.embedded \subseteq e.embedded
    BY <1>2 DEF ExternalResource, EmbeddedResource, Written, StoreExternalResource,
      EmbedResourceFile, Advance, NextRevision, WellFormed, Document
  <2>2. SameContent(d, q)
    BY <1>2 DEF Verdict, VerdictOnResource, ExternalResource, EmbeddedResource
  <2>3. \A r \in Stored(d) : e.identity[r] = d.identity[r]
    BY <2>1, <2>2 DEF SameContent, Stored, WellFormed, Document
  <2>4. d.required \subseteq Promote(d, q)
    BY DEF Promote
  <2> QED
    BY <2>1, <2>3, <2>4
<1> QED
  BY <1>1, <1>2 DEF MutationType

(* Every change of the document is one revision.                           *)
THEOREM OneRevisionPerMutation == DocumentSpec => RevisionPerMutation
<1>1. DocumentInv /\ [DocumentNext]_doc => [doc'.revision = doc.revision + 1]_doc
  <2> SUFFICES ASSUME DocumentInv, DocumentNext
               PROVE  doc'.revision = doc.revision + 1
    OBVIOUS
  <2>1. PICK q \in MutationType : Mutate(q)
    BY StepIsMutation
  <2> QED
    BY <2>1, BodiesMonotone DEF Mutate, DocumentInv, DocumentTypeOK, FrozenClaim,
      ProjectionSynchronized, WellFormed
<1> QED
  BY <1>1, DocumentSafety, PTL DEF DocumentSpec, RevisionPerMutation

(* Resource rows are never overwritten, demoted or emptied.                *)
THEOREM RowsAreMonotone == DocumentSpec => ResourceRowsMonotone
<1> DEFINE Kept == /\ \A r \in Stored(doc) : doc'.identity[r] = doc.identity[r]
                   /\ doc.required \subseteq doc'.required
                   /\ doc.embedded \subseteq doc'.embedded
<1>1. DocumentInv /\ [DocumentNext]_doc => [Kept]_doc
  <2> SUFFICES ASSUME DocumentInv, DocumentNext
               PROVE  Kept
    OBVIOUS
  <2>1. PICK q \in MutationType : Mutate(q)
    BY StepIsMutation
  <2> QED
    BY <2>1, BodiesMonotone DEF Mutate, DocumentInv, DocumentTypeOK, FrozenClaim,
      ProjectionSynchronized, WellFormed
<1> QED
  BY <1>1, DocumentSafety, PTL DEF DocumentSpec, ResourceRowsMonotone

(* Only a mutation that newly requires an external row thaws a project.    *)
ThawFits(d, e) ==
  d.frozen /\ ~e.frozen => \E r \in e.required : r \notin d.required \cup e.embedded

LEMMA BodiesThaw ==
  ASSUME NEW d, WellFormed(d), NEW q \in MutationType, Verdict(d, q) = "commit"
  PROVE  ThawFits(d, Written(d, q))
<1> DEFINE e == Written(d, q)
<1> SUFFICES ASSUME d.frozen, ~e.frozen
             PROVE  \E r \in e.required : r \notin d.required \cup e.embedded
  BY DEF ThawFits
<1>1. q \in ExternalResource
  BY DEF MutationType, MetadataUpdate, ProjectionChange, Freeze,
    EmbeddedResource, Written, UpdateMetadata, SetProjectProjection,
    EmbedResourceFile, FreezeProject, Advance, NextRevision, WellFormed, Document
<1>2. /\ e.frozen = FrozenAfterRequiring(d, q)
      /\ e.required = Promote(d, q)
      /\ e.embedded = d.embedded
  BY <1>1 DEF ExternalResource, Written, StoreExternalResource,
    Advance, NextRevision, WellFormed, Document
<1>3. q.required /\ q.resource \notin d.embedded
  <2>1. ~FrozenAfterRequiring(d, q)
    BY <1>2, Zenon
  <2> QED
    BY <2>1 DEF FrozenAfterRequiring
<1>4. q.resource \in e.required
  BY <1>2, <1>3 DEF Promote
<1>5. q.resource \notin d.required
  BY <1>3 DEF WellFormed, FrozenClaimHolds
<1> QED
  BY <1>2, <1>3, <1>4, <1>5

(* The thaw of a project, as a property of its steps.                      *)
THEOREM ThawsByExternalRequirement == DocumentSpec => ThawOnlyByExternalRequirement
<1> DEFINE Thaw == doc.frozen /\ ~doc'.frozen =>
             \E r \in doc'.required : r \notin doc.required \cup doc'.embedded
<1>1. DocumentInv /\ [DocumentNext]_doc => [Thaw]_doc
  <2> SUFFICES ASSUME DocumentInv, DocumentNext
               PROVE  Thaw
    OBVIOUS
  <2>1. PICK q \in MutationType : Mutate(q)
    BY StepIsMutation
  <2> QED
    BY <2>1, BodiesThaw DEF ThawFits, Mutate, DocumentInv, DocumentTypeOK, FrozenClaim,
      ProjectionSynchronized, WellFormed
<1> QED
  BY <1>1, DocumentSafety, PTL DEF DocumentSpec, ThawOnlyByExternalRequirement

=============================================================================

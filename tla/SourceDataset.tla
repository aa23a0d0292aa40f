---------------------------- MODULE SourceDataset ----------------------------
(***************************************************************************)
(* The immutable sources of a project: provenance, canonical geometry and  *)
(* complete feature properties (src/src/storage/provenance.cpp,            *)
(* geometry.cpp, feature_property.cpp, dataset.cpp) and their reader       *)
(* (src/src/project/source_reader.cpp), called by several handles at once. *)
(*                                                                         *)
(* A transaction decides and writes in one step: ProjectStore shows that   *)
(* it reads fresh rows and commits or leaves nothing.  Every read made     *)
(* before a transaction, after it, or on a connection of its own is a step *)
(* of its own, between which other handles commit.                         *)
(*                                                                         *)
(* Abstracted: what a provenance says, the rings of a feature (a Shape)    *)
(* and the properties of a feature (a Value); text and numeric bounds.     *)
(***************************************************************************)
EXTENDS Naturals, FiniteSets

CONSTANTS
  Handle,       (* open ProjectStores on one project file.                 *)
  Source,       (* source IDs.                                             *)
  Provenance,   (* records of provenance.                                  *)
  Feature,      (* stable IDs of features.                                 *)
  Shape,        (* the source identity and rings of a feature.             *)
  Value,        (* the properties of a feature.                            *)
  NoValue,      (* a feature with no property at all, a Value.             *)
  Missing,      (* a part that is not stored, or not offered.              *)
  Call,         (* the requests made.                                      *)
  NoCall,       (* no request yet.                                         *)
  MaxRevision   (* bound of the model checker, not of the code.            *)

VARIABLES
  stored,       (* aeris_source, aeris_source_geometry and its features,   *)
                (* aeris_source_feature_properties and its rows.           *)
  revision,     (* aeris_meta.revision.                                    *)
  known,        (* metadata().revision of each handle.                     *)
  client        (* the call of each handle: where it stands and its locals *)

vars == <<stored, revision, known, client>>

Part == {"provenance", "geometry", "properties"}
OfFeatures(S) == UNION {[F -> S] : F \in SUBSET Feature}
Geometries == OfFeatures(Shape)
PropertySets == OfFeatures(Value)

Row == [provenance : Provenance \cup {Missing},
        geometry   : Geometries \cup {Missing},
        properties : PropertySets \cup {Missing}]
Nothing == [p \in Part |-> Missing]

WriteOp == {"store_source_snapshot", "store_source_geometry",
            "store_source_feature_properties", "store_source_dataset"}
ReadOp == {"load_durable_source_result", "verify_integrity"}
CallType == [op : WriteOp \cup ReadOp, source : Source, row : Row]

(* What each operation may offer: its own part, or a whole source.         *)
Offered(q) ==
  LET parts == {p \in Part : q.row[p] # Missing}
  IN CASE q.op = "store_source_snapshot" -> parts = {"provenance"}
       [] q.op = "store_source_geometry" -> parts = {"geometry"}
       [] q.op = "store_source_feature_properties" -> parts = {"properties"}
       [] q.op = "store_source_dataset" -> {"provenance", "geometry"} \subseteq parts
       [] OTHER -> parts = {}

ASSUME SourceAssumption ==
  /\ NoValue \in Value
  /\ \A q \in Call : Offered(q)
  /\ Missing \notin Provenance \cup Geometries \cup PropertySets \cup Shape \cup Value
  /\ NoCall \notin CallType
  /\ Call \subseteq CallType
  /\ MaxRevision \in Nat

Outcome(status, inserted) == [status |-> status, inserted |-> inserted]
Pending == Outcome("none", FALSE)

(* left: features still to be read.  shapes, values: what was read.        *)
(* raced: the second look of store_source_feature_properties.              *)
Idle == [pc |-> "idle", call |-> NoCall, outcome |-> Pending, raced |-> FALSE,
         left |-> {}, shapes |-> <<>>, values |-> Missing]

-----------------------------------------------------------------------------
(* The lookups by which stores and readers tell what a source has.  The    *)
(* marker of its properties counts the features they were stored for.      *)
SourceExists(row) == row.provenance # Missing
HasGeometry(row) == row.geometry # Missing
HasProperties(row) == row.properties # Missing
MarkerCount(row) == Cardinality(DOMAIN row.properties)

(* What transactions decide, on the stored row and the offered one.        *)
Differs(row, offer, p) ==
  Missing \notin {row[p], offer[p]} /\ row[p] # offer[p]
Conflicting_ButProperties(row, offer) ==
  {p \in Part \ {"properties"} : Differs(row, offer, p)}
Conflicting(row, offer) == {p \in Part : Differs(row, offer, p)}
Lacking(row, offer) == {p \in Part : row[p] = Missing /\ offer[p] # Missing}
Inserted(row, offer, p) == IF p \in Lacking(row, offer) THEN offer[p] ELSE row[p]
Merged(row, offer) == [p \in Part |-> Inserted(row, offer, p)]

Decide(row, offer) ==
  IF Conflicting(row, offer) # {} THEN "record_exists"
  ELSE IF Lacking(row, offer) = {} THEN "retry" ELSE "commit"

Verdict(op, row, offer) ==
  CASE op = "store_source_geometry" /\ ~ SourceExists(row) -> "record_not_found"
    [] op = "store_source_dataset" /\ \/ ~ SourceExists(row) /\ HasGeometry(row)
                                      \/ ~ HasGeometry(row) /\ HasProperties(row) ->
       "schema_invalid"
    [] OTHER -> Decide(row, offer)

(* validate_property_geometry_match: refused before any connection.        *)
Valid_KnownFeatures(q) ==
  q.op = "store_source_dataset" /\ q.row.properties # Missing =>
    DOMAIN q.row.properties \subseteq DOMAIN q.row.geometry
Valid(q) ==
  q.op = "store_source_dataset" /\ q.row.properties # Missing =>
    DOMAIN q.row.properties = DOMAIN q.row.geometry

FirstStep ==
  [op \in WriteOp \cup ReadOp |->
     CASE op = "store_source_feature_properties" -> "match"
       [] op = "load_durable_source_result" -> "catalog"
       [] op = "verify_integrity" -> "audit"
       [] OTHER -> "transaction"]

(* The low-level stores look again at the project before they refuse; the  *)
(* dataset and property stores refuse at once.                             *)
RefreshesOn(op, verdict) ==
  \/ verdict = "retry"
  \/ verdict = "record_exists" /\ op \in {"store_source_snapshot", "store_source_geometry"}

-----------------------------------------------------------------------------
At(h, pc) == client[h].pc = pc
Stored(h) == stored[client[h].call.source]
Offer(h) == client[h].call.row
Go(h, pc) == client' = [client EXCEPT ![h].pc = pc]

Finished(h, status) ==
  [Idle EXCEPT !.pc = "done", !.call = client[h].call,
               !.outcome = Outcome(status, client[h].outcome.inserted),
               !.shapes = client[h].shapes, !.values = client[h].values]
Return(h, status) == client' = [client EXCEPT ![h] = Finished(h, status)]
ReturnAfterRefresh(h, status) ==
  client' = [client EXCEPT ![h].pc = "refresh", ![h].outcome = Outcome(status, FALSE)]

Called(q) ==
  IF Valid(q) THEN [Idle EXCEPT !.pc = FirstStep[q.op], !.call = q]
  ELSE [Idle EXCEPT !.pc = "done", !.call = q,
                    !.outcome = Outcome("invalid_argument", FALSE)]

Begin(h) ==
  /\ client[h].pc \in {"idle", "done"}
  /\ \E q \in Call : client' = [client EXCEPT ![h] = Called(q)]
  /\ UNCHANGED <<stored, revision, known>>

AdvanceRevision == revision < MaxRevision /\ revision' = revision + 1
Commit(h) ==
  /\ stored' = [stored EXCEPT ![client[h].call.source] = Merged(@, Offer(h))]
  /\ AdvanceRevision
  /\ client' = [client EXCEPT ![h].pc = "refresh", ![h].outcome = Outcome("ok", TRUE)]

Transaction(h) ==
  /\ At(h, "transaction")
  /\ LET op == client[h].call.op
         verdict == Verdict(op, Stored(h), Offer(h))
         status == IF verdict = "retry" THEN "ok" ELSE verdict
     IN IF verdict = "commit" THEN Commit(h)
        ELSE /\ IF RefreshesOn(op, verdict) THEN ReturnAfterRefresh(h, status)
                ELSE Return(h, status)
             /\ UNCHANGED <<stored, revision>>
  /\ UNCHANGED known

(* project.refresh_metadata().                                             *)
Refresh(h) ==
  /\ At(h, "refresh")
  /\ known' = [known EXCEPT ![h] = revision]
  /\ Return(h, client[h].outcome.status)
  /\ UNCHANGED <<stored, revision>>

(* Any statement, or the refresh after the commit, may fail: the caller    *)
(* gets the error together with whether its data was committed.            *)
Fails(h) ==
  /\ client[h].pc \notin {"idle", "done"}
  /\ Return(h, "sqlite_failure")
  /\ UNCHANGED <<stored, revision, known>>

(* The process dies and the project is opened again.                       *)
Crash(h) ==
  /\ client' = [client EXCEPT ![h] = Idle]
  /\ known' = [known EXCEPT ![h] = revision]
  /\ UNCHANGED <<stored, revision>>

-----------------------------------------------------------------------------
(* store_source_feature_properties: the geometry and the existing set are  *)
(* looked at before BEGIN IMMEDIATE, each on connections of its own.       *)
Match(h) ==
  /\ At(h, "match")
  /\ LET geometry == Stored(h).geometry
     IN IF ~ HasGeometry(Stored(h)) THEN Return(h, "record_not_found")
        ELSE IF DOMAIN geometry # DOMAIN Offer(h).properties
        THEN Return(h, "invalid_argument")
        ELSE Go(h, "existing")
  /\ UNCHANGED <<stored, revision, known>>

(* list_source_feature_properties_index: the features of the geometry are  *)
(* as many as the marker counts.                                           *)
Features(part) == IF part = Missing THEN {} ELSE DOMAIN part
IndexDisagrees(row) ==
  /\ HasProperties(row)
  /\ Cardinality(Features(row.geometry)) # MarkerCount(row)

Existing(h) ==
  /\ At(h, "existing")
  /\ IF ~ HasProperties(Stored(h))
     THEN IF client[h].raced THEN Return(h, "record_exists") ELSE Go(h, "probe")
     ELSE IF IndexDisagrees(Stored(h)) THEN Return(h, "schema_invalid")
     ELSE client' = [client EXCEPT ![h].pc = "existing_values", ![h].values = <<>>,
                                   ![h].left = Features(Stored(h).geometry)]
  /\ UNCHANGED <<stored, revision, known>>

First(S) == CHOOSE f \in S : TRUE
With(found, f, v) == [g \in DOMAIN found \cup {f} |-> IF g = f THEN v ELSE found[g]]

(* The rows of one feature.  No property rows of a feature of the geometry *)
(* are a feature without properties.                                       *)
StoredShape(row, f) ==
  IF f \in Features(row.geometry) THEN row.geometry[f] ELSE Missing
StoredValue(row, f) ==
  IF ~ HasProperties(row) \/ f \notin Features(row.geometry) THEN Missing
  ELSE IF f \in DOMAIN row.properties THEN row.properties[f] ELSE NoValue

(* load_feature_properties: one feature on a connection of its own.        *)
ReadValue(h, then) ==
  LET f == First(client[h].left)
      value == StoredValue(Stored(h), f)
  IN IF value = Missing THEN Return(h, "record_not_found")
     ELSE client' = [client EXCEPT ![h].values = With(@, f, value),
                                   ![h].left = @ \ {f}, ![h].pc = then]

ExistingValue(h) ==
  /\ At(h, "existing_values") /\ client[h].left # {}
  /\ ReadValue(h, "existing_values")
  /\ UNCHANGED <<stored, revision, known>>

(* The first look answers an exact retry without a refresh.                *)
CompareExisting(h) ==
  /\ At(h, "existing_values") /\ client[h].left = {}
  /\ IF client[h].values # Offer(h).properties THEN Return(h, "record_exists")
     ELSE IF client[h].raced THEN ReturnAfterRefresh(h, "ok") ELSE Return(h, "ok")
  /\ UNCHANGED <<stored, revision, known>>

(* BEGIN IMMEDIATE, marker_exists, and the insertion if there is none.     *)
Probe(h) ==
  /\ At(h, "probe")
  /\ IF ~ HasProperties(Stored(h)) THEN Commit(h)
     ELSE /\ client' = [client EXCEPT ![h].pc = "existing", ![h].raced = TRUE]
          /\ UNCHANGED <<stored, revision>>
  /\ UNCHANGED known

-----------------------------------------------------------------------------
(* load_durable_source_result: the catalog, both indexes, then geometry    *)
(* and properties of each feature, every read on a connection of its own.  *)
Listed == {s \in Source : SourceExists(stored[s])}
Catalog(h) ==
  /\ At(h, "catalog")
  /\ IF client[h].call.source \notin Listed THEN Return(h, "source_not_found")
     ELSE Go(h, "geometry_index")
  /\ UNCHANGED <<stored, revision, known>>

GeometryIndex(h) ==
  /\ At(h, "geometry_index")
  /\ LET geometry == Stored(h).geometry
     IN IF Features(geometry) = {} THEN Return(h, "geometry_unavailable")
        ELSE client' = [client EXCEPT ![h].pc = "property_index",
                                      ![h].left = DOMAIN geometry]
  /\ UNCHANGED <<stored, revision, known>>

(* The keys of both indexes must agree, although others may have committed *)
(* in between.                                                             *)
PropertyIndex(h) ==
  /\ At(h, "property_index")
  /\ IF ~ HasProperties(Stored(h)) THEN Go(h, "shapes")
     ELSE IF IndexDisagrees(Stored(h)) \/ Features(Stored(h).geometry) # client[h].left
     THEN Return(h, "schema_invalid")
     ELSE client' = [client EXCEPT ![h].pc = "shapes", ![h].values = <<>>]
  /\ UNCHANGED <<stored, revision, known>>

ReadShape_LooksAgain(h) ==
  /\ At(h, "shapes") /\ client[h].left # {}
  /\ LET f == First(client[h].left)
         complete == Stored(h).properties # Missing
     IN client' = [client EXCEPT
          ![h].shapes = With(@, f, Stored(h).geometry[f]),
          ![h].values = IF complete /\ @ = Missing THEN <<>> ELSE @,
          ![h].left = IF complete THEN @ ELSE @ \ {f},
          ![h].pc = IF complete THEN "values" ELSE @]
  /\ UNCHANGED <<stored, revision, known>>

ReadShape(h) ==
  /\ At(h, "shapes") /\ client[h].left # {}
  /\ LET f == First(client[h].left)
         shape == StoredShape(Stored(h), f)
         complete == client[h].values # Missing
     IN IF shape = Missing THEN Return(h, "record_not_found")
        ELSE client' = [client EXCEPT ![h].shapes = With(@, f, shape),
                                      ![h].left = IF complete THEN @ ELSE @ \ {f},
                                      ![h].pc = IF complete THEN "values" ELSE @]
  /\ UNCHANGED <<stored, revision, known>>

ReadFeatureValue(h) ==
  /\ At(h, "values")
  /\ ReadValue(h, "shapes")
  /\ UNCHANGED <<stored, revision, known>>

Loaded(h) ==
  /\ At(h, "shapes") /\ client[h].left = {}
  /\ Return(h, "ok")
  /\ UNCHANGED <<stored, revision, known>>

-----------------------------------------------------------------------------
(* The two audits verify_integrity makes of sources, each of one read      *)
(* transaction: verify_geometry_semantics, whose index and features are    *)
(* one function here and agree, and verify_feature_property_semantics.     *)
AuditGeometry(h) ==
  /\ At(h, "audit")
  /\ Go(h, "audit_properties")
  /\ UNCHANGED <<stored, revision, known>>

AuditProperties(h) ==
  /\ At(h, "audit_properties")
  /\ Return(h, IF \E s \in Source : IndexDisagrees(stored[s]) THEN "schema_invalid" ELSE "ok")
  /\ UNCHANGED <<stored, revision, known>>

-----------------------------------------------------------------------------
Init ==
  /\ stored = [s \in Source |-> Nothing]
  /\ revision = 0
  /\ known = [h \in Handle |-> 0]
  /\ client = [h \in Handle |-> Idle]

Write(h) == Transaction(h) \/ Probe(h) \/ Refresh(h) \/ Fails(h) \/ Crash(h)
Look(h) == Match(h) \/ Existing(h) \/ ExistingValue(h) \/ CompareExisting(h)
Load(h) ==
  Catalog(h) \/ GeometryIndex(h) \/ PropertyIndex(h) \/ ReadShape(h)
    \/ ReadFeatureValue(h) \/ Loaded(h)

Audit(h) == AuditGeometry(h) \/ AuditProperties(h)

Next == \E h \in Handle : Begin(h) \/ Write(h) \/ Look(h) \/ Load(h) \/ Audit(h)
Spec == Init /\ [][Next]_vars

-----------------------------------------------------------------------------
(* Rows and clients keep their types.                                      *)
SourceTypeOK ==
  /\ stored \in [Source -> Row]
  /\ revision \in 0..MaxRevision
  /\ known \in [Handle -> 0..MaxRevision]
  /\ \A h \in Handle :
       /\ client[h].call \in CallType \cup {NoCall}
       /\ client[h].left \subseteq Feature
       /\ client[h].shapes \in Geometries
       /\ client[h].values \in PropertySets \cup {Missing}
       /\ client[h].raced \in BOOLEAN
       /\ client[h].outcome.inserted \in BOOLEAN

(* No part is stored without the part it describes, no part once stored is *)
(* replaced or withdrawn, whatever handles offer later or leave out, and   *)
(* adding parts is exactly one revision, although geometry and properties  *)
(* were matched before the transaction began: the handles together are the *)
(* catalog.                                                                *)
Promise == INSTANCE Catalog WITH catalog <- stored
CatalogSpec == Promise!Spec

Returned(h, ops) ==
  client[h].pc = "done" /\ client[h].call # NoCall /\ client[h].call.op \in ops
IsStored(h) == Lacking(Stored(h), Offer(h)) = {} /\ Conflicting(Stored(h), Offer(h)) = {}

(* What a store reports is true when the caller hears it: success, or an   *)
(* error after the commit, means its data is stored; record_exists means   *)
(* other data is; and nothing sound is ever reported as corrupt.           *)
OutcomeIsTrue ==
  \A h \in Handle : Returned(h, WriteOp) =>
    LET outcome == client[h].outcome
    IN /\ outcome.status = "ok" \/ outcome.inserted => IsStored(h)
       /\ outcome.status = "record_exists" => Conflicting(Stored(h), Offer(h)) # {}
       /\ outcome.status # "schema_invalid"

(* A load that succeeds returns the stored source: every feature of the    *)
(* geometry and properties for all of them or for none, even when another  *)
(* handle completes the source between two of its reads.  Neither loads    *)
(* nor audits report corruption because of such a commit.                  *)
LoadIsConsistent ==
  \A h \in Handle : Returned(h, ReadOp) =>
    /\ client[h].outcome.status \notin {"schema_invalid", "record_not_found"}
    /\ Returned(h, {"load_durable_source_result"}) /\ client[h].outcome.status = "ok" =>
         /\ client[h].shapes = Stored(h).geometry
         /\ client[h].values \in {Missing, Stored(h).properties}

=============================================================================

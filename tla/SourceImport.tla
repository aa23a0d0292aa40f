----------------------------- MODULE SourceImport -----------------------------
(***************************************************************************)
(* The import of an acquired snapshot into a project: verification of the  *)
(* local files (src/src/source/acquisition.cpp), the registry and the      *)
(* Natural Earth adapters (registry.cpp, adapter.cpp, natural_earth.cpp,   *)
(* natural_earth_surface.cpp, natural_earth_cartography.cpp), and the      *)
(* bridge that records what they return as one dataset                     *)
(* (src/src/project/source_bridge.cpp), composed with SourceDataset.       *)
(*                                                                         *)
(* Abstracted: a file is its decoded content, and its SHA-256 is that      *)
(* content; a snapshot's aggregate hash is the function from its resources *)
(* to their contents.  Provider and license are part of the dataset.       *)
(* Assumed: files do not change between verification and decoding, as      *)
(* docs/SOURCE-PIPELINE.md requires of caches.                             *)
(***************************************************************************)
EXTENDS SourceDataset, Sequences

CONSTANTS
  Manifest,     (* acquisition manifests.                                  *)
  Root,         (* local directories: resource -> content.                 *)
  Binding,      (* SourceBindings of import requests.                      *)
  Registered,   (* IDs of the registered adapters.                         *)
  External,     (* an adapter of another provider; the others report the   *)
                (* provenance of the manifest they were given.             *)
  Claim,        (* what it may report instead, of the form of a manifest.  *)
  ImportSource, (* source IDs under which snapshots are imported.          *)
  NoPin,        (* no expected_content_sha256.                             *)
  NullShape,    (* a Shapefile record without geometry.                    *)
  Malformed,    (* undecodable content of a file or of a field.            *)
  FloatingIceShelf (* the surface class that is the property of a shelf.   *)

(* A decodable file holds records, one after the other.                    *)
IsTable(file) == file = Malformed \/ file \in Seq({file[n] : n \in DOMAIN file})

ASSUME ImportAssumption ==
  /\ ImportSource \subseteq Source
  /\ \A q \in Call : q.source \notin ImportSource \/ q.op \in ReadOp \cup {"store_source_snapshot"}
  /\ \A manifest \in Manifest : \A name \in {"shp", "dbf"} \cap DOMAIN manifest.resources :
       IsTable(manifest.resources[name])

-----------------------------------------------------------------------------
(* verify_local_snapshot: the first resource that fails decides.           *)
VerifyVerdict(root, manifest) ==
  IF manifest.resources = <<>> THEN "invalid_manifest"
  ELSE IF ~(DOMAIN manifest.resources \subseteq DOMAIN root) THEN "missing_resource"
  ELSE IF \E r \in DOMAIN manifest.resources : root[r] # manifest.resources[r]
  THEN "hash_mismatch" ELSE "ok"

(* The aggregate hash covers names and contents, not where or when they    *)
(* were retrieved.                                                         *)
ContentHash(manifest) == manifest.resources

-----------------------------------------------------------------------------
(* read_polygon_shapefile: records are numbered from one; a null shape     *)
(* takes a number and yields no record.                                    *)
ShapeRecords(shp) ==
  LET read[n \in 0..Len(shp)] ==
        IF n = 0 THEN <<>>
        ELSE IF shp[n] = NullShape THEN read[n - 1]
        ELSE Append(read[n - 1], [number |-> n, rings |-> shp[n]])
  IN read[Len(shp)]

(* The Natural Earth adapters; cartography reads the snapshots of admin0,  *)
(* and shelves are the Antarctic ice shelves.                              *)
Political == {"admin0", "cartography"}
Capability(adapter) ==
  IF adapter \in Political THEN "admin0"
  ELSE IF adapter = "shelves" THEN "surface" ELSE "land"
DatasetOf(adapter) == IF adapter \in Political THEN "admin0" ELSE adapter
Required(adapter) ==
  {"shp", "version", "prj"} \cup IF adapter \in Political THEN {"dbf", "cpg"} ELSE {}

(* read_polygon_shapefile and read_dbf_table are strict about their files. *)
Undecodable(adapter, content) ==
  \/ content["shp"] = Malformed
  \/ adapter \in Political /\ content["dbf"] = Malformed

(* What the adapters refuse before they look at records.                   *)
RequestError(adapter, binding, manifest) ==
  LET content == manifest.resources
  IN IF binding.worldview # "" /\ ~(adapter \in Political /\ binding.worldview = "de-facto")
     THEN "unsupported_worldview"
     ELSE IF adapter # External /\ manifest.dataset # DatasetOf(adapter)
     THEN "malformed_source"
     ELSE IF binding.snapshot # manifest.snapshot THEN "unavailable_snapshot"
     ELSE IF ~(Required(adapter) \subseteq DOMAIN content) \/ content["version"] = ""
     THEN "provenance_incomplete"
     ELSE IF \/ content["prj"] # "wgs84"
             \/ adapter \in Political /\ content["cpg"] # "UTF-8"
     THEN "malformed_source"
     ELSE IF Undecodable(adapter, content) THEN "normalization_failed" ELSE "none"

(* Row n of the table describes record n of the geometry: physical         *)
(* alignment must be exact, active, decodable and identify each country.   *)
Joined_Counts(records, rows) ==
  /\ Len(records) = Len(rows)
  /\ \A m, n \in DOMAIN rows : m # n =>
       rows[m].ne_id # rows[n].ne_id /\ rows[m].adm0 # rows[n].adm0
Joined(records, rows) ==
  /\ Len(records) = Len(rows)
  /\ \A n \in DOMAIN records :
       /\ ~rows[n].deleted /\ records[n].number = n
       /\ rows[n].ne_id # Malformed /\ rows[n].value # Malformed
       /\ rows[n].adm0 \notin {Malformed, ""}
  /\ \A m, n \in DOMAIN rows : m # n =>
       rows[m].ne_id # rows[n].ne_id /\ rows[m].adm0 # rows[n].adm0

(* The cartography adapter adds a map colour out of 1..7 to each country.  *)
Colored(rows) == \A n \in DOMAIN rows : rows[n].colored # Malformed

DecodeError(adapter, content) ==
  LET records == ShapeRecords(content["shp"])
  IN IF \/ adapter \in Political /\ ~Joined(records, content["dbf"])
        \/ adapter = "cartography" /\ ~Colored(content["dbf"])
        \/ adapter = "shelves" /\ records = <<>>
     THEN "malformed_source" ELSE "none"

(* Countries are identified by NE_ID, others by snapshot and record number.*)
StableId(adapter, manifest, record, n) ==
  IF adapter \in Political THEN <<"ne_id", manifest.resources["dbf"][n].ne_id>>
  ELSE <<manifest.snapshot, record.number>>

DecodedGeometry(adapter, manifest) ==
  LET records == ShapeRecords(manifest.resources["shp"])
      id(n) == StableId(adapter, manifest, records[n], n)
  IN [f \in {id(n) : n \in DOMAIN records} |->
        LET n == CHOOSE k \in DOMAIN records : id(k) = f
        IN [source_id |-> records[n].number, rings |-> records[n].rings]]

CountryProperties(adapter, row) ==
  IF adapter = "cartography" THEN row.colored ELSE row.value

DecodedProperties(adapter, manifest) ==
  IF adapter \in Political
  THEN LET rows == manifest.resources["dbf"]
       IN [f \in {<<"ne_id", rows[n].ne_id>> : n \in DOMAIN rows} |->
             CountryProperties(adapter,
               rows[CHOOSE k \in DOMAIN rows : <<"ne_id", rows[k].ne_id>> = f])]
  ELSE IF adapter = "shelves"
  THEN [f \in DOMAIN DecodedGeometry(adapter, manifest) |-> FloatingIceShelf]
  ELSE Missing

-----------------------------------------------------------------------------
(* AdapterRegistry::load, which trusts no adapter: validate_result.        *)
ValidResult(binding, report) == report.snapshot = binding.snapshot

RegistryVerdict(binding, manifest, report) ==
  LET adapter == binding.adapter
      request == RequestError(adapter, binding, manifest)
  IN IF "" \in {adapter, binding.capability, binding.snapshot} THEN "invalid_binding"
     ELSE IF adapter \notin Registered THEN "adapter_not_found"
     ELSE IF binding.capability # Capability(adapter) THEN "unsupported_capability"
     ELSE IF binding.expected \notin {NoPin, ContentHash(manifest)}
     THEN "snapshot_content_mismatch"
     ELSE IF request # "none" \/ DecodeError(adapter, manifest.resources) # "none"
     THEN "adapter_failed"
     ELSE IF ~ValidResult(binding, report) \/ ContentHash(report) # ContentHash(manifest)
     THEN "result_validation_failed" ELSE "ok"

(* provenance_matches_verified_manifest.                                   *)
DescribesManifest_Content(report, manifest, binding) ==
  binding.snapshot = manifest.snapshot /\ ContentHash(report) = ContentHash(manifest)
DescribesManifest(report, manifest, binding) ==
  /\ binding.snapshot = manifest.snapshot
  /\ report.dataset = manifest.dataset
  /\ report.snapshot = manifest.snapshot
  /\ report.origin = manifest.origin
  /\ ContentHash(report) = ContentHash(manifest)

Reports(adapter, manifest) == IF adapter = External THEN Claim ELSE {manifest}

BridgeVerdict(binding, manifest, report) ==
  LET registry == RegistryVerdict(binding, manifest, report)
  IN IF registry # "ok" THEN registry
     ELSE IF ~DescribesManifest(report, manifest, binding)
     THEN "verified_snapshot_mismatch" ELSE "ok"

(* record_verified_source_snapshot: what is handed to the store.           *)
RecordedProvenance(binding, report) ==
  [adapter |-> binding.adapter, capability |-> binding.capability,
   dataset |-> report.dataset, snapshot |-> report.snapshot,
   origin |-> report.origin, content |-> ContentHash(report)]
RecordedRow(binding, manifest, report) ==
  [provenance |-> RecordedProvenance(binding, report),
   geometry |-> DecodedGeometry(binding.adapter, manifest),
   properties |-> DecodedProperties(binding.adapter, manifest)]

(* What is recorded is the row of a source, with its geometry.             *)
ASSUME RecordAssumption ==
  \A manifest \in Manifest, binding \in Binding :
    \A report \in Reports(binding.adapter, manifest) :
      BridgeVerdict(binding, manifest, report) = "ok" =>
        /\ RecordedRow(binding, manifest, report) \in Row
        /\ Missing \notin {RecordedProvenance(binding, report),
                          DecodedGeometry(binding.adapter, manifest)}

Rejected(verdict) == [Idle EXCEPT !.pc = "done", !.outcome = Outcome(verdict, FALSE)]
Recorded(s, row) ==
  Called([op |-> "store_source_dataset", source |-> s, row |-> row])

Imported(s, root, manifest, binding, report) ==
  LET verified == VerifyVerdict(root, manifest)
      bridged == BridgeVerdict(binding, manifest, report)
  IN IF verified # "ok" THEN Rejected(verified)
     ELSE IF bridged # "ok" THEN Rejected(bridged)
     ELSE Recorded(s, RecordedRow(binding, manifest, report))

(* Where any of the imports brings the caller.                             *)
Imports ==
  UNION {{Imported(s, root, manifest, binding, report) :
            report \in Reports(binding.adapter, manifest)} :
         s \in ImportSource, root \in Root, manifest \in Manifest, binding \in Binding}

Import(h) ==
  /\ client[h].pc \in {"idle", "done"}
  /\ \E reached \in Imports : client' = [client EXCEPT ![h] = reached]
  /\ UNCHANGED <<stored, revision, known>>

ImportNext == Next \/ \E h \in Handle : Import(h)
ImportSpec == Init /\ [][ImportNext]_vars

-----------------------------------------------------------------------------
(* What is stored under an imported source comes from one snapshot: the    *)
(* geometry is every record of the bytes its provenance names, the         *)
(* properties of a country are those of the row of its own record, and     *)
(* every ice shelf has its class.  Two imports into one source, or an      *)
(* import into a source with nothing but provenance, never mix.            *)
PartsAgree ==
  \A s \in ImportSource : stored[s].geometry # Missing =>
    LET content == stored[s].provenance.content
        shp == content["shp"]
        geometry == stored[s].geometry
        properties == stored[s].properties
    IN /\ {geometry[f] : f \in DOMAIN geometry} =
            {[source_id |-> n, rings |-> shp[n]] : n \in {k \in DOMAIN shp : shp[k] # NullShape}}
       /\ stored[s].provenance.capability = "admin0" =>
            /\ DOMAIN properties = DOMAIN geometry
            /\ \A f \in DOMAIN geometry :
                 LET n == geometry[f].source_id
                     row == content["dbf"][n]
                 IN /\ n \in DOMAIN content["dbf"]
                    /\ f = <<"ne_id", row.ne_id>> /\ ~row.deleted
                    /\ properties[f] = CountryProperties(stored[s].provenance.adapter, row)
       /\ stored[s].provenance.capability = "surface" =>
            properties = [f \in DOMAIN geometry |-> FloatingIceShelf]
       /\ stored[s].provenance.capability = "land" => properties = Missing

(* Only a manifest whose files were verified is recorded, under the exact  *)
(* acquisition it describes: an adapter that passes the registry cannot    *)
(* give its provenance to other bytes.                                     *)
RecordedIsAcquired ==
  \A s \in ImportSource : stored[s].geometry # Missing =>
    \E manifest \in Manifest, root \in Root :
      /\ VerifyVerdict(root, manifest) = "ok"
      /\ LET from == stored[s].provenance
         IN /\ from.content = manifest.resources
            /\ from.origin = manifest.origin
            /\ from.dataset = manifest.dataset

=============================================================================

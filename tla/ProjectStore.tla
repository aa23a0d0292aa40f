----------------------------- MODULE ProjectStore -----------------------------
(***************************************************************************)
(* ProjectStore handles over one .aeris database (src/src/storage/         *)
(* project.cpp, projection.cpp, resource.cpp).                             *)
(*                                                                         *)
(* Every handle is used by one thread and caches ProjectMetadata.  A call  *)
(* on a handle is a sequence of SQLite statements.  Reads outside a        *)
(* transaction are autocommit reads of the committed document, each one    *)
(* step, so that other handles commit between two of them.  A mutation     *)
(* takes the RESERVED lock with BEGIN IMMEDIATE, reads, decides, writes    *)
(* what it computed from what it read, commits or rolls back, and then     *)
(* refreshes the handle's cache.  Uncommitted writes are visible to nobody *)
(* else, so they are part of the step Commit.                              *)
(*                                                                         *)
(* Any statement may fail (SQLITE_BUSY, I/O): the code then rolls back and *)
(* returns.  A handle may be destroyed, or its process die, at any step:   *)
(* SQLite rolls an unfinished transaction back.                            *)
(***************************************************************************)
EXTENDS ProjectDocument

CONSTANTS
  Handle,       (* ProjectStore handles, in one or several processes.      *)
  CallsOf,      (* the calls made on each of them, see CallType.           *)
  NoHandle,     (* nobody holds the write lock.                            *)
  NoMetadata,   (* nothing read; for a cache: the handle is not open.      *)
  NoDocument    (* no transaction has read the document.                   *)

VARIABLES
  writer,       (* holder of SQLite's RESERVED lock.                       *)
  pc,           (* the statement a handle's call executes next.            *)
  request,      (* the call being served, or the last one served.          *)
  local,        (* what the running call has read, see Local.              *)
  cache,        (* Impl::metadata.                                         *)
  result        (* what the last call reported, see Result.                *)

storeVars == <<doc, writer, pc, request, local, cache, result>>

Metadata == [revision : 0..MaxRevision, frozen : BOOLEAN,
             worldview : Worldview, projection_id : Model]

(* load_metadata: the aeris_meta row in one statement.                     *)
MetadataOf(d) ==
  [revision |-> d.revision, frozen |-> d.frozen,
   worldview |-> d.worldview, projection_id |-> d.projection_id]

Local ==
  [current : Metadata \cup {NoMetadata},   (* ProjectMetadata current.     *)
   model : Model,                          (* record.model_id.             *)
   required : SUBSET Resource,             (* load_all_resources.          *)
   external : SUBSET Resource,
   frozen : BOOLEAN,                       (* read_revision_frozen.        *)
   snapshot : Document \cup {NoDocument},  (* read by the transaction.     *)
   committed : BOOLEAN,                    (* durably_committed.           *)
   seen : 0..MaxRevision]                  (* history: revision at which   *)
                 (* its transaction committed or found itself in effect.   *)

NoLocal ==
  [current |-> NoMetadata, model |-> Unspecified, required |-> {},
   external |-> {}, frozen |-> FALSE, snapshot |-> NoDocument,
   committed |-> FALSE, seen |-> 0]

(* The status, and for a mutation whether it was committed and, if it      *)
(* succeeded, the revision it saw.  Of the schema_invalid errors, two are  *)
(* told apart by their diagnostics: "false_frozen_claim" and               *)
(* "projection_disagrees".                                                 *)
NoResult == [error |-> "none", committed |-> FALSE, seen |-> 0]

(* ProjectStore::open builds a handle; the other calls need one.           *)
Open == [op |-> "open"]
ReadCall == [op : {"refresh_metadata", "load_project_projection",
                   "verify_integrity"}]
CallType == MutationType \cup ReadCall

ASSUME StoreAssumption ==
  /\ \A h \in Handle : CallsOf[h] \subseteq CallType
  /\ NoHandle \notin Handle
  /\ NoMetadata \notin Metadata
  /\ NoDocument \notin Document

-----------------------------------------------------------------------------
(* Control of a call.                                                      *)

FirstStatement(q) ==
  CASE q.op \in {"update_metadata", "load_project_projection"} ->
         "read_projection"
    [] q.op \in {"open", "refresh_metadata", "verify_integrity"} ->
         "load_metadata"
    [] OTHER -> "begin"

(* What follows verify_projection_semantics.                               *)
AfterProjectionCheck(q) ==
  CASE q.op = "update_metadata" -> "begin"
    [] q.op = "load_project_projection" -> "return"
    [] q.op = "verify_integrity" -> "load_all_resources"
    [] OTHER -> "install"

(* update_metadata returns with the row it wrote as its cache; every other *)
(* mutation calls refresh_metadata, and so does an exact retry.            *)
AfterCommit_Unread(q) == "install"
AfterCommit(q) == IF q.op = "update_metadata" THEN "install" ELSE "load_metadata"

AfterRetry_NoRefresh(q) == "return"
AfterRetry(q) == "load_metadata"

Goto(h, statement) == pc' = [pc EXCEPT ![h] = statement]

Continue(h, statement) ==
  /\ Goto(h, statement)
  /\ UNCHANGED <<local, result>>

Fetch(h, values, statement) ==
  /\ local' = [local EXCEPT ![h] = values]
  /\ Goto(h, statement)
  /\ UNCHANGED result

Return(h, error) ==
  /\ Goto(h, "idle")
  /\ result' = [result EXCEPT ![h] =
       [error |-> error, committed |-> local[h].committed,
        seen |-> IF error = "none" THEN local[h].seen ELSE 0]]
  /\ local' = [local EXCEPT ![h] = NoLocal]

Start(h, q) ==
  /\ pc[h] = "idle"
  /\ request' = [request EXCEPT ![h] = q]
  /\ Continue(h, FirstStatement(q))
  /\ UNCHANGED <<doc, writer, cache>>

OpenProject(h) == cache[h] = NoMetadata /\ Start(h, Open)
CallProject(h) == cache[h] # NoMetadata /\ \E q \in CallsOf[h] : Start(h, q)

-----------------------------------------------------------------------------
(* Reads, each an autocommit statement on the handle's connection or on a  *)
(* connection of its own.                                                  *)

LoadMetadata(h) ==
  /\ pc[h] = "load_metadata"
  /\ Fetch(h, [local[h] EXCEPT !.current = MetadataOf(doc)],
           "validate_frozen_claim")
  /\ UNCHANGED <<doc, writer, request, cache>>

(* The claim read by load_metadata, against the resource rows of now.      *)
ValidateFrozenClaim(h) ==
  /\ pc[h] = "validate_frozen_claim"
  /\ IF FrozenClaimHolds(doc, local[h].current.frozen)
     THEN Continue(h, "read_projection")
     ELSE Return(h, "false_frozen_claim")
  /\ UNCHANGED <<doc, writer, request, cache>>

ReadProjection(h) ==
  /\ pc[h] = "read_projection"
  /\ Fetch(h, [local[h] EXCEPT !.model = doc.projection.model],
           "validate_metadata_sync")
  /\ UNCHANGED <<doc, writer, request, cache>>

(* The model read by read_projection, against the aeris_meta row of now.   *)
ValidateMetadataSync(h) ==
  /\ pc[h] = "validate_metadata_sync"
  /\ IF doc.projection_id = local[h].model
     THEN Continue(h, AfterProjectionCheck(request[h]))
     ELSE Return(h, "projection_disagrees")
  /\ UNCHANGED <<doc, writer, request, cache>>

(* verify_resource_semantics: the rows, then the frozen flag, then the     *)
(* chunks of every row.  The audits of other tables are not part of this.  *)
LoadAllResources(h) ==
  /\ pc[h] = "load_all_resources"
  /\ Fetch(h, [local[h] EXCEPT !.required = doc.required,
                               !.external = Stored(doc) \ doc.embedded],
           "read_revision_frozen")
  /\ UNCHANGED <<doc, writer, request, cache>>

ReadRevisionFrozen(h) ==
  /\ pc[h] = "read_revision_frozen"
  /\ Fetch(h, [local[h] EXCEPT !.frozen = doc.frozen], "verify_each_resource")
  /\ UNCHANGED <<doc, writer, request, cache>>

(* Rows are audited in ID order: a required external row of a frozen       *)
(* project, or an external row that has chunks by now, ends the audit.     *)
VerifyEachResource(h) ==
  /\ pc[h] = "verify_each_resource"
  /\ LET claim == local[h].frozen =>
                    local[h].required \cap local[h].external = {}
         external == local[h].external \cap doc.embedded = {}
     IN \/ claim /\ external /\ Continue(h, "return")
        \/ ~claim /\ Return(h, "integrity_failed")
        \/ ~external /\ Return(h, "schema_invalid")
  /\ UNCHANGED <<doc, writer, request, cache>>

-----------------------------------------------------------------------------
(* Transactions.                                                           *)

BeginImmediate_Deferred(h) ==
  /\ pc[h] = "begin"
  /\ writer' = h
  /\ Continue(h, "read_transaction")
  /\ UNCHANGED <<doc, request, cache>>

BeginImmediate(h) ==
  /\ pc[h] = "begin"
  /\ writer = NoHandle
  /\ writer' = h
  /\ Continue(h, "read_transaction")
  /\ UNCHANGED <<doc, request, cache>>

(* sqlite3_busy_timeout: BEGIN IMMEDIATE gives up while another holds the  *)
(* lock.                                                                   *)
BusyTimeout_Never(h) == FALSE /\ UNCHANGED storeVars
BusyTimeout(h) ==
  /\ pc[h] = "begin"
  /\ writer \notin {NoHandle, h}
  /\ Return(h, "sqlite_failure")
  /\ UNCHANGED <<doc, writer, request, cache>>

(* The SELECTs of the body.                                                *)
ReadTransaction(h) ==
  /\ pc[h] = "read_transaction"
  /\ Fetch(h, [local[h] EXCEPT !.snapshot = doc], "decide")
  /\ UNCHANGED <<doc, writer, request, cache>>

(* What update_metadata will cache: the row read inside the transaction    *)
(* with its own revision and worldview, never the row it had cached.       *)
Remembered_FromCache(h, q) ==
  IF q.op = "update_metadata"
  THEN [cache[h] EXCEPT !.revision = local[h].snapshot.revision + 1,
                        !.worldview = q.worldview]
  ELSE NoMetadata
Remembered(h, q) ==
  IF q.op = "update_metadata"
  THEN MetadataOf(Written(local[h].snapshot, q))
  ELSE NoMetadata

Decided(h) == Verdict(local[h].snapshot, request[h])

Commit(h) ==
  /\ pc[h] = "decide"
  /\ Decided(h) = "commit"
  /\ doc' = Written(local[h].snapshot, request[h])
  /\ writer' = NoHandle
  /\ Fetch(h, [local[h] EXCEPT !.current = Remembered(h, request[h]),
                               !.snapshot = NoDocument,
                               !.committed = TRUE,
                               !.seen = local[h].snapshot.revision + 1],
           AfterCommit(request[h]))
  /\ UNCHANGED <<request, cache>>

(* Exact retry: roll back, refresh the handle, report no change.           *)
RollbackRetry(h) ==
  /\ pc[h] = "decide"
  /\ Decided(h) = "retry"
  /\ writer' = NoHandle
  /\ Fetch(h, [local[h] EXCEPT !.snapshot = NoDocument,
                               !.seen = local[h].snapshot.revision],
           AfterRetry(request[h]))
  /\ UNCHANGED <<doc, request, cache>>

RollbackRefused(h) ==
  /\ pc[h] = "decide"
  /\ Decided(h) \notin {"commit", "retry"}
  /\ writer' = NoHandle
  /\ Return(h, Decided(h))
  /\ UNCHANGED <<doc, request, cache>>

-----------------------------------------------------------------------------
(* Ends of a call.                                                         *)

(* The whole metadata record is assigned at once, after the last check.    *)
Install(h) ==
  /\ pc[h] = "install"
  /\ cache' = [cache EXCEPT ![h] = local[h].current]
  /\ Return(h, "none")
  /\ UNCHANGED <<doc, writer, request>>

ReturnSuccess(h) ==
  /\ pc[h] = "return"
  /\ Return(h, "none")
  /\ UNCHANGED <<doc, writer, request, cache>>

(* rollback, or the connection closed.                                     *)
Released_Leaks(h) == writer
Released(h) == IF writer = h THEN NoHandle ELSE writer

(* A statement fails, BEGIN and COMMIT included: an open transaction is    *)
(* rolled back and the call returns with the committed flag it has.        *)
StatementFails(h) ==
  /\ pc[h] \notin {"idle", "install", "return"}
  /\ writer' = Released(h)
  /\ Return(h, "sqlite_failure")
  /\ UNCHANGED <<doc, request, cache>>

(* The handle is destroyed, or its process dies anywhere in a call.        *)
Stop(h) ==
  /\ cache[h] # NoMetadata \/ pc[h] # "idle"
  /\ writer' = Released(h)
  /\ Goto(h, "idle")
  /\ local' = [local EXCEPT ![h] = NoLocal]
  /\ cache' = [cache EXCEPT ![h] = NoMetadata]
  /\ request' = [request EXCEPT ![h] = Open]
  /\ result' = [result EXCEPT ![h] = NoResult]
  /\ UNCHANGED doc

-----------------------------------------------------------------------------
StoreInit ==
  /\ DocumentInit
  /\ writer = NoHandle
  /\ pc = [h \in Handle |-> "idle"]
  /\ request = [h \in Handle |-> Open]
  /\ local = [h \in Handle |-> NoLocal]
  /\ cache = [h \in Handle |-> NoMetadata]
  /\ result = [h \in Handle |-> NoResult]

(* The steps of a running call.                                            *)
Step(h) ==
  \/ LoadMetadata(h) \/ ValidateFrozenClaim(h)
  \/ ReadProjection(h) \/ ValidateMetadataSync(h)
  \/ LoadAllResources(h) \/ ReadRevisionFrozen(h) \/ VerifyEachResource(h)
  \/ BeginImmediate(h) \/ BusyTimeout(h) \/ ReadTransaction(h)
  \/ Commit(h) \/ RollbackRetry(h) \/ RollbackRefused(h)
  \/ Install(h) \/ ReturnSuccess(h)

StoreNext ==
  \E h \in Handle :
    OpenProject(h) \/ CallProject(h) \/ Step(h) \/ StatementFails(h) \/ Stop(h)

StoreSpec == StoreInit /\ [][StoreNext]_storeVars

(* A thread inside a call keeps running it, and SQLite waits at most the   *)
(* busy timeout.  Nobody has to call, to fail or to stop.                  *)
FairStoreSpec == StoreSpec /\ \A h \in Handle : WF_storeVars(Step(h))

-----------------------------------------------------------------------------
Statement ==
  {"idle", "load_metadata", "validate_frozen_claim", "read_projection",
   "validate_metadata_sync", "load_all_resources", "read_revision_frozen",
   "verify_each_resource", "begin", "read_transaction", "decide", "install",
   "return"}

Error == {"none", "record_exists", "integrity_failed", "invalid_argument",
          "schema_invalid", "false_frozen_claim", "projection_disagrees",
          "sqlite_failure"}

Result == [error : Error, committed : BOOLEAN, seen : 0..MaxRevision]

(* What a statement uses has been read, and only mutations reach a         *)
(* transaction.                                                            *)
StatementFitsCall(h) ==
  /\ pc[h] \in {"begin", "read_transaction", "decide"} =>
       request[h] \in MutationType
  /\ pc[h] \in {"validate_frozen_claim", "install"} =>
       local[h].current # NoMetadata
  /\ /\ pc[h] \in {"read_projection", "validate_metadata_sync"}
     /\ request[h].op \notin {"update_metadata", "load_project_projection"}
     => local[h].current # NoMetadata
  /\ pc[h] = "decide" => local[h].snapshot # NoDocument

(* Every variable keeps its type, and no call uses what it has not read.   *)
StoreTypeOK ==
  /\ writer \in Handle \cup {NoHandle}
  /\ pc \in [Handle -> Statement]
  /\ request \in [Handle -> CallType \cup {Open}]
  /\ local \in [Handle -> Local]
  /\ cache \in [Handle -> Metadata \cup {NoMetadata}]
  /\ result \in [Handle -> Result]
  /\ \A h \in Handle : StatementFitsCall(h)

InTransaction(h) == pc[h] \in {"read_transaction", "decide"}

(* The write lock is held by exactly the handle whose call is inside a     *)
(* transaction: every error path rolls back before it returns.             *)
LockNotLeaked == \A h \in Handle : writer = h <=> InTransaction(h)

(* What a transaction has read stays true until it ends, so a body never   *)
(* decides on, or increments, a stale document.                            *)
TransactionReadsFresh ==
  \A h \in Handle : pc[h] = "decide" => local[h].snapshot = doc

(* Metadata held by a handle is the metadata of one committed document: it *)
(* is never ahead, and at the current revision it is the current row.      *)
Snapshot(m) ==
  m # NoMetadata =>
    /\ m.revision <= doc.revision
    /\ m.revision = doc.revision => m = MetadataOf(doc)

(* A cached record is one row of one revision, never a mixture, although   *)
(* update_metadata writes it without reading it back.                      *)
CacheCoherent == \A h \in Handle : Snapshot(cache[h]) /\ Snapshot(local[h].current)

Idle(h) == pc[h] = "idle"
IsMutation(q) == q \in MutationType

(* A mutation that reports success, an exact retry included, leaves the    *)
(* handle at a revision no older than the one it wrote or found: the loser *)
(* of a race does not continue with a stale project revision.              *)
ReadYourWrites ==
  \A h \in Handle :
    Idle(h) /\ result[h].error = "none" /\ IsMutation(request[h]) =>
      result[h].seen <= cache[h].revision

(* An acknowledged resource mutation stays in effect whatever the other    *)
(* handles do.  A call acknowledges by success, or by durably_committed    *)
(* when only the refresh after COMMIT failed.                              *)
AcknowledgedInEffect ==
  \A h \in Handle :
    Idle(h) /\ (result[h].error = "none" \/ result[h].committed) =>
      /\ request[h].op \in {"store_external_resource", "embed_resource_file"} =>
           RowHas(doc, request[h])
      /\ request[h].op = "embed_resource_file" =>
           request[h].resource \in doc.embedded

(* Every call returns, whatever the other handles do: nobody waits for the *)
(* write lock forever.                                                     *)
CallsReturn == \A h \in Handle : pc[h] # "idle" ~> pc[h] = "idle"

-----------------------------------------------------------------------------
(* Claims the code does not keep.                                          *)

(* tests/provenance_race.cpp: "structured projection and worldview         *)
(* mutations should serialize successfully".  No mutation is refused, or   *)
(* ends after its commit, with a disagreement of the projection and its    *)
(* summary: they never disagree.                                           *)
ProjectionMutationsSerialize ==
  \A h \in Handle :
    Idle(h) /\ IsMutation(request[h]) => result[h].error # "projection_disagrees"

=============================================================================

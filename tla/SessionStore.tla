------------------------------ MODULE SessionStore ------------------------------
(***************************************************************************)
(* SessionStore handles over the session sidecar that lies next to one     *)
(* project path (src/src/storage/session.cpp): open_or_create,             *)
(* read_view_state, write_view_state and verify_integrity.                 *)
(*                                                                         *)
(* A handle is bound to the UUID of the project its caller has open; the   *)
(* path may have held another project before.  SQLite statements are the   *)
(* steps, as in ProjectStore: reads are autocommit, a write takes the lock *)
(* with BEGIN IMMEDIATE, and its rows appear when it commits.  Any         *)
(* statement may fail, and a handle may be destroyed, or its process die,  *)
(* at any step.                                                            *)
(*                                                                         *)
(* Publication models how a new sidecar gets its name, races and failures  *)
(* included.  Here that is one step, and the sidecar is never removed.     *)
(***************************************************************************)
EXTENDS Naturals

CONSTANTS
  Handle,       (* SessionStore handles, in one or several processes.      *)
  Project,      (* UUIDs of the projects that have been at the path.       *)
  ProjectOf,    (* the project that each handle's caller has open.         *)
  View,         (* SessionViewState values, the malformed ones included.   *)
  ValidView,    (* those that validate_view_state accepts.                 *)
  Write,        (* the arguments <<view, stamp>> of write_view_state.      *)
  Initial,      (* the files that may lie at the path in the beginning.    *)
  NoSidecar,    (* no file at the path.                                    *)
  NoView,       (* aeris_session_view is empty.                            *)
  NoHandle,     (* nobody holds SQLite's RESERVED lock.                    *)
  NoMetadata,   (* a handle that is not open.                              *)
  Created,      (* the canonical timestamp of a creation.                  *)
  LastRevision  (* bound: stands for the largest sqlite3_int64.            *)

VARIABLES
  sidecar,      (* the committed database at adjacent_session_path.        *)
  writer,       (* holder of the RESERVED lock.                            *)
  pc,           (* the statement the handle's call executes next.          *)
  request,      (* the arguments of its call.                              *)
  local,        (* metadata that open_existing has loaded.                 *)
  next_revision,(* what write_view_state computed before its transaction.  *)
  cache,        (* Impl::metadata.                                         *)
  shown,        (* the view that the last call on the handle read.         *)
  behind,       (* history: handles whose metadata others' commits outdated.*)
  commits       (* history: commits since creation, as long as no handle   *)
                (* that was behind has committed; see Counted.             *)

vars == <<sidecar, writer, pc, request, local, next_revision, cache, shown,
          behind, commits>>

(* A file is damaged, of another application or schema, a sidecar with     *)
(* rows that load_metadata refuses, or a sidecar; the rest are the rows of *)
(* aeris_session_meta and aeris_session_view, and whether the file has the *)
(* durable journal configuration.                                          *)
Sidecar ==
  [kind : {"damaged", "foreign", "malformed", "session"}, durable : BOOLEAN,
   project_uuid : Project, revision : 0..LastRevision,
   modified_utc : {Created} \cup {w[2] : w \in Write},
   view : View \cup {NoView}]

Metadata == [project_uuid : Project, revision : 0..LastRevision,
             modified_utc : {Created} \cup {w[2] : w \in Write}]

MetadataOf(file) ==
  [project_uuid |-> file.project_uuid, revision |-> file.revision,
   modified_utc |-> file.modified_utc]

NoWrite == <<NoView, Created>>

(* commits stops counting here: the revision is no counter of the commits  *)
(* any more.                                                               *)
Uncounted == LastRevision + 1
Counted == commits # Uncounted

ASSUME SessionAssumption ==
  /\ ProjectOf \in [Handle -> Project]
  /\ LastRevision \in Nat
  /\ ValidView \subseteq View /\ NoView \notin View
  /\ Write \subseteq View \X STRING
  /\ NoHandle \notin Handle
  /\ NoMetadata \notin Metadata
  /\ NoSidecar \notin Sidecar
  /\ Initial \subseteq Sidecar \cup {NoSidecar}

(* A view that lies at the path in the beginning is from an earlier call.  *)
ASSUME EarlierWrites ==
  \A file \in Initial \ {NoSidecar} :
    file.view # NoView =>
      \E w \in Write : w[1] \in ValidView /\ w = <<file.view, file.modified_utc>>

(* validate_view_state: mode, camera and zoom.                             *)
Valid(view) == view \in ValidView

Goto(h, statement) == pc' = [pc EXCEPT ![h] = statement]

Call(h, statement) ==
  /\ pc[h] = "idle"
  /\ Goto(h, statement)
  /\ shown' = [shown EXCEPT ![h] = NoView]

-----------------------------------------------------------------------------
(* SessionStore::open_or_create.                                           *)

CallOpen(h) ==
  /\ cache[h] = NoMetadata
  /\ Call(h, "inspect")
  /\ UNCHANGED <<sidecar, writer, request, local, next_revision, cache, behind, commits>>

(* A file that is there is opened, whatever it is.  Otherwise a new one is *)
(* built and published, and opened through the same reader; a caller that  *)
(* lost the race opens the winner.                                         *)
Inspect(h) ==
  /\ pc[h] = "inspect"
  /\ Goto(h, IF sidecar = NoSidecar THEN "create" ELSE "quick_check")
  /\ UNCHANGED <<sidecar, writer, request, local, next_revision, cache, shown, behind, commits>>

(* initialize_session: revision 0, no view.                                *)
NewSidecar(project) ==
  [kind |-> "session", durable |-> TRUE, project_uuid |-> project, revision |-> 0,
   modified_utc |-> Created, view |-> NoView]

Create(h) ==
  /\ pc[h] = "create"
  /\ sidecar' = IF sidecar = NoSidecar THEN NewSidecar(ProjectOf[h]) ELSE sidecar
  /\ Goto(h, "quick_check")
  /\ UNCHANGED <<writer, request, local, next_revision, cache, shown, behind, commits>>

(* The checks of open_existing, which verify_integrity repeats.            *)
Opening(h) == cache[h] = NoMetadata

VerifyQuickCheck(h) ==
  /\ pc[h] = "quick_check"
  /\ Goto(h, IF sidecar.kind = "damaged" THEN "idle" ELSE "validate_identity")
  /\ UNCHANGED <<sidecar, writer, request, local, next_revision, cache, shown, behind, commits>>

ValidateIdentity(h) ==
  /\ pc[h] = "validate_identity"
  /\ Goto(h, IF sidecar.kind = "foreign" THEN "idle" ELSE "load_metadata")
  /\ UNCHANGED <<sidecar, writer, request, local, next_revision, cache, shown, behind, commits>>

(* load_metadata, and in an opening the comparison of the UUIDs.           *)
Belongs_Trusted(h) == sidecar.kind = "session"
Belongs(h) == sidecar.kind = "session" /\ sidecar.project_uuid = ProjectOf[h]

LoadMetadata(h) ==
  /\ pc[h] = "load_metadata"
  /\ IF Opening(h) /\ Belongs(h)
     THEN /\ local' = [local EXCEPT ![h] = MetadataOf(sidecar)]
          /\ behind' = behind \ {h}
          /\ Goto(h, "configure_durable")
     ELSE Goto(h, "idle") /\ UNCHANGED <<local, behind>>
  /\ UNCHANGED <<sidecar, writer, request, next_revision, cache, shown, commits>>

(* Only now does the file's journal configuration change.                  *)
ConfigureDurable(h) ==
  /\ pc[h] = "configure_durable"
  /\ sidecar' = [sidecar EXCEPT !.durable = TRUE]
  /\ cache' = [cache EXCEPT ![h] = local[h]]
  /\ local' = [local EXCEPT ![h] = NoMetadata]
  /\ Goto(h, "idle")
  /\ UNCHANGED <<writer, request, next_revision, shown, behind, commits>>

-----------------------------------------------------------------------------
(* read_view_state and verify_integrity change nothing but the answer.     *)

CallRead(h) ==
  /\ cache[h] # NoMetadata
  /\ Call(h, "select_view")
  /\ UNCHANGED <<sidecar, writer, request, local, next_revision, cache, behind, commits>>

(* A stored row that validate_view_state refuses is schema_invalid, and    *)
(* nothing is shown.                                                       *)
SelectView(h) ==
  /\ pc[h] = "select_view"
  /\ shown' = [shown EXCEPT ![h] = IF Valid(sidecar.view) THEN sidecar.view ELSE NoView]
  /\ Goto(h, "idle")
  /\ UNCHANGED <<sidecar, writer, request, local, next_revision, cache, behind, commits>>

CallVerify(h) ==
  /\ cache[h] # NoMetadata
  /\ Call(h, "quick_check")
  /\ UNCHANGED <<sidecar, writer, request, local, next_revision, cache, behind, commits>>

-----------------------------------------------------------------------------
(* write_view_state.                                                       *)

(* What is refused is refused before the transaction, and the next         *)
(* revision is computed there too, from the handle's cache.                *)
Accepted(h, w) == Valid(w[1]) /\ cache[h].revision < LastRevision

CallWrite(h) ==
  /\ cache[h] # NoMetadata
  /\ \E w \in Write :
       /\ Accepted(h, w)
       /\ Call(h, "begin")
       /\ request' = [request EXCEPT ![h] = w]
       /\ next_revision' = [next_revision EXCEPT ![h] = cache[h].revision + 1]
  /\ UNCHANGED <<sidecar, writer, local, cache, behind, commits>>

CallWriteRefused(h) ==
  /\ cache[h] # NoMetadata
  /\ \E w \in Write : ~Accepted(h, w)
  /\ Call(h, "idle")
  /\ UNCHANGED <<sidecar, writer, request, local, next_revision, cache, behind, commits>>

BeginImmediate(h) ==
  /\ pc[h] = "begin"
  /\ writer = NoHandle
  /\ writer' = h
  /\ Goto(h, "commit")
  /\ UNCHANGED <<sidecar, request, local, next_revision, cache, shown, behind, commits>>

BusyTimeout(h) ==
  /\ pc[h] = "begin"
  /\ writer \notin {NoHandle, h}
  /\ Goto(h, "idle")
  /\ UNCHANGED <<sidecar, writer, request, local, next_revision, cache, shown, behind, commits>>

(* Both tables in one transaction.                                         *)
Updated_KeepsStamp(h) ==
  [sidecar EXCEPT !.view = request[h][1], !.revision = next_revision[h]]
Updated(h) ==
  [sidecar EXCEPT !.view = request[h][1], !.revision = next_revision[h],
                  !.modified_utc = request[h][2]]

Commit(h) ==
  /\ pc[h] = "commit"
  /\ sidecar' = Updated(h)
  /\ writer' = NoHandle
  /\ Goto(h, "remember")
  /\ behind' = (behind \cup {g \in Handle : cache[g] # NoMetadata \/ local[g] # NoMetadata}) \ {h}
  /\ commits' = IF h \in behind THEN Uncounted
                ELSE IF Counted THEN commits + 1 ELSE commits
  /\ UNCHANGED <<request, local, next_revision, cache, shown>>

(* The handle remembers what it wrote, after the commit.                   *)
Remembered_Stamp(h) == [cache[h] EXCEPT !.modified_utc = request[h][2]]
Remembered(h) ==
  [cache[h] EXCEPT !.revision = next_revision[h], !.modified_utc = request[h][2]]

Remember(h) ==
  /\ pc[h] = "remember"
  /\ cache' = [cache EXCEPT ![h] = Remembered(h)]
  /\ Goto(h, "idle")
  /\ UNCHANGED <<sidecar, writer, request, local, next_revision, shown, behind, commits>>

-----------------------------------------------------------------------------
Released(h) == IF writer = h THEN NoHandle ELSE writer

(* A statement fails: an open transaction is rolled back, an opening hands *)
(* out no handle.                                                          *)
StatementFails(h) ==
  /\ pc[h] \notin {"idle", "remember"}
  /\ writer' = Released(h)
  /\ local' = [local EXCEPT ![h] = NoMetadata]
  /\ Goto(h, "idle")
  /\ UNCHANGED <<sidecar, request, next_revision, cache, shown, behind, commits>>

(* The handle is destroyed, or its process dies anywhere in a call.        *)
Stop(h) ==
  /\ cache[h] # NoMetadata \/ pc[h] # "idle"
  /\ writer' = Released(h)
  /\ Goto(h, "idle")
  /\ local' = [local EXCEPT ![h] = NoMetadata]
  /\ cache' = [cache EXCEPT ![h] = NoMetadata]
  /\ shown' = [shown EXCEPT ![h] = NoView]
  /\ behind' = behind \ {h}
  /\ UNCHANGED <<sidecar, request, next_revision, commits>>

SessionInit ==
  /\ sidecar \in Initial
  /\ writer = NoHandle
  /\ pc = [h \in Handle |-> "idle"]
  /\ request = [h \in Handle |-> NoWrite]
  /\ local = [h \in Handle |-> NoMetadata]
  /\ next_revision = [h \in Handle |-> 0]
  /\ cache = [h \in Handle |-> NoMetadata]
  /\ shown = [h \in Handle |-> NoView]
  /\ behind = {}
  /\ commits = IF sidecar = NoSidecar THEN 0 ELSE sidecar.revision

(* The steps of a running call.                                            *)
Step(h) ==
  \/ Inspect(h) \/ Create(h) \/ VerifyQuickCheck(h) \/ ValidateIdentity(h)
  \/ LoadMetadata(h) \/ ConfigureDurable(h) \/ SelectView(h)
  \/ BeginImmediate(h) \/ BusyTimeout(h) \/ Commit(h) \/ Remember(h)

SessionNext ==
  \E h \in Handle :
    \/ CallOpen(h) \/ CallRead(h) \/ CallVerify(h)
    \/ CallWrite(h) \/ CallWriteRefused(h)
    \/ Step(h) \/ StatementFails(h) \/ Stop(h)

SessionSpec == SessionInit /\ [][SessionNext]_vars

-----------------------------------------------------------------------------
(* The committed view and the stamp of aeris_session_meta come from one    *)
(* accepted write, or from no write at all: no interleaving, failure or    *)
(* crash leaves half of one, and a view that validate_view_state refuses   *)
(* is never stored.                                                        *)
ViewIsOneWrite ==
  sidecar # NoSidecar /\ sidecar.view # NoView =>
    \E w \in Write : Valid(w[1]) /\ w = <<sidecar.view, sidecar.modified_utc>>

(* Whatever lies at the path when another project is opened there, its     *)
(* sidecar, a damaged one or no sidecar at all, is never changed, not even *)
(* its journal configuration, and never shown: a handle acts on a sidecar  *)
(* of its own project only.                                                *)
ForeignSidecarUntouched ==
  /\ [](\A h \in Handle :
         cache[h] # NoMetadata \/ shown[h] # NoView =>
           sidecar.kind = "session" /\ sidecar.project_uuid = ProjectOf[h])
  /\ [][sidecar # NoSidecar /\ sidecar' # sidecar =>
          \E h \in Handle :
            cache'[h] # NoMetadata /\ sidecar.project_uuid = ProjectOf[h]]_vars

(* As long as no handle writes from metadata that another handle's commit  *)
(* has outdated, the revision counts the committed writes, through         *)
(* failures, crashes and reopening, and a handle that is not behind        *)
(* remembers the committed metadata.  (With two handles that both write,   *)
(* revisions repeat and go back: next_revision comes from the cache.)      *)
RevisionCountsWrites ==
  sidecar # NoSidecar =>
    /\ Counted => sidecar.revision = commits
    /\ \A h \in Handle :
         cache[h] # NoMetadata /\ pc[h] # "remember" /\ h \notin behind =>
           cache[h] = MetadataOf(sidecar)

=============================================================================

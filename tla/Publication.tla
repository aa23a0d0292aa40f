------------------------------ MODULE Publication ------------------------------
(***************************************************************************)
(* No-overwrite publication of a SQLite file under one name, shared by     *)
(* ProjectStore::create (project.cpp) and SessionStore::open_or_create     *)
(* (session.cpp): build the database in a sibling staging directory, link  *)
(* it to the destination with create_hard_link, open it there through the  *)
(* ordinary reader, remove the staging directory.  If that open fails, the *)
(* destination is removed again when it still is the staged file.          *)
(*                                                                         *)
(* Clients are calls in any thread or process.  A file is an inode: names  *)
(* link to it, handles keep it alive after its last name is gone.  Every   *)
(* filesystem and SQLite call may fail; a client may die between any two.  *)
(* The user's own deletion of files is left out.                           *)
(***************************************************************************)
EXTENDS FiniteSets

CONSTANTS
  Client,      (* callers.                                                 *)
  File,        (* inodes that may be created.                              *)
  NoFile       (* no file under a name, or no open handle.                 *)

ASSUME PublicationAssumption == NoFile \notin File

VARIABLES
  sidecar,     (* the name is of a session sidecar, not of a project.      *)
  path,        (* the file the destination name links to.                  *)
  used,        (* inodes created so far.                                   *)
  ready,       (* files initialized, committed and verified.               *)
  staged,      (* the client's staging directory holds this file.          *)
  litter,      (* staging directories of clients that died.                *)
  pc,          (* the next filesystem or SQLite call of a client.          *)
  creating,    (* the running or last call is create/open_or_create.       *)
  verdict,     (* what the call will return, or has returned.              *)
  handle,      (* the file of the client's open handle.                    *)
  acknowledged,(* history: files with a mutation acknowledged to a client. *)
  withdrawn    (* history: files removed from the destination.             *)

disk == <<sidecar, path, used, ready, litter>>
history == <<acknowledged, withdrawn>>
publicationVars == <<disk, staged, pc, creating, verdict, handle, history>>

Goto(c, step) == pc' = [pc EXCEPT ![c] = step]
Decide(c, v) == verdict' = [verdict EXCEPT ![c] = v]

(* Removal of the staging directory comes before every return but the      *)
(* first ones.                                                             *)
CleanUp(c, v) == Decide(c, v) /\ Goto(c, "remove_staging")
Return(c, v) == Decide(c, v) /\ Goto(c, "idle")

Begin(c, create, step) ==
  /\ pc[c] = "idle" /\ handle[c] = NoFile
  /\ creating' = [creating EXCEPT ![c] = create]
  /\ Decide(c, "none")
  /\ Goto(c, step)
  /\ UNCHANGED <<disk, staged, handle, history>>

-----------------------------------------------------------------------------
(* ProjectStore::create and SessionStore::open_or_create.                  *)

(* Only the sidecar looks at the destination before it builds a new file.  *)
CallCreate(c) == Begin(c, TRUE, IF sidecar THEN "inspect_existing"
                                           ELSE "make_staging")

InspectExisting(c) ==
  /\ pc[c] = "inspect_existing"
  /\ \/ path # NoFile /\ Goto(c, "open_existing") /\ UNCHANGED verdict
     \/ path = NoFile /\ Goto(c, "make_staging") /\ UNCHANGED verdict
     \/ Return(c, "filesystem_failure")
  /\ UNCHANGED <<disk, staged, creating, handle, history>>

AfterStaging_PublishFirst == "link"
AfterStaging == "build"

MakeStaging(c) ==
  /\ pc[c] = "make_staging"
  /\ \/ \E f \in File \ used :
          /\ used' = used \cup {f}
          /\ staged' = [staged EXCEPT ![c] = f]
          /\ Goto(c, AfterStaging)
          /\ UNCHANGED verdict
     \/ Return(c, "filesystem_failure") /\ UNCHANGED <<used, staged>>
  /\ UNCHANGED <<sidecar, path, ready, litter, creating, handle, history>>

(* Schema and first rows in one transaction, checks, connection closed.    *)
Build(c) ==
  /\ pc[c] = "build"
  /\ \/ ready' = ready \cup {staged[c]} /\ Goto(c, "link") /\ UNCHANGED verdict
     \/ CleanUp(c, "sqlite_failure") /\ UNCHANGED ready
  /\ UNCHANGED <<sidecar, path, used, litter, staged, creating, handle, history>>

Link_Overwrites(c) ==
  /\ pc[c] = "link"
  /\ path' = staged[c]
  /\ Goto(c, "open_published")
  /\ UNCHANGED <<sidecar, used, ready, litter, staged, creating, verdict, handle, history>>

(* create_hard_link fails if the name is taken, or is not supported.       *)
Link(c) ==
  /\ pc[c] = "link"
  /\ \/ path = NoFile /\ path' = staged[c] /\ Goto(c, "open_published")
     \/ UNCHANGED path /\ Goto(c, "inspect_winner")
  /\ UNCHANGED <<sidecar, used, ready, litter, staged, creating, verdict, handle, history>>

(* A loser of the race: a project refuses, a sidecar opens the winner.     *)
LoserVerdict_Opens == "open_winner"
LoserVerdict == IF sidecar THEN "open_winner" ELSE "path_exists"

InspectWinner_Retries(c) ==
  /\ pc[c] = "inspect_winner"
  /\ \/ path # NoFile /\ CleanUp(c, LoserVerdict)
     \/ path = NoFile /\ Goto(c, "link") /\ UNCHANGED verdict
  /\ UNCHANGED <<disk, staged, creating, handle, history>>

InspectWinner(c) ==
  /\ pc[c] = "inspect_winner"
  /\ \/ path # NoFile /\ CleanUp(c, LoserVerdict)
     \/ CleanUp(c, "filesystem_failure")
  /\ UNCHANGED <<disk, staged, creating, handle, history>>

(* The ordinary reader on the destination, whatever file it names by now.  *)
OpenPublished(c) ==
  /\ pc[c] = "open_published"
  /\ \/ path # NoFile /\ handle' = [handle EXCEPT ![c] = path] /\ CleanUp(c, "ok")
     \/ Goto(c, "equivalent") /\ UNCHANGED <<handle, verdict>>
  /\ UNCHANGED <<disk, staged, creating, history>>

(* equivalent(staged_path, path) before remove(path).                      *)
Equivalent(c) ==
  /\ pc[c] = "equivalent"
  /\ \/ path = staged[c] /\ Goto(c, "withdraw") /\ UNCHANGED verdict
     \/ CleanUp(c, "open_failed")
  /\ UNCHANGED <<disk, staged, creating, handle, history>>

Withdraw(c) ==
  /\ pc[c] = "withdraw"
  /\ \/ path' = NoFile /\ withdrawn' = withdrawn \cup ({path} \ {NoFile})
     \/ UNCHANGED <<path, withdrawn>>
  /\ CleanUp(c, "open_failed")
  /\ UNCHANGED <<sidecar, used, ready, litter, staged, creating, handle, acknowledged>>

(* remove_all ignores errors: on failure the directory stays.              *)
RemoveStaging(c) ==
  /\ pc[c] = "remove_staging"
  /\ staged' = [staged EXCEPT ![c] = NoFile]
  /\ litter' \in {litter, litter \cup {staged[c]}}
  /\ Goto(c, IF verdict[c] = "open_winner" THEN "open_existing" ELSE "idle")
  /\ UNCHANGED <<sidecar, path, used, ready, creating, verdict, handle, history>>

-----------------------------------------------------------------------------
(* The other users of the name.                                            *)

(* ProjectStore::open; a sidecar has only open_or_create.                  *)
CallOpen(c) == ~sidecar /\ Begin(c, FALSE, "open_existing")

OpenExisting(c) ==
  /\ pc[c] = "open_existing"
  /\ \/ path # NoFile /\ handle' = [handle EXCEPT ![c] = path] /\ Return(c, "ok")
     \/ Return(c, "open_failed") /\ UNCHANGED handle
  /\ UNCHANGED <<disk, staged, creating, history>>

(* Any mutation on the handle that reports success.                        *)
Acknowledge(c) ==
  /\ pc[c] = "idle" /\ handle[c] # NoFile
  /\ handle[c] \notin acknowledged
  /\ acknowledged' = acknowledged \cup {handle[c]}
  /\ UNCHANGED <<disk, staged, pc, creating, verdict, handle, withdrawn>>

Close(c) ==
  /\ pc[c] = "idle" /\ handle[c] # NoFile
  /\ handle' = [handle EXCEPT ![c] = NoFile]
  /\ UNCHANGED <<disk, staged, pc, creating, verdict, history>>

(* The process dies: handles close, the staging directory stays.           *)
Crash(c) ==
  /\ pc[c] # "idle"
  /\ Return(c, "none")
  /\ litter' = litter \cup ({staged[c]} \ {NoFile})
  /\ staged' = [staged EXCEPT ![c] = NoFile]
  /\ handle' = [handle EXCEPT ![c] = NoFile]
  /\ UNCHANGED <<sidecar, path, used, ready, creating, history>>

-----------------------------------------------------------------------------
PublicationInit ==
  /\ sidecar \in BOOLEAN
  /\ path = NoFile
  /\ used = {} /\ ready = {} /\ litter = {}
  /\ staged = [c \in Client |-> NoFile]
  /\ pc = [c \in Client |-> "idle"]
  /\ creating = [c \in Client |-> FALSE]
  /\ verdict = [c \in Client |-> "none"]
  /\ handle = [c \in Client |-> NoFile]
  /\ acknowledged = {} /\ withdrawn = {}

Step(c) ==
  \/ InspectExisting(c) \/ MakeStaging(c) \/ Build(c) \/ Link(c)
  \/ InspectWinner(c) \/ OpenPublished(c) \/ Equivalent(c) \/ Withdraw(c)
  \/ RemoveStaging(c) \/ OpenExisting(c)

PublicationNext ==
  \E c \in Client :
    \/ CallCreate(c) \/ CallOpen(c) \/ Step(c)
    \/ Acknowledge(c) \/ Close(c) \/ Crash(c)

PublicationSpec == PublicationInit /\ [][PublicationNext]_publicationVars

(* A running call goes on: no step of it waits for another client.         *)
FairPublicationSpec ==
  PublicationSpec /\ \A c \in Client : WF_publicationVars(Step(c))

-----------------------------------------------------------------------------
Verdict == {"none", "ok", "path_exists", "open_winner", "open_failed",
            "filesystem_failure", "sqlite_failure"}

PublicationTypeOK ==
  /\ sidecar \in BOOLEAN
  /\ path \in File \cup {NoFile}
  /\ used \subseteq File
  /\ ready \subseteq used
  /\ litter \subseteq used
  /\ staged \in [Client -> used \cup {NoFile}]
  /\ pc \in [Client -> {"idle", "inspect_existing", "make_staging", "build",
       "link", "inspect_winner", "open_published", "equivalent", "withdraw",
       "remove_staging", "open_existing"}]
  /\ creating \in [Client -> BOOLEAN]
  /\ verdict \in [Client -> Verdict]
  /\ handle \in [Client -> used \cup {NoFile}]
  /\ acknowledged \subseteq used
  /\ withdrawn \subseteq used

(* The destination never names, and nobody ever opens, a database that is  *)
(* not complete and verified, crashes during the build included.           *)
PublishedIsComplete ==
  /\ path \in ready \cup {NoFile}
  /\ \A c \in Client : handle[c] \in ready \cup {NoFile}

(* All handles that are open on a file which was not withdrawn share the   *)
(* file the destination names: there are never two live databases.         *)
OneLiveFile ==
  \A c \in Client : handle[c] \notin withdrawn \cup {NoFile} => path = handle[c]

(* Two creations of a project are never both told that they made it.       *)
OneCreator ==
  ~sidecar =>
    \A c, d \in Client :
      creating[c] /\ creating[d] /\ handle[c] = handle[d] /\ handle[c] # NoFile
        => c = d

(* Every call returns, lost races and failed links included.               *)
CallsReturn == \A c \in Client : pc[c] # "idle" ~> pc[c] = "idle"

-----------------------------------------------------------------------------
(* Claims the code does not keep.                                          *)

(* docs/AERIS-PROJECT-FORMAT.md: "Every acknowledged project mutation is   *)
(* committed to `world.aeris` immediately"; likewise for the sidecar.  A   *)
(* file with an acknowledged mutation stays at the destination.            *)
AcknowledgedStaysPublished == \A f \in acknowledged : path = f

=============================================================================

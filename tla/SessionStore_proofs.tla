-------------------------- MODULE SessionStore_proofs --------------------------
(***************************************************************************)
(* Any number of handles over one session sidecar keep every view whole,   *)
(* leave the sidecars of other projects alone, and count writes for as     *)
(* long as none is made from outdated metadata.                            *)
(*                                                                         *)
(* The inductive invariant says what a handle in a call may rely on: past  *)
(* begin its request was accepted and its next revision computed from the  *)
(* metadata it still holds, past inspect there is a sidecar, a handle that *)
(* has loaded metadata has them from a sidecar of its own project, and one *)
(* that is not behind has the committed ones, or is about to remember them.*)
(***************************************************************************)
EXTENDS SessionStore, TLAPS

Statement ==
  {"idle", "inspect", "create", "quick_check", "validate_identity",
   "load_metadata", "configure_durable", "select_view", "begin", "commit",
   "remember"}

(* The statements of a write, and those that only an opening executes.     *)
WritePc == {"begin", "commit", "remember"}
OpeningPc == {"inspect", "create", "configure_durable"}

SessionTypeOK ==
  /\ sidecar \in Sidecar \cup {NoSidecar}
  /\ writer \in Handle \cup {NoHandle}
  /\ pc \in [Handle -> Statement]
  /\ request \in [Handle -> Write \cup {NoWrite}]
  /\ local \in [Handle -> Metadata \cup {NoMetadata}]
  /\ next_revision \in [Handle -> 0..LastRevision]
  /\ cache \in [Handle -> Metadata \cup {NoMetadata}]
  /\ shown \in [Handle -> View \cup {NoView}]
  /\ behind \subseteq Handle
  /\ commits \in 0..Uncounted

(* SQLite's lock is the writing handle's.                                  *)
LockIsTaken(h) == writer = h <=> pc[h] = "commit"

(* What a call has established before the statement it executes next.      *)
CallOK(h) ==
  /\ pc[h] \in OpeningPc => cache[h] = NoMetadata
  /\ pc[h] \in WritePc \cup {"select_view"} => cache[h] # NoMetadata
  /\ pc[h] \notin {"idle", "inspect", "create"} => sidecar # NoSidecar
  /\ pc[h] = "configure_durable" <=> local[h] # NoMetadata
  /\ pc[h] \in WritePc =>
       /\ request[h] \in Write /\ Valid(request[h][1])
       /\ next_revision[h] = cache[h].revision + 1

(* What a handle holds is of a sidecar of its own project.                 *)
HoldsOwn(h) ==
  /\ cache[h] # NoMetadata =>
       /\ sidecar # NoSidecar /\ Belongs(h)
       /\ cache[h].project_uuid = ProjectOf[h]
  /\ local[h] # NoMetadata =>
       /\ sidecar # NoSidecar /\ Belongs(h)
       /\ local[h].project_uuid = ProjectOf[h]
  /\ shown[h] # NoView => cache[h] # NoMetadata

(* A handle that is not behind holds the committed metadata, or is about   *)
(* to remember them.                                                       *)
Promised(h) ==
  [project_uuid |-> ProjectOf[h], revision |-> next_revision[h],
   modified_utc |-> request[h][2]]

UpToDate(h) ==
  h \notin behind =>
    /\ local[h] # NoMetadata => local[h] = MetadataOf(sidecar)
    /\ cache[h] # NoMetadata =>
         (IF pc[h] = "remember" THEN Promised(h) ELSE cache[h]) = MetadataOf(sidecar)

CommitsAreCounted ==
  Counted => commits = IF sidecar = NoSidecar THEN 0 ELSE sidecar.revision

HandleInv(h) == LockIsTaken(h) /\ CallOK(h) /\ HoldsOwn(h) /\ UpToDate(h)

SessionInv ==
  /\ SessionTypeOK
  /\ CommitsAreCounted
  /\ ViewIsOneWrite
  /\ \A h \in Handle : HandleInv(h)

(* A step of one handle that changes neither the sidecar nor what another  *)
(* handle holds has to establish the invariant for that handle only.       *)
OnlyTouches(h) ==
  /\ \A g \in Handle \ {h} :
       /\ pc'[g] = pc[g] /\ request'[g] = request[g] /\ local'[g] = local[g]
       /\ next_revision'[g] = next_revision[g] /\ cache'[g] = cache[g]
       /\ shown'[g] = shown[g] /\ (g \in behind' <=> g \in behind)
       /\ (writer' = g <=> writer = g)

LEMMA OthersKeep ==
  ASSUME NEW h \in Handle, SessionInv, OnlyTouches(h),
         UNCHANGED <<sidecar, commits>>, SessionTypeOK', HandleInv(h)'
  PROVE  SessionInv'
<1>1. ASSUME NEW g \in Handle \ {h}
      PROVE  HandleInv(g)'
  <2>1. HandleInv(g)
    BY DEF SessionInv
  <2> QED
    BY <2>1 DEF OnlyTouches, HandleInv, LockIsTaken, CallOK, HoldsOwn, UpToDate,
                Belongs, Valid, MetadataOf, Promised
<1>2. CommitsAreCounted' /\ ViewIsOneWrite'
  BY DEF SessionInv, CommitsAreCounted, Counted, ViewIsOneWrite, Valid
<1> QED
  BY <1>1, <1>2 DEF SessionInv

(* The statements of an opening, a reading and a verification.             *)
LEMMA ReadsKeep ==
  ASSUME NEW h \in Handle, SessionInv,
         \/ CallOpen(h) \/ Inspect(h) \/ VerifyQuickCheck(h)
         \/ ValidateIdentity(h) \/ CallRead(h) \/ SelectView(h) \/ CallVerify(h)
         \/ CallWriteRefused(h)
  PROVE  SessionInv'
<1> USE SessionAssumption DEF SessionInv, Goto, Call
<1>1. SessionTypeOK'
  BY DEF CallOpen, Inspect, VerifyQuickCheck, ValidateIdentity, CallRead, SelectView,
         CallVerify, CallWriteRefused, SessionTypeOK, Statement, Valid
<1>2. OnlyTouches(h) /\ UNCHANGED <<sidecar, commits>>
  BY DEF CallOpen, Inspect, VerifyQuickCheck, ValidateIdentity, CallRead, SelectView,
         CallVerify, CallWriteRefused, SessionTypeOK, OnlyTouches
<1>3. HandleInv(h)'
  BY DEF CallOpen, Inspect, VerifyQuickCheck, ValidateIdentity, CallRead, SelectView,
         CallVerify, CallWriteRefused, SessionTypeOK, HandleInv, LockIsTaken, CallOK,
         HoldsOwn, UpToDate, Belongs, MetadataOf, Promised, WritePc, OpeningPc,
         Statement, Valid
<1> QED
  BY <1>1, <1>2, <1>3, OthersKeep

(* load_metadata, and the beginning, the lock and the end of a write.      *)
LEMMA LoadKeeps ==
  ASSUME NEW h \in Handle, SessionInv, LoadMetadata(h)
  PROVE  SessionInv'
<1> USE SessionAssumption DEF SessionInv, Goto, LoadMetadata, Opening, SessionTypeOK
<1>1. sidecar.kind = "session" => MetadataOf(sidecar) \in Metadata
  BY DEF HandleInv, CallOK, Sidecar, Metadata, MetadataOf
<1>2. SessionTypeOK'
  BY <1>1 DEF Statement, Belongs
<1>3. OnlyTouches(h) /\ UNCHANGED <<sidecar, commits>>
  BY DEF OnlyTouches
<1>4. HandleInv(h)'
  BY <1>1 DEF HandleInv, LockIsTaken, CallOK, HoldsOwn, UpToDate, Belongs, MetadataOf,
              WritePc, OpeningPc, Statement, Valid
<1> QED
  BY <1>2, <1>3, <1>4, OthersKeep DEF SessionTypeOK

LEMMA WriteStepsKeep ==
  ASSUME NEW h \in Handle, SessionInv,
         CallWrite(h) \/ BeginImmediate(h) \/ BusyTimeout(h)
  PROVE  SessionInv'
<1> USE SessionAssumption DEF SessionInv, Goto, Call
<1>1. SessionTypeOK'
  <2>1. CASE CallWrite(h)
    BY <2>1 DEF CallWrite, SessionTypeOK, Statement, Accepted, Metadata
  <2>2. CASE BeginImmediate(h) \/ BusyTimeout(h)
    BY <2>2 DEF BeginImmediate, BusyTimeout, SessionTypeOK, Statement
  <2> QED
    BY <2>1, <2>2
<1>2. OnlyTouches(h) /\ UNCHANGED <<sidecar, commits>>
  BY DEF CallWrite, BeginImmediate, BusyTimeout, SessionTypeOK, OnlyTouches,
         HandleInv, LockIsTaken
<1>3. HandleInv(h)'
  <2> USE DEF SessionTypeOK, HandleInv, LockIsTaken, CallOK, HoldsOwn, UpToDate, Belongs,
              MetadataOf, Promised, WritePc, OpeningPc, Statement, Valid
  <2>1. CASE CallWrite(h)
    BY <2>1 DEF CallWrite, Accepted
  <2>2. CASE BeginImmediate(h) \/ BusyTimeout(h)
    BY <2>2 DEF BeginImmediate, BusyTimeout
  <2> QED
    BY <2>1, <2>2
<1> QED
  BY <1>1, <1>2, <1>3, OthersKeep

(* What the handle remembers.                                              *)
LEMMA RememberedIsPromised ==
  ASSUME NEW h \in Handle, SessionInv, pc[h] \in WritePc
  PROVE  Promised(h) \in Metadata /\ Remembered(h) = Promised(h)
<1>1. cache[h] \in Metadata /\ cache[h].project_uuid = ProjectOf[h]
  BY DEF SessionInv, SessionTypeOK, HandleInv, CallOK, HoldsOwn
<1>2. next_revision[h] \in 0..LastRevision /\ request[h] \in Write
  BY DEF SessionInv, SessionTypeOK, HandleInv, CallOK
<1>3. Promised(h) \in Metadata
  BY <1>2, SessionAssumption DEF Promised, Metadata
<1>4. /\ Remembered(h) \in Metadata
      /\ Remembered(h).project_uuid = ProjectOf[h]
      /\ Remembered(h).revision = next_revision[h]
      /\ Remembered(h).modified_utc = request[h][2]
  BY <1>1, <1>2, SessionAssumption DEF Remembered, Metadata
<1>5. Remembered(h) = Promised(h)
  BY <1>4 DEF Promised, Metadata
<1> QED
  BY <1>3, <1>5

LEMMA RememberKeeps ==
  ASSUME NEW h \in Handle, SessionInv, Remember(h)
  PROVE  SessionInv'
<1> USE SessionAssumption DEF SessionInv, Goto, Remember
<1>1. Promised(h) \in Metadata /\ Remembered(h) = Promised(h)
  BY RememberedIsPromised DEF WritePc
<1>2. cache' = [cache EXCEPT ![h] = Promised(h)]
  BY <1>1
<1>3. SessionTypeOK'
  BY <1>1, <1>2 DEF SessionTypeOK, Statement
<1>4. OnlyTouches(h) /\ UNCHANGED <<sidecar, commits>>
  BY DEF SessionTypeOK, OnlyTouches
<1>5. HandleInv(h)'
  BY <1>1, <1>2 DEF SessionTypeOK, HandleInv, LockIsTaken, CallOK, HoldsOwn, UpToDate,
                    Belongs, MetadataOf, Promised, WritePc, OpeningPc, Valid
<1> QED
  BY <1>3, <1>4, <1>5, OthersKeep

LEMMA FailuresKeep ==
  ASSUME NEW h \in Handle, SessionInv, StatementFails(h) \/ Stop(h)
  PROVE  SessionInv'
<1> USE SessionAssumption DEF SessionInv, Goto, StatementFails, Stop, Released
<1>1. SessionTypeOK'
  BY DEF SessionTypeOK, Statement
<1>2. OnlyTouches(h) /\ UNCHANGED <<sidecar, commits>>
  BY DEF SessionTypeOK, OnlyTouches
<1>3. HandleInv(h)'
  BY DEF SessionTypeOK, HandleInv, LockIsTaken, CallOK, HoldsOwn, UpToDate, Belongs,
         MetadataOf, Promised, WritePc, OpeningPc, Statement, Valid
<1> QED
  BY <1>1, <1>2, <1>3, OthersKeep

(* A sidecar appears while nobody holds anything.                          *)
LEMMA CreateKeeps ==
  ASSUME NEW h \in Handle, SessionInv, Create(h)
  PROVE  SessionInv'
<1> USE SessionAssumption DEF SessionInv, Goto, Create
<1>1. NewSidecar(ProjectOf[h]) \in Sidecar
  BY DEF NewSidecar, Sidecar
<1>2. SessionTypeOK'
  BY <1>1 DEF SessionTypeOK, Statement
<1>3. CASE sidecar = NoSidecar
  <2>1. sidecar' = NewSidecar(ProjectOf[h]) /\ sidecar' # NoSidecar
    BY <1>1, <1>3
  <2>2. CommitsAreCounted' /\ ViewIsOneWrite'
    BY <1>3, <2>1 DEF CommitsAreCounted, Counted, ViewIsOneWrite, NewSidecar
  <2>3. ASSUME NEW g \in Handle
        PROVE  HandleInv(g)'
    BY <1>3, <2>1 DEF SessionTypeOK, HandleInv, LockIsTaken, CallOK, HoldsOwn, UpToDate,
                      Statement, WritePc, OpeningPc
  <2> QED
    BY <1>2, <2>2, <2>3
<1>4. CASE sidecar # NoSidecar
  <2>1. OnlyTouches(h) /\ UNCHANGED <<sidecar, commits>>
    BY <1>4 DEF SessionTypeOK, OnlyTouches
  <2>2. HandleInv(h)'
    BY <1>4 DEF SessionTypeOK, HandleInv, LockIsTaken, CallOK, HoldsOwn, UpToDate, Belongs,
                MetadataOf, Promised, WritePc, OpeningPc, Valid
  <2> QED
    BY <1>2, <2>1, <2>2, OthersKeep
<1> QED
  BY <1>3, <1>4

(* The journal configuration is no metadata.                               *)
LEMMA ConfigureKeeps ==
  ASSUME NEW h \in Handle, SessionInv, ConfigureDurable(h)
  PROVE  SessionInv'
<1> USE SessionAssumption DEF SessionInv, Goto, ConfigureDurable
<1>1. sidecar \in Sidecar /\ local[h] \in Metadata
  BY DEF SessionTypeOK, HandleInv, CallOK
<1>2. /\ sidecar' \in Sidecar
      /\ sidecar'.kind = sidecar.kind
      /\ sidecar'.project_uuid = sidecar.project_uuid
      /\ sidecar'.revision = sidecar.revision
      /\ sidecar'.modified_utc = sidecar.modified_utc
      /\ sidecar'.view = sidecar.view
  BY <1>1 DEF Sidecar
<1>3. SessionTypeOK'
  BY <1>1, <1>2 DEF SessionTypeOK, Statement
<1>4. CommitsAreCounted' /\ ViewIsOneWrite'
  BY <1>1, <1>2 DEF CommitsAreCounted, Counted, ViewIsOneWrite, Valid
<1>5. MetadataOf(sidecar)' = MetadataOf(sidecar)
  BY <1>2 DEF MetadataOf
<1>6. \A g \in Handle : Belongs(g)' <=> Belongs(g)
  BY <1>2 DEF Belongs
<1>7. ASSUME NEW g \in Handle \ {h}
      PROVE  HandleInv(g)'
  BY <1>1, <1>2, <1>5, <1>6
     DEF SessionTypeOK, HandleInv, LockIsTaken, CallOK, HoldsOwn, UpToDate, Valid, Promised
<1>8. HandleInv(h)'
  <2>1. local[h].project_uuid = ProjectOf[h]
    BY <1>1 DEF HandleInv, HoldsOwn
  <2> QED
    BY <1>1, <1>2, <1>5, <1>6, <2>1
       DEF SessionTypeOK, HandleInv, LockIsTaken, CallOK, HoldsOwn, UpToDate, WritePc,
           OpeningPc, Statement
<1> QED
  BY <1>3, <1>4, <1>7, <1>8

(* A commit puts its handle, the lock's holder, at the head and everybody  *)
(* else that has loaded metadata behind.                                   *)
LEMMA CommitKeeps ==
  ASSUME NEW h \in Handle, SessionInv, Commit(h)
  PROVE  SessionInv'
<1> USE SessionAssumption DEF SessionInv, Goto, Commit
<1>1. /\ sidecar \in Sidecar /\ sidecar # NoSidecar
      /\ cache[h] \in Metadata /\ cache[h].project_uuid = ProjectOf[h]
      /\ Belongs(h)
      /\ request[h] \in Write /\ Valid(request[h][1])
      /\ request[h][1] \in View
      /\ next_revision[h] = cache[h].revision + 1
      /\ next_revision[h] \in 0..LastRevision
  BY DEF SessionTypeOK, HandleInv, CallOK, HoldsOwn, WritePc, Valid
<1>2. /\ sidecar' \in Sidecar /\ sidecar' # NoSidecar
      /\ sidecar'.kind = "session"
      /\ sidecar'.project_uuid = sidecar.project_uuid
      /\ sidecar'.revision = next_revision[h]
      /\ sidecar'.modified_utc = request[h][2]
      /\ sidecar'.view = request[h][1]
  BY <1>1 DEF Updated, Sidecar, Belongs
<1>3. /\ pc' = [pc EXCEPT ![h] = "remember"] /\ writer' = NoHandle
      /\ UNCHANGED <<request, local, next_revision, cache, shown>>
  OBVIOUS
<1>4. MetadataOf(sidecar)' = Promised(h)'
  BY <1>1, <1>2 DEF MetadataOf, Promised, Belongs
<1>5. CommitsAreCounted' /\ commits' \in 0..Uncounted
  <2>1. CASE h \in behind
    BY <2>1 DEF CommitsAreCounted, Counted, Uncounted
  <2>2. CASE h \notin behind /\ ~Counted
    BY <2>2 DEF CommitsAreCounted, Counted, Uncounted
  <2>3. CASE h \notin behind /\ Counted
    <3>1. cache[h].revision = sidecar.revision
      BY <1>1, <2>3 DEF HandleInv, UpToDate, MetadataOf
    <3>2. commits = sidecar.revision /\ commits' = next_revision[h]
      BY <1>1, <2>3, <3>1 DEF CommitsAreCounted, Sidecar
    <3> QED
      BY <1>1, <1>2, <3>2 DEF CommitsAreCounted, Uncounted
  <2> QED
    BY <2>1, <2>2, <2>3
<1>6. SessionTypeOK'
  BY <1>2, <1>3, <1>5 DEF SessionTypeOK, Statement
<1>7. ViewIsOneWrite'
  <2>1. request[h] = <<sidecar'.view, sidecar'.modified_utc>>
    BY <1>1, <1>2
  <2> QED
    BY <1>1, <2>1 DEF ViewIsOneWrite, Valid
<1>8. \A g \in Handle : Belongs(g)' <=> Belongs(g)
  BY <1>1, <1>2 DEF Belongs
<1>9. ASSUME NEW g \in Handle \ {h}
      PROVE  HandleInv(g)'
  <2>1. HandleInv(g) /\ writer # g
    BY DEF HandleInv, LockIsTaken
  <2>2. g \notin behind' => cache[g] = NoMetadata /\ local[g] = NoMetadata
    OBVIOUS
  <2>3. pc'[g] = pc[g]
    BY DEF SessionTypeOK
  <2> QED
    BY <1>2, <1>3, <1>8, <2>1, <2>2, <2>3
       DEF HandleInv, LockIsTaken, CallOK, HoldsOwn, UpToDate, Valid
<1>10. HandleInv(h)'
  <2>1. pc'[h] = "remember" /\ cache[h] # NoMetadata /\ local[h] = NoMetadata
    BY <1>1 DEF SessionTypeOK, HandleInv, CallOK
  <2> QED
    BY <1>1, <1>2, <1>3, <1>4, <1>8, <2>1
       DEF HandleInv, LockIsTaken, CallOK, HoldsOwn, UpToDate, WritePc, OpeningPc, Valid
<1> QED
  BY <1>5, <1>6, <1>7, <1>9, <1>10

LEMMA InitEstablishes == SessionInit => SessionInv
<1> SUFFICES ASSUME SessionInit PROVE SessionInv
  OBVIOUS
<1> USE SessionAssumption, EarlierWrites DEF SessionInit
<1>1. SessionTypeOK
  BY DEF SessionTypeOK, Statement, Sidecar, Uncounted
<1>2. CommitsAreCounted /\ ViewIsOneWrite
  BY DEF CommitsAreCounted, ViewIsOneWrite, Valid
<1>3. \A h \in Handle : HandleInv(h)
  BY DEF HandleInv, LockIsTaken, CallOK, HoldsOwn, UpToDate, WritePc, OpeningPc
<1> QED
  BY <1>1, <1>2, <1>3 DEF SessionInv

LEMMA StepKeeps == SessionInv /\ [SessionNext]_vars => SessionInv'
<1> SUFFICES ASSUME SessionInv, [SessionNext]_vars PROVE SessionInv'
  OBVIOUS
<1>1. CASE SessionNext
  BY <1>1, ReadsKeep, LoadKeeps, WriteStepsKeep, RememberKeeps, FailuresKeep, CreateKeeps,
     ConfigureKeeps, CommitKeeps DEF SessionNext, Step
<1>2. CASE UNCHANGED vars
  BY <1>2 DEF vars, SessionInv, SessionTypeOK, CommitsAreCounted, Counted, ViewIsOneWrite,
              Valid, HandleInv, LockIsTaken, CallOK, HoldsOwn, UpToDate, Belongs,
              MetadataOf, Promised
<1> QED
  BY <1>1, <1>2

LEMMA SessionInvariant == SessionSpec => []SessionInv
BY InitEstablishes, StepKeeps, PTL DEF SessionSpec

(* The sidecar, the lock and every handle keep their types.                *)
THEOREM SessionTyping == SessionSpec => []SessionTypeOK
<1>1. SessionInv => SessionTypeOK
  BY DEF SessionInv
<1> QED
  BY <1>1, SessionInvariant, PTL

(* Whatever interleaves, fails or dies, the stored view and its stamp are  *)
(* those of one accepted write_view_state.                                 *)
THEOREM ViewsAreWhole == SessionSpec => []ViewIsOneWrite
<1>1. SessionInv => ViewIsOneWrite
  BY DEF SessionInv
<1> QED
  BY <1>1, SessionInvariant, PTL

(* Until a handle commits from outdated metadata the revision counts the   *)
(* commits, and handles that are not behind remember the file's metadata.  *)
THEOREM RevisionsCount == SessionSpec => []RevisionCountsWrites
<1>1. SessionInv => RevisionCountsWrites
  BY DEF SessionInv, RevisionCountsWrites, CommitsAreCounted, HandleInv, UpToDate
<1> QED
  BY <1>1, SessionInvariant, PTL

(* open_or_create and write_view_state act on the sidecar of the caller's  *)
(* project only: another one is neither shown nor changed.                 *)
THEOREM ForeignSidecarsUntouched == SessionSpec => ForeignSidecarUntouched
<1>1. SessionInv =>
        \A h \in Handle :
          cache[h] # NoMetadata \/ shown[h] # NoView =>
            sidecar.kind = "session" /\ sidecar.project_uuid = ProjectOf[h]
  BY DEF SessionInv, HandleInv, HoldsOwn, Belongs
<1>2. SessionInv /\ [SessionNext]_vars =>
        [sidecar # NoSidecar /\ sidecar' # sidecar =>
           \E h \in Handle :
             cache'[h] # NoMetadata /\ sidecar.project_uuid = ProjectOf[h]]_vars
  <2> SUFFICES ASSUME SessionInv, SessionNext, sidecar # NoSidecar, sidecar' # sidecar
               PROVE  \E h \in Handle :
                        cache'[h] # NoMetadata /\ sidecar.project_uuid = ProjectOf[h]
    OBVIOUS
  <2>1. PICK h \in Handle : ConfigureDurable(h) \/ Commit(h)
    BY DEF SessionNext, Step, CallOpen, Inspect, Create, VerifyQuickCheck,
           ValidateIdentity, LoadMetadata, SelectView, CallRead, CallVerify, CallWrite,
           CallWriteRefused, BeginImmediate, BusyTimeout, Remember, StatementFails, Stop
  <2>2. HandleInv(h)
    BY DEF SessionInv
  <2>3. CASE ConfigureDurable(h)
    BY <2>2, <2>3 DEF ConfigureDurable, HandleInv, CallOK, HoldsOwn, Belongs, SessionInv,
                      SessionTypeOK
  <2>4. CASE Commit(h)
    BY <2>2, <2>4 DEF Commit, HandleInv, CallOK, HoldsOwn, Belongs, WritePc
  <2> QED
    BY <2>1, <2>3, <2>4
<1> QED
  BY <1>1, <1>2, SessionInvariant, PTL DEF SessionSpec, ForeignSidecarUntouched

=============================================================================

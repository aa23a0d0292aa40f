--------------------------- MODULE Publication_proofs ---------------------------
(***************************************************************************)
(* Any number of callers publish complete files only, never two live ones, *)
(* and a project has one creator.                                          *)
(*                                                                         *)
(* The inductive invariant follows the file of a caller: its staging       *)
(* directory is its own, the file in it is ready from the link on, and     *)
(* while the caller looks at what it linked, the destination names just    *)
(* that file, since nobody links over a name and nobody else withdraws it. *)
(***************************************************************************)
EXTENDS Publication, TLAPS

(* Steps at which the client's file lies at the destination, is ready, and *)
(* lies in its staging directory.                                          *)
AtDestination == {"open_published", "equivalent", "withdraw"}
BuiltPc == {"link", "inspect_winner"} \cup AtDestination
StagedPc == {"build", "remove_staging"} \cup BuiltPc

StagingOK(c) ==
  /\ staged[c] # NoFile <=> pc[c] \in StagedPc
  /\ pc[c] \in BuiltPc => staged[c] \in ready
  /\ pc[c] \in AtDestination => path = staged[c]
  /\ \A d \in Client : staged[c] = staged[d] /\ staged[c] # NoFile => c = d

(* Only a sidecar's creation opens what another caller has published.      *)
CallOK(c) ==
  /\ pc[c] \notin {"idle", "open_existing"} => creating[c]
  /\ pc[c] \notin {"idle", "remove_staging"} => handle[c] = NoFile
  /\ verdict[c] = "open_winner" => sidecar /\ handle[c] = NoFile
  /\ pc[c] = "inspect_existing" => sidecar
  /\ pc[c] = "open_existing" => creating[c] = sidecar

(* The file that a caller has created is no other caller's.                *)
CreatedIsOwn(c) ==
  ~sidecar /\ creating[c] /\ handle[c] # NoFile =>
    \A d \in Client \ {c} :
      /\ staged[d] # handle[c]
      /\ creating[d] => handle[d] # handle[c]

ClientInv(c) == StagingOK(c) /\ CallOK(c) /\ CreatedIsOwn(c)

PublicationInv ==
  /\ PublicationTypeOK
  /\ PublishedIsComplete
  /\ OneLiveFile
  /\ \A c \in Client : ClientInv(c)

(* A call begins without a handle and without a staging directory.         *)
LEMMA BeginKeeps ==
  ASSUME NEW c \in Client, PublicationInv,
         CallCreate(c) \/ CallOpen(c)
  PROVE  PublicationInv'
<1> USE PublicationAssumption DEF PublicationInv, ClientInv, Goto, Decide, CleanUp, Return,
        disk, history, PublicationTypeOK,
        CallCreate, CallOpen, Begin
<1>1. PublicationTypeOK'
  BY DEF Verdict, PublishedIsComplete, StagingOK, StagedPc, BuiltPc
<1>2. PublishedIsComplete' /\ OneLiveFile'
  BY DEF PublishedIsComplete, OneLiveFile, StagingOK, CallOK, StagedPc, BuiltPc, AtDestination
<1>3. ASSUME NEW e \in Client
      PROVE  StagingOK(e)'
  BY DEF StagingOK, CallOK, StagedPc, BuiltPc, AtDestination, PublishedIsComplete
<1>4. ASSUME NEW e \in Client
      PROVE  CallOK(e)'
  BY DEF StagingOK, CallOK, StagedPc, BuiltPc, AtDestination
<1>5. ASSUME NEW e \in Client
      PROVE  CreatedIsOwn(e)'
  BY DEF StagingOK, CallOK, CreatedIsOwn, StagedPc, BuiltPc, AtDestination
<1> QED
  BY <1>1, <1>2, <1>3, <1>4, <1>5

(* Looking at the destination changes nothing but the call.                *)
LEMMA LooksKeep ==
  ASSUME NEW c \in Client, PublicationInv,
         InspectExisting(c) \/ InspectWinner(c) \/ Equivalent(c)
  PROVE  PublicationInv'
<1> USE PublicationAssumption DEF PublicationInv, ClientInv, Goto, Decide, CleanUp, Return,
        disk, history, PublicationTypeOK,
        InspectExisting, InspectWinner, Equivalent, LoserVerdict
<1>1. PublicationTypeOK'
  BY DEF Verdict, PublishedIsComplete, StagingOK, StagedPc, BuiltPc
<1>2. PublishedIsComplete' /\ OneLiveFile'
  BY DEF PublishedIsComplete, OneLiveFile, StagingOK, CallOK, StagedPc, BuiltPc, AtDestination
<1>3. ASSUME NEW e \in Client
      PROVE  StagingOK(e)'
  BY DEF StagingOK, CallOK, StagedPc, BuiltPc, AtDestination, PublishedIsComplete
<1>4. ASSUME NEW e \in Client
      PROVE  CallOK(e)'
  BY DEF StagingOK, CallOK, StagedPc, BuiltPc, AtDestination
<1>5. ASSUME NEW e \in Client
      PROVE  CreatedIsOwn(e)'
  BY DEF StagingOK, CallOK, CreatedIsOwn, StagedPc, BuiltPc, AtDestination
<1> QED
  BY <1>1, <1>2, <1>3, <1>4, <1>5

(* A new file is nobody else's.                                            *)
LEMMA MakeStagingKeeps ==
  ASSUME NEW c \in Client, PublicationInv,
         MakeStaging(c)
  PROVE  PublicationInv'
<1> USE PublicationAssumption DEF PublicationInv, ClientInv, Goto, Decide, CleanUp, Return,
        disk, history, PublicationTypeOK,
        MakeStaging, AfterStaging
<1>1. PublicationTypeOK'
  BY DEF Verdict, PublishedIsComplete, StagingOK, StagedPc, BuiltPc
<1>2. PublishedIsComplete' /\ OneLiveFile'
  BY DEF PublishedIsComplete, OneLiveFile, StagingOK, CallOK, StagedPc, BuiltPc, AtDestination
<1>3. ASSUME NEW e \in Client
      PROVE  StagingOK(e)'
  BY DEF StagingOK, CallOK, StagedPc, BuiltPc, AtDestination, PublishedIsComplete
<1>4. ASSUME NEW e \in Client
      PROVE  CallOK(e)'
  BY DEF StagingOK, CallOK, StagedPc, BuiltPc, AtDestination
<1>5. ASSUME NEW e \in Client
      PROVE  CreatedIsOwn(e)'
  BY DEF StagingOK, CallOK, CreatedIsOwn, StagedPc, BuiltPc, AtDestination
<1> QED
  BY <1>1, <1>2, <1>3, <1>4, <1>5

(* A built file is ready.                                                  *)
LEMMA BuildKeeps ==
  ASSUME NEW c \in Client, PublicationInv,
         Build(c)
  PROVE  PublicationInv'
<1> USE PublicationAssumption DEF PublicationInv, ClientInv, Goto, Decide, CleanUp, Return,
        disk, history, PublicationTypeOK,
        Build
<1>1. PublicationTypeOK'
  BY DEF Verdict, PublishedIsComplete, StagingOK, StagedPc, BuiltPc
<1>2. PublishedIsComplete' /\ OneLiveFile'
  BY DEF PublishedIsComplete, OneLiveFile, StagingOK, CallOK, StagedPc, BuiltPc, AtDestination
<1>3. ASSUME NEW e \in Client
      PROVE  StagingOK(e)'
  BY DEF StagingOK, CallOK, StagedPc, BuiltPc, AtDestination, PublishedIsComplete
<1>4. ASSUME NEW e \in Client
      PROVE  CallOK(e)'
  BY DEF StagingOK, CallOK, StagedPc, BuiltPc, AtDestination
<1>5. ASSUME NEW e \in Client
      PROVE  CreatedIsOwn(e)'
  BY DEF StagingOK, CallOK, CreatedIsOwn, StagedPc, BuiltPc, AtDestination
<1> QED
  BY <1>1, <1>2, <1>3, <1>4, <1>5

(* A link takes a free name only.                                          *)
LEMMA LinkKeeps ==
  ASSUME NEW c \in Client, PublicationInv,
         Link(c)
  PROVE  PublicationInv'
<1> USE PublicationAssumption DEF PublicationInv, ClientInv, Goto, Decide, CleanUp, Return,
        disk, history, PublicationTypeOK,
        Link
<1>1. PublicationTypeOK'
  BY DEF Verdict, PublishedIsComplete, StagingOK, StagedPc, BuiltPc
<1>2. PublishedIsComplete' /\ OneLiveFile'
  BY DEF PublishedIsComplete, OneLiveFile, StagingOK, CallOK, StagedPc, BuiltPc, AtDestination
<1>3. ASSUME NEW e \in Client
      PROVE  StagingOK(e)'
  BY DEF StagingOK, CallOK, StagedPc, BuiltPc, AtDestination, PublishedIsComplete
<1>4. ASSUME NEW e \in Client
      PROVE  CallOK(e)'
  BY DEF StagingOK, CallOK, StagedPc, BuiltPc, AtDestination
<1>5. ASSUME NEW e \in Client
      PROVE  CreatedIsOwn(e)'
  BY DEF StagingOK, CallOK, CreatedIsOwn, StagedPc, BuiltPc, AtDestination
<1> QED
  BY <1>1, <1>2, <1>3, <1>4, <1>5

(* What the publisher opens at the destination is the file it has staged.  *)
LEMMA OpenPublishedKeeps ==
  ASSUME NEW c \in Client, PublicationInv,
         OpenPublished(c)
  PROVE  PublicationInv'
<1> USE PublicationAssumption DEF PublicationInv, ClientInv, Goto, Decide, CleanUp, Return,
        disk, history, PublicationTypeOK,
        OpenPublished
<1>1. PublicationTypeOK'
  BY DEF Verdict, PublishedIsComplete, StagingOK, StagedPc, BuiltPc
<1>2. PublishedIsComplete' /\ OneLiveFile'
  BY DEF PublishedIsComplete, OneLiveFile, StagingOK, CallOK, StagedPc, BuiltPc, AtDestination
<1>3. ASSUME NEW e \in Client
      PROVE  StagingOK(e)'
  BY DEF StagingOK, CallOK, StagedPc, BuiltPc, AtDestination, PublishedIsComplete
<1>4. ASSUME NEW e \in Client
      PROVE  CallOK(e)'
  BY DEF StagingOK, CallOK, StagedPc, BuiltPc, AtDestination
<1>5. ASSUME NEW e \in Client
      PROVE  CreatedIsOwn(e)'
  BY DEF StagingOK, CallOK, CreatedIsOwn, StagedPc, BuiltPc, AtDestination
<1> QED
  BY <1>1, <1>2, <1>3, <1>4, <1>5

(* A caller withdraws the file it has staged, handles on it included.      *)
LEMMA WithdrawKeeps ==
  ASSUME NEW c \in Client, PublicationInv,
         Withdraw(c)
  PROVE  PublicationInv'
<1> USE PublicationAssumption DEF PublicationInv, ClientInv, Goto, Decide, CleanUp, Return,
        disk, history, PublicationTypeOK,
        Withdraw
<1>1. PublicationTypeOK'
  BY DEF Verdict, PublishedIsComplete, StagingOK, StagedPc, BuiltPc
<1>2. PublishedIsComplete' /\ OneLiveFile'
  BY DEF PublishedIsComplete, OneLiveFile, StagingOK, CallOK, StagedPc, BuiltPc, AtDestination
<1>3. ASSUME NEW e \in Client
      PROVE  StagingOK(e)'
  BY DEF StagingOK, CallOK, StagedPc, BuiltPc, AtDestination, PublishedIsComplete
<1>4. ASSUME NEW e \in Client
      PROVE  CallOK(e)'
  BY DEF StagingOK, CallOK, StagedPc, BuiltPc, AtDestination
<1>5. ASSUME NEW e \in Client
      PROVE  CreatedIsOwn(e)'
  BY DEF StagingOK, CallOK, CreatedIsOwn, StagedPc, BuiltPc, AtDestination
<1> QED
  BY <1>1, <1>2, <1>3, <1>4, <1>5

(* The staging directory goes, the file stays the caller's.                *)
LEMMA RemoveStagingKeeps ==
  ASSUME NEW c \in Client, PublicationInv,
         RemoveStaging(c)
  PROVE  PublicationInv'
<1> USE PublicationAssumption DEF PublicationInv, ClientInv, Goto, Decide, CleanUp, Return,
        disk, history, PublicationTypeOK,
        RemoveStaging
<1>1. PublicationTypeOK'
  BY DEF Verdict, PublishedIsComplete, StagingOK, StagedPc, BuiltPc
<1>2. PublishedIsComplete' /\ OneLiveFile'
  BY DEF PublishedIsComplete, OneLiveFile, StagingOK, CallOK, StagedPc, BuiltPc, AtDestination
<1>3. ASSUME NEW e \in Client
      PROVE  StagingOK(e)'
  BY DEF StagingOK, CallOK, StagedPc, BuiltPc, AtDestination, PublishedIsComplete
<1>4. ASSUME NEW e \in Client
      PROVE  CallOK(e)'
  BY DEF StagingOK, CallOK, StagedPc, BuiltPc, AtDestination
<1>5. ASSUME NEW e \in Client
      PROVE  CreatedIsOwn(e)'
  BY DEF StagingOK, CallOK, CreatedIsOwn, StagedPc, BuiltPc, AtDestination
<1> QED
  BY <1>1, <1>2, <1>3, <1>4, <1>5

(* The ordinary open.                                                      *)
LEMMA OpenExistingKeeps ==
  ASSUME NEW c \in Client, PublicationInv,
         OpenExisting(c)
  PROVE  PublicationInv'
<1> USE PublicationAssumption DEF PublicationInv, ClientInv, Goto, Decide, CleanUp, Return,
        disk, history, PublicationTypeOK,
        OpenExisting
<1>1. PublicationTypeOK'
  BY DEF Verdict, PublishedIsComplete, StagingOK, StagedPc, BuiltPc
<1>2. PublishedIsComplete' /\ OneLiveFile'
  BY DEF PublishedIsComplete, OneLiveFile, StagingOK, CallOK, StagedPc, BuiltPc, AtDestination
<1>3. ASSUME NEW e \in Client
      PROVE  StagingOK(e)'
  BY DEF StagingOK, CallOK, StagedPc, BuiltPc, AtDestination, PublishedIsComplete
<1>4. ASSUME NEW e \in Client
      PROVE  CallOK(e)'
  BY DEF StagingOK, CallOK, StagedPc, BuiltPc, AtDestination
<1>5. ASSUME NEW e \in Client
      PROVE  CreatedIsOwn(e)'
  BY DEF StagingOK, CallOK, CreatedIsOwn, StagedPc, BuiltPc, AtDestination
<1> QED
  BY <1>1, <1>2, <1>3, <1>4, <1>5

(* Acknowledgements, and the end of a handle or of a process.              *)
LEMMA OthersKeep ==
  ASSUME NEW c \in Client, PublicationInv,
         Acknowledge(c) \/ Close(c) \/ Crash(c)
  PROVE  PublicationInv'
<1> USE PublicationAssumption DEF PublicationInv, ClientInv, Goto, Decide, CleanUp, Return,
        disk, history, PublicationTypeOK,
        Acknowledge, Close, Crash
<1>1. PublicationTypeOK'
  BY DEF Verdict, PublishedIsComplete, StagingOK, StagedPc, BuiltPc
<1>2. PublishedIsComplete' /\ OneLiveFile'
  BY DEF PublishedIsComplete, OneLiveFile, StagingOK, CallOK, StagedPc, BuiltPc, AtDestination
<1>3. ASSUME NEW e \in Client
      PROVE  StagingOK(e)'
  BY DEF StagingOK, CallOK, StagedPc, BuiltPc, AtDestination, PublishedIsComplete
<1>4. ASSUME NEW e \in Client
      PROVE  CallOK(e)'
  BY DEF StagingOK, CallOK, StagedPc, BuiltPc, AtDestination
<1>5. ASSUME NEW e \in Client
      PROVE  CreatedIsOwn(e)'
  BY DEF StagingOK, CallOK, CreatedIsOwn, StagedPc, BuiltPc, AtDestination
<1> QED
  BY <1>1, <1>2, <1>3, <1>4, <1>5

LEMMA InitEstablishes == PublicationInit => PublicationInv
<1> SUFFICES ASSUME PublicationInit PROVE PublicationInv
  OBVIOUS
<1> USE PublicationAssumption DEF PublicationInit
<1>1. PublicationTypeOK
  BY DEF PublicationTypeOK, Verdict
<1>2. PublishedIsComplete /\ OneLiveFile
  BY DEF PublishedIsComplete, OneLiveFile
<1>3. \A c \in Client : ClientInv(c)
  BY DEF ClientInv, StagingOK, CallOK, CreatedIsOwn, StagedPc, BuiltPc, AtDestination
<1> QED
  BY <1>1, <1>2, <1>3 DEF PublicationInv

LEMMA StepKeeps ==
  PublicationInv /\ [PublicationNext]_publicationVars => PublicationInv'
<1> SUFFICES ASSUME PublicationInv, [PublicationNext]_publicationVars
             PROVE  PublicationInv'
  OBVIOUS
<1>1. CASE PublicationNext
  BY <1>1, BeginKeeps, LooksKeep, MakeStagingKeeps, BuildKeeps, LinkKeeps,
     OpenPublishedKeeps, WithdrawKeeps, RemoveStagingKeeps, OpenExistingKeeps, OthersKeep
     DEF PublicationNext, Step
<1>2. CASE UNCHANGED publicationVars
  BY <1>2 DEF publicationVars, disk, history, PublicationInv, PublicationTypeOK,
              PublishedIsComplete, OneLiveFile, ClientInv, StagingOK, CallOK, CreatedIsOwn
<1> QED
  BY <1>1, <1>2

LEMMA PublicationInvariant == PublicationSpec => []PublicationInv
BY InitEstablishes, StepKeeps, PTL DEF PublicationSpec

(* Names, inodes and handles keep their types.                             *)
THEOREM PublicationTyping == PublicationSpec => []PublicationTypeOK
<1>1. PublicationInv => PublicationTypeOK
  BY DEF PublicationInv
<1> QED
  BY <1>1, PublicationInvariant, PTL

(* However callers race, fail and die, nobody opens a database that is not *)
(* complete.                                                               *)
THEOREM NothingIncomplete == PublicationSpec => []PublishedIsComplete
<1>1. PublicationInv => PublishedIsComplete
  BY DEF PublicationInv
<1> QED
  BY <1>1, PublicationInvariant, PTL

(* Two files for one name are never both in use, unless the one was        *)
(* withdrawn by its publisher.                                             *)
THEOREM NeverTwoLive == PublicationSpec => []OneLiveFile
<1>1. PublicationInv => OneLiveFile
  BY DEF PublicationInv
<1> QED
  BY <1>1, PublicationInvariant, PTL

(* Of any number of callers one at most is told that it created a project. *)
THEOREM CreatorIsOne == PublicationSpec => []OneCreator
<1>1. PublicationInv => OneCreator
  BY DEF PublicationInv, OneCreator, ClientInv, CreatedIsOwn
<1> QED
  BY <1>1, PublicationInvariant, PTL

(* The removal after a failed open takes away the caller's own file only,  *)
(* although the name was compared in an earlier step.                      *)
OnlyOwnIsWithdrawn ==
  [][\A c \in Client : Withdraw(c) => path = staged[c]]_publicationVars

(* Nobody else takes the name between equivalent and remove.               *)
THEOREM OwnIsWithdrawn == PublicationSpec => OnlyOwnIsWithdrawn
<1>1. PublicationInv =>
        [\A c \in Client : Withdraw(c) => path = staged[c]]_publicationVars
  BY DEF PublicationInv, ClientInv, StagingOK, AtDestination, Withdraw
<1> QED
  BY <1>1, PublicationInvariant, PTL DEF PublicationSpec, OnlyOwnIsWithdrawn

==============================================================================

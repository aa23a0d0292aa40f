---------------------------- MODULE Workbench_proofs ----------------------------
(***************************************************************************)
(* For any sets of modes, contents and cameras and any bound on the jobs,  *)
(* the viewer shows what it calls verified, accepts nothing obsolete, and  *)
(* locks its interface exactly while work is under way.                    *)
(*                                                                         *)
(* The proof has two halves.  The queues: the jobs and posted results of a *)
(* controller hold at most one that is current, whatever is canceled,      *)
(* started, finished or dropped.  The window: what each handler makes of   *)
(* the fields.  They meet in the flags, which say whether a controller has *)
(* a current job, and in the job, which is for what the window shows.      *)
(***************************************************************************)
EXTENDS Workbench, SequenceTheorems, TLAPS

-----------------------------------------------------------------------------
(* The queues, p of the jobs and e of the posted results.                  *)

PoolLive(p, owner, i) == i \in 1..Len(p[owner]) /\ p[owner][i].current
EventLive(e, owner, i) ==
  i \in 1..Len(e) /\ e[i].job.owner = owner /\ e[i].job.current

LiveJobs(p, e, owner) ==
  {p[owner][i] : i \in {k \in 1..Len(p[owner]) : PoolLive(p, owner, k)}}
    \cup {e[i].job : i \in {k \in 1..Len(e) : EventLive(e, owner, k)}}

(* At most one place holds a current job of a controller.                  *)
OneLive(p, e, owner) ==
  \A i, j \in Nat :
    /\ PoolLive(p, owner, i) /\ PoolLive(p, owner, j) => i = j
    /\ EventLive(e, owner, i) /\ EventLive(e, owner, j) => i = j
    /\ ~(PoolLive(p, owner, i) /\ EventLive(e, owner, j))

(* A job is in the pool of its owner; a canceled result is not current.    *)
QueuesOK(p, e) ==
  /\ p \in [Controller -> Seq(Job)]
  /\ e \in Seq(Result)
  /\ \A owner \in Controller :
       /\ OneLive(p, e, owner)
       /\ \A i \in 1..Len(p[owner]) : p[owner][i].owner = owner
  /\ \A i \in 1..Len(e) : e[i].job.current => e[i].outcome # "canceled"

-----------------------------------------------------------------------------
(* The window.                                                             *)

Shows(u, scene) ==
  /\ IsVerified(scene)
  /\ scene.content = u.content
  /\ scene.camera = u.camera

(* A transition runs between two verified views of what the globe showed.  *)
BundleFits(u) ==
  u.unfold # NoBundle =>
    /\ Shows(u, u.unfold.globe_endpoint) /\ u.unfold.globe_endpoint.mode = Globe
    /\ Shows(u, u.unfold.flat_endpoint)
    /\ u.unfold.flat_endpoint.mode = u.unfold.target_mode
    /\ u.unfold.target_mode = u.unfold_target /\ u.unfold_target = u.last_flat_mode
    /\ ~u.scene_verified

WindowOK(u) ==
  /\ u \in UiType
  /\ u.unfold_enabled <=> UnfoldAllowed(u)
  /\ u.unfold_animating <=> u.unfold # NoBundle
  /\ u.unfold_preparing \/ u.unfold_animating => u.mode = Globe
  /\ ~(u.unfold_preparing /\ u.unfold_animating)
  /\ u.canvas_camera = u.camera
  /\ u.scene_verified => Shows(u, u.scene) /\ u.unfold = NoBundle /\ u.scene.mode = u.mode
  /\ BundleFits(u)

-----------------------------------------------------------------------------
(* A job that may still be accepted is for what the window shows.          *)
Fits(u, job) ==
  /\ job.content = u.content
  /\ job.camera = u.camera
  /\ job.owner = "unfold" => job.mode = u.last_flat_mode

WorkbenchInv ==
  /\ QueuesOK(pool, events)
  /\ WindowOK(ui)
  /\ world = [c \in Controller |-> ui.content]
  /\ button \in BOOLEAN
  /\ \A owner \in Controller : \A job \in LiveJobs(pool, events, owner) : Fits(ui, job)
  /\ ui.scene_busy <=> LiveJobs(pool, events, "scene") # {}
  /\ ui.unfold_preparing <=> LiveJobs(pool, events, "unfold") # {}

-----------------------------------------------------------------------------
(* The handlers of the window, field by field.                             *)

UiFields ==
  {"content", "mode", "last_flat_mode", "unfold_target", "camera", "scene_busy",
   "unfold_preparing", "unfold_animating", "scene_verified", "unfold_enabled",
   "scene", "unfold", "canvas_camera", "canvas_busy", "dragging"}

(* n is a window that differs from u in these fields at most.              *)
Changes(u, n, changed) ==
  /\ n \in UiType
  /\ \A f \in UiFields \ changed : n[f] = u[f]

LEMMA ChangesCompose ==
  ASSUME NEW u, NEW n, NEW m, NEW A, NEW B, Changes(u, n, A), Changes(n, m, B)
  PROVE  Changes(u, m, A \cup B)
BY DEF Changes

LEMMA UpdateFields ==
  ASSUME NEW u \in UiType
  PROVE  /\ Changes(u, UpdateUnfoldAction(u), {"unfold_enabled"})
         /\ UpdateUnfoldAction(u).unfold_enabled = UnfoldAllowed(u)
BY DEF UpdateUnfoldAction, UnfoldAllowed, UiType, Changes, UiFields

LEMMA RefreshFields ==
  ASSUME NEW u \in UiType
  PROVE  LET n == RefreshInteractionState(u)
         IN /\ Changes(u, n, {"canvas_busy", "unfold_enabled"})
            /\ n.unfold_enabled =
                 IF u.unfold_animating THEN u.unfold_enabled ELSE UnfoldAllowed(u)
BY DEF RefreshInteractionState, UpdateUnfoldAction, UnfoldAllowed, UiType, Changes, UiFields

LEMMA SceneBusyFields ==
  ASSUME NEW u \in UiType, NEW busy \in BOOLEAN
  PROVE  LET n == ApplySceneBusy(u, busy)
         IN /\ Changes(u, n, {"scene_busy", "canvas_busy", "unfold_enabled"})
            /\ n.scene_busy = busy
            /\ n.unfold_enabled =
                 IF u.unfold_animating THEN u.unfold_enabled ELSE UnfoldAllowed(n)
<1> DEFINE v == [u EXCEPT !.scene_busy = busy]
<1>1. Changes(u, v, {"scene_busy"}) /\ v.scene_busy = busy
  BY DEF UiType, Changes, UiFields
<1> HIDE DEF v
<1> DEFINE n == ApplySceneBusy(u, busy)
<1>2. n = RefreshInteractionState(v)
  BY DEF ApplySceneBusy, v
<1> HIDE DEF n
<1>3. /\ Changes(v, n, {"canvas_busy", "unfold_enabled"})
      /\ n.unfold_enabled = IF v.unfold_animating THEN v.unfold_enabled ELSE UnfoldAllowed(v)
  BY <1>1, <1>2, RefreshFields DEF Changes
<1>4. Changes(u, n, {"scene_busy", "canvas_busy", "unfold_enabled"})
  BY <1>1, <1>3 DEF Changes
<1>5. /\ n.scene_busy = busy /\ v.unfold_animating = u.unfold_animating
      /\ v.unfold_enabled = u.unfold_enabled
      /\ UnfoldAllowed(n) = UnfoldAllowed(v)
  BY <1>1, <1>3 DEF Changes, UiFields, UnfoldAllowed
<1> QED
  BY <1>3, <1>4, <1>5 DEF n

LEMMA UnfoldBusyFields ==
  ASSUME NEW u \in UiType, NEW busy \in BOOLEAN
  PROVE  LET n == ApplyUnfoldBusy(u, busy)
         IN /\ Changes(u, n, {"unfold_preparing", "canvas_busy", "unfold_enabled"})
            /\ n.unfold_preparing = busy
            /\ n.unfold_enabled =
                 IF u.unfold_animating THEN u.unfold_enabled ELSE UnfoldAllowed(n)
<1> DEFINE v == [u EXCEPT !.unfold_preparing = busy]
<1>1. Changes(u, v, {"unfold_preparing"}) /\ v.unfold_preparing = busy
  BY DEF UiType, Changes, UiFields
<1> HIDE DEF v
<1> DEFINE n == ApplyUnfoldBusy(u, busy)
<1>2. n = RefreshInteractionState(v)
  BY DEF ApplyUnfoldBusy, v
<1> HIDE DEF n
<1>3. /\ Changes(v, n, {"canvas_busy", "unfold_enabled"})
      /\ n.unfold_enabled = IF v.unfold_animating THEN v.unfold_enabled ELSE UnfoldAllowed(v)
  BY <1>1, <1>2, RefreshFields DEF Changes
<1>4. Changes(u, n, {"unfold_preparing", "canvas_busy", "unfold_enabled"})
  BY <1>1, <1>3 DEF Changes
<1>5. /\ n.unfold_preparing = busy /\ v.unfold_animating = u.unfold_animating
      /\ v.unfold_enabled = u.unfold_enabled
      /\ UnfoldAllowed(n) = UnfoldAllowed(v)
  BY <1>1, <1>3 DEF Changes, UiFields, UnfoldAllowed
<1> QED
  BY <1>3, <1>4, <1>5 DEF n

LEMMA ShowingFields ==
  ASSUME NEW u \in UiType, NEW scene \in Scene
  PROVE  LET n == Showing(u, scene)
         IN /\ Changes(u, n, {"scene", "unfold", "canvas_camera"})
            /\ n.scene = scene /\ n.unfold = NoBundle /\ n.canvas_camera = scene.camera
BY DEF Showing, UiType, Changes, UiFields, Scene

LEMMA InModeFields ==
  ASSUME NEW u \in UiType, NEW mode \in ViewMode
  PROVE  LET n == InMode(u, mode)
         IN /\ Changes(u, n, {"mode", "last_flat_mode"})
            /\ n.mode = mode
            /\ n.last_flat_mode = IF mode = Globe THEN u.last_flat_mode ELSE mode
BY DEF InMode, UiType, Changes, UiFields, ViewMode

(* A window without a transition, whose Unfold action is up to date, is    *)
(* right when what it calls verified is shown.                             *)
LEMMA WindowAtRest ==
  ASSUME NEW u \in UiType, ~u.unfold_animating, u.unfold = NoBundle,
         u.unfold_enabled = UnfoldAllowed(u), u.canvas_camera = u.camera,
         u.unfold_preparing => u.mode = Globe,
         u.scene_verified => Shows(u, u.scene) /\ u.scene.mode = u.mode
  PROVE  WindowOK(u)
BY DEF WindowOK, BundleFits

(* cancel_unfold_activity returns to the globe view the transition left.   *)
CancelChanges ==
  {"unfold_preparing", "unfold_animating", "scene", "unfold", "canvas_camera",
   "scene_verified", "unfold_enabled"}

LEMMA CancelOK ==
  ASSUME NEW u, WindowOK(u)
  PROVE  LET n == CancelUnfoldActivity(u)
         IN /\ WindowOK(n)
            /\ Changes(u, n, CancelChanges)
            /\ ~n.unfold_preparing /\ ~n.unfold_animating /\ n.unfold = NoBundle
<1> DEFINE idle == [u EXCEPT !.unfold_preparing = FALSE, !.unfold_animating = FALSE]
           n == CancelUnfoldActivity(u)
<1>1. u \in UiType
  BY DEF WindowOK
<1>2. /\ Changes(u, idle, {"unfold_preparing", "unfold_animating"})
      /\ ~idle.unfold_preparing /\ ~idle.unfold_animating
  BY <1>1 DEF UiType, Changes, UiFields
<1> HIDE DEF idle
<1>3. CASE u.unfold_animating
  <2> DEFINE globe == u.unfold.globe_endpoint
             shown == Showing(idle, globe)
             t == [shown EXCEPT !.scene_verified = IsVerified(globe)]
  <2>1. /\ globe \in Scene /\ Shows(u, globe) /\ globe.mode = Globe
        /\ u.mode = Globe
    BY <1>1, <1>3 DEF WindowOK, BundleFits, UiType, Bundle
  <2> HIDE DEF globe
  <2>2. /\ Changes(idle, shown, {"scene", "unfold", "canvas_camera"})
        /\ shown.scene = globe /\ shown.unfold = NoBundle
        /\ shown.canvas_camera = globe.camera
    BY <1>2, <2>1, ShowingFields DEF Changes
  <2> HIDE DEF shown
  <2>3. Changes(shown, t, {"scene_verified"}) /\ t.scene_verified
    BY <2>1, <2>2 DEF UiType, Changes, UiFields, Shows, IsVerified
  <2> HIDE DEF t
  <2>4. n = UpdateUnfoldAction(t)
    BY <1>3 DEF CancelUnfoldActivity, t, shown, globe, idle
  <2> HIDE DEF n
  <2>5. Changes(t, n, {"unfold_enabled"}) /\ n.unfold_enabled = UnfoldAllowed(t)
    BY <2>3, <2>4, UpdateFields DEF Changes
  <2>6. Changes(u, n, CancelChanges)
    BY <1>2, <2>2, <2>3, <2>5 DEF Changes, CancelChanges
  <2>7. /\ n.scene = globe /\ n.unfold = NoBundle /\ n.canvas_camera = globe.camera
        /\ ~n.unfold_preparing /\ ~n.unfold_animating
        /\ n.mode = Globe /\ n.camera = u.camera /\ n.content = u.content
    BY <1>2, <2>1, <2>2, <2>3, <2>5 DEF Changes, UiFields
  <2>8. n.unfold_enabled = UnfoldAllowed(n)
    BY <2>5 DEF Changes, UiFields, UnfoldAllowed
  <2>9. WindowOK(n)
    BY <2>1, <2>6, <2>7, <2>8, WindowAtRest DEF Changes, Shows
  <2> QED
    BY <2>6, <2>7, <2>9 DEF n
<1>4. CASE ~u.unfold_animating
  <2>1. n = UpdateUnfoldAction(idle)
    BY <1>4 DEF CancelUnfoldActivity, idle
  <2> HIDE DEF n
  <2>2. Changes(idle, n, {"unfold_enabled"}) /\ n.unfold_enabled = UnfoldAllowed(idle)
    BY <1>2, <2>1, UpdateFields DEF Changes
  <2>3. Changes(u, n, CancelChanges)
    BY <1>2, <2>2 DEF Changes, CancelChanges
  <2>4. /\ n.scene = u.scene /\ n.unfold = u.unfold /\ n.canvas_camera = u.canvas_camera
        /\ ~n.unfold_preparing /\ ~n.unfold_animating /\ n.scene_verified = u.scene_verified
        /\ n.mode = u.mode /\ n.camera = u.camera /\ n.content = u.content
    BY <1>2, <2>2 DEF Changes, UiFields
  <2>5. n.unfold_enabled = UnfoldAllowed(n)
    BY <2>2 DEF Changes, UiFields, UnfoldAllowed
  <2>6. n.unfold = NoBundle
    BY <1>4, <2>4 DEF WindowOK
  <2>7. WindowOK(n)
    BY <2>3, <2>4, <2>5, <2>6, WindowAtRest DEF Changes, Shows, WindowOK
  <2> QED
    BY <2>3, <2>4, <2>6, <2>7 DEF n
<1> QED
  BY <1>3, <1>4

(* present_scene shows any scene of the window's content and camera.       *)
LEMMA PresentOK ==
  ASSUME NEW u, WindowOK(u), NEW scene \in Scene,
         scene.content = u.content, scene.camera = u.camera
  PROVE  LET n == PresentScene(u, scene)
         IN /\ WindowOK(n)
            /\ Changes(u, n, CancelChanges \cup {"mode", "last_flat_mode"})
            /\ ~n.unfold_preparing
            /\ n.unfold = NoBundle
            /\ n.last_flat_mode = IF scene.mode = Globe THEN u.last_flat_mode ELSE scene.mode
<1> DEFINE c == CancelUnfoldActivity(u)
           m == InMode(c, scene.mode)
           shown == Showing(m, scene)
           t == [shown EXCEPT !.scene_verified = IsVerified(scene)]
           n == PresentScene(u, scene)
<1>1. /\ WindowOK(c) /\ Changes(u, c, CancelChanges)
      /\ ~c.unfold_preparing /\ ~c.unfold_animating
  BY CancelOK
<1> HIDE DEF c
<1>2. scene.mode \in ViewMode
  BY DEF Scene
<1>3. /\ Changes(c, m, {"mode", "last_flat_mode"})
      /\ m.mode = scene.mode
      /\ m.last_flat_mode = IF scene.mode = Globe THEN c.last_flat_mode ELSE scene.mode
  BY <1>1, <1>2, InModeFields DEF Changes
<1> HIDE DEF m
<1>4. /\ Changes(m, shown, {"scene", "unfold", "canvas_camera"})
      /\ shown.scene = scene /\ shown.unfold = NoBundle
      /\ shown.canvas_camera = scene.camera
  BY <1>3, ShowingFields DEF Changes
<1> HIDE DEF shown
<1>5. Changes(shown, t, {"scene_verified"}) /\ t.scene_verified = IsVerified(scene)
  BY <1>4 DEF UiType, Changes, UiFields, IsVerified, Scene
<1> HIDE DEF t
<1>6. n = UpdateUnfoldAction(t)
  BY DEF PresentScene, t, shown, m, c
<1> HIDE DEF n
<1>7. Changes(t, n, {"unfold_enabled"}) /\ n.unfold_enabled = UnfoldAllowed(t)
  BY <1>5, <1>6, UpdateFields DEF Changes
<1>8. Changes(u, n, CancelChanges \cup {"mode", "last_flat_mode"})
  BY <1>1, <1>3, <1>4, <1>5, <1>7 DEF Changes, CancelChanges
<1>9. /\ n.scene = scene /\ n.unfold = NoBundle /\ n.canvas_camera = scene.camera
      /\ ~n.unfold_preparing /\ ~n.unfold_animating /\ n.mode = scene.mode
      /\ n.scene_verified = IsVerified(scene)
      /\ n.camera = u.camera /\ n.content = u.content
      /\ n.last_flat_mode = IF scene.mode = Globe THEN u.last_flat_mode ELSE scene.mode
  BY <1>1, <1>3, <1>4, <1>5, <1>7 DEF Changes, UiFields, CancelChanges
<1>10. n.unfold_enabled = UnfoldAllowed(n)
  BY <1>7 DEF Changes, UiFields, UnfoldAllowed
<1>11. WindowOK(n)
  BY <1>8, <1>9, <1>10, WindowAtRest DEF Changes, Shows
<1> QED
  BY <1>8, <1>9, <1>11 DEF n

LEMMA SceneBusyOK ==
  ASSUME NEW u, WindowOK(u), NEW busy \in BOOLEAN
  PROVE  WindowOK(ApplySceneBusy(u, busy))
<1> DEFINE n == ApplySceneBusy(u, busy)
<1>1. /\ Changes(u, n, {"scene_busy", "canvas_busy", "unfold_enabled"})
      /\ n.unfold_enabled = IF u.unfold_animating THEN u.unfold_enabled ELSE UnfoldAllowed(n)
  BY SceneBusyFields DEF WindowOK
<1> HIDE DEF n
<1> QED
  BY <1>1 DEF Changes, UiFields, WindowOK, BundleFits, Shows, UnfoldAllowed, n

LEMMA UnfoldBusyOK ==
  ASSUME NEW u, WindowOK(u), NEW busy \in BOOLEAN,
         busy => u.mode = Globe /\ ~u.unfold_animating
  PROVE  WindowOK(ApplyUnfoldBusy(u, busy))
<1> DEFINE n == ApplyUnfoldBusy(u, busy)
<1>1. /\ Changes(u, n, {"unfold_preparing", "canvas_busy", "unfold_enabled"})
      /\ n.unfold_preparing = busy
      /\ n.unfold_enabled = IF u.unfold_animating THEN u.unfold_enabled ELSE UnfoldAllowed(n)
  BY UnfoldBusyFields DEF WindowOK
<1> HIDE DEF n
<1> QED
  BY <1>1 DEF Changes, UiFields, WindowOK, BundleFits, Shows, UnfoldAllowed, n

LEMMA UpdateOK ==
  ASSUME NEW u, WindowOK(u)
  PROVE  /\ WindowOK(UpdateUnfoldAction(u))
         /\ Changes(u, UpdateUnfoldAction(u), {"unfold_enabled"})
<1> DEFINE n == UpdateUnfoldAction(u)
<1>1. Changes(u, n, {"unfold_enabled"}) /\ n.unfold_enabled = UnfoldAllowed(u)
  BY UpdateFields DEF WindowOK
<1> HIDE DEF n
<1> QED
  BY <1>1 DEF Changes, UiFields, WindowOK, BundleFits, Shows, UnfoldAllowed, n

(* A bundle of the window's content and camera unfolds onto the flat mode  *)
(* that was chosen last.                                                   *)
LEMMA BeginOK ==
  ASSUME NEW u, WindowOK(u), u.mode = Globe, ~u.unfold_preparing, NEW bundle \in Bundle,
         Shows(u, bundle.globe_endpoint), bundle.globe_endpoint.mode = Globe,
         Shows(u, bundle.flat_endpoint), bundle.flat_endpoint.mode = bundle.target_mode,
         bundle.target_mode = u.last_flat_mode
  PROVE  LET n == BeginUnfold(u, bundle)
         IN /\ WindowOK(n)
            /\ Changes(u, n, {"unfold", "unfold_target", "canvas_camera",
                              "unfold_animating", "scene_verified", "unfold_enabled"})
<1> DEFINE n == BeginUnfold(u, bundle)
<1>1. /\ bundle.target_mode \in Flat /\ bundle.globe_endpoint \in Scene
      /\ bundle.globe_endpoint.camera \in Camera
      /\ u \in UiType
  BY DEF Bundle, Scene, WindowOK
<1>2. /\ Changes(u, n, {"unfold", "unfold_target", "canvas_camera",
                        "unfold_animating", "scene_verified", "unfold_enabled"})
      /\ n.unfold = bundle /\ n.unfold_target = bundle.target_mode
      /\ n.canvas_camera = bundle.globe_endpoint.camera
      /\ n.unfold_animating /\ ~n.scene_verified /\ ~n.unfold_enabled
  BY <1>1 DEF BeginUnfold, UiType, Changes, UiFields
<1> HIDE DEF n
<1>3. WindowOK(n)
  BY <1>2, NoBundleAssumption
     DEF Changes, UiFields, WindowOK, BundleFits, Shows, UnfoldAllowed
<1> QED
  BY <1>2, <1>3 DEF n

(* The camera follows the mouse while the canvas shows a globe.            *)
LEMMA CameraMovedOK ==
  ASSUME NEW u, WindowOK(u), u.unfold = NoBundle, NEW camera \in Camera
  PROVE  LET n == CameraMoved(u, camera)
         IN /\ WindowOK(n)
            /\ Changes(u, n, {"canvas_camera", "camera", "scene_verified", "unfold_enabled"})
            /\ n.camera = camera
<1> DEFINE v == [u EXCEPT !.canvas_camera = camera, !.camera = camera,
                          !.scene_verified = FALSE]
           n == CameraMoved(u, camera)
<1>1. /\ Changes(u, v, {"canvas_camera", "camera", "scene_verified"})
      /\ v.canvas_camera = camera /\ v.camera = camera /\ ~v.scene_verified
  BY DEF WindowOK, UiType, Changes, UiFields
<1> HIDE DEF v
<1>2. n = UpdateUnfoldAction(v)
  BY DEF CameraMoved, v
<1> HIDE DEF n
<1>3. Changes(v, n, {"unfold_enabled"}) /\ n.unfold_enabled = UnfoldAllowed(v)
  BY <1>1, <1>2, UpdateFields DEF Changes
<1>4. Changes(u, n, {"canvas_camera", "camera", "scene_verified", "unfold_enabled"})
  BY <1>1, <1>3 DEF Changes
<1>5. n.canvas_camera = camera /\ n.camera = camera /\ ~n.scene_verified
  BY <1>1, <1>3 DEF Changes, UiFields
<1>6. WindowOK(n)
  BY <1>3, <1>4, <1>5 DEF Changes, UiFields, WindowOK, BundleFits, UnfoldAllowed
<1> QED
  BY <1>4, <1>5, <1>6 DEF n

(* The end of the animation shows the flat view it was heading for.        *)
LEMMA FinishOK ==
  ASSUME NEW u, WindowOK(u), u.unfold_animating
  PROVE  LET flat == u.unfold.flat_endpoint
             n == UpdateUnfoldAction(
                    [InMode(Showing(u, flat), u.unfold_target) EXCEPT
                       !.unfold_animating = FALSE, !.scene_verified = IsVerified(flat)])
         IN /\ WindowOK(n)
            /\ Changes(u, n, {"scene", "unfold", "canvas_camera", "mode", "last_flat_mode",
                              "unfold_animating", "scene_verified", "unfold_enabled"})
            /\ n.last_flat_mode = u.last_flat_mode
<1> DEFINE flat == u.unfold.flat_endpoint
           shown == Showing(u, flat)
           m == InMode(shown, u.unfold_target)
           t == [m EXCEPT !.unfold_animating = FALSE, !.scene_verified = IsVerified(flat)]
           n == UpdateUnfoldAction(t)
<1>1. /\ u \in UiType /\ flat \in Scene /\ Shows(u, flat)
      /\ flat.mode = u.unfold_target /\ u.unfold_target = u.last_flat_mode
      /\ u.unfold_target \in ViewMode /\ u.unfold_target # Globe
      /\ ~u.unfold_preparing
  BY WorkbenchAssumption DEF WindowOK, BundleFits, UiType, Bundle, ViewMode
<1> HIDE DEF flat
<1>2. /\ Changes(u, shown, {"scene", "unfold", "canvas_camera"})
      /\ shown.scene = flat /\ shown.unfold = NoBundle
      /\ shown.canvas_camera = flat.camera
  BY <1>1, ShowingFields
<1> HIDE DEF shown
<1>3. /\ Changes(shown, m, {"mode", "last_flat_mode"})
      /\ m.mode = u.unfold_target
      /\ m.last_flat_mode = u.unfold_target
  BY <1>1, <1>2, InModeFields DEF Changes
<1> HIDE DEF m
<1>4. /\ Changes(m, t, {"unfold_animating", "scene_verified"})
      /\ ~t.unfold_animating /\ t.scene_verified
  BY <1>1, <1>3 DEF UiType, Changes, UiFields, Shows, IsVerified
<1> HIDE DEF t
<1>5. Changes(t, n, {"unfold_enabled"}) /\ n.unfold_enabled = UnfoldAllowed(t)
  BY <1>4, UpdateFields DEF Changes
<1> HIDE DEF n
<1>6. Changes(u, n, {"scene", "unfold", "canvas_camera", "mode", "last_flat_mode",
                     "unfold_animating", "scene_verified", "unfold_enabled"})
  BY <1>2, <1>3, <1>4, <1>5 DEF Changes
<1>7. /\ n.scene = flat /\ n.unfold = NoBundle /\ n.canvas_camera = flat.camera
      /\ ~n.unfold_preparing /\ ~n.unfold_animating /\ n.mode = flat.mode
      /\ n.last_flat_mode = u.last_flat_mode
      /\ n.camera = u.camera /\ n.content = u.content
  BY <1>1, <1>2, <1>3, <1>4, <1>5 DEF Changes, UiFields
<1>8. n.unfold_enabled = UnfoldAllowed(n)
  BY <1>5 DEF Changes, UiFields, UnfoldAllowed
<1>9. WindowOK(n)
  BY <1>1, <1>6, <1>7, <1>8, WindowAtRest DEF Changes, Shows
<1> QED
  BY <1>6, <1>7, <1>9 DEF n, t, m, shown, flat

(* set_content, whose controllers both report that they are idle before    *)
(* the scene of the new content is requested.                              *)
Cleared(u, content) ==
  [ApplyUnfoldBusy(ApplySceneBusy([CancelUnfoldActivity(u) EXCEPT !.content = content],
                                  FALSE), FALSE) EXCEPT !.scene_verified = FALSE]

LEMMA ContentOK ==
  ASSUME NEW u, WindowOK(u), NEW content \in Content
  PROVE  LET v == Cleared(u, content)
             n == ApplySceneBusy(v, TRUE)
         IN /\ WindowOK(n)
            /\ v.mode = u.mode /\ v.camera = u.camera
            /\ n.content = content /\ n.camera = u.camera
            /\ n.scene_busy /\ ~n.unfold_preparing
<1> DEFINE c == CancelUnfoldActivity(u)
           chosen == [c EXCEPT !.content = content]
           still == ApplySceneBusy(chosen, FALSE)
           ready == ApplyUnfoldBusy(still, FALSE)
           v == Cleared(u, content)
           n == ApplySceneBusy(v, TRUE)
<1>1. /\ WindowOK(c) /\ Changes(u, c, CancelChanges)
      /\ ~c.unfold_preparing /\ ~c.unfold_animating /\ c.unfold = NoBundle
  BY CancelOK
<1> HIDE DEF c
<1>2. Changes(c, chosen, {"content"}) /\ chosen.content = content
  BY <1>1 DEF WindowOK, UiType, Changes, UiFields
<1> HIDE DEF chosen
<1>3. Changes(chosen, still, {"scene_busy", "canvas_busy", "unfold_enabled"})
  BY <1>2, SceneBusyFields DEF Changes
<1> HIDE DEF still
<1>4. /\ Changes(still, ready, {"unfold_preparing", "canvas_busy", "unfold_enabled"})
      /\ ~ready.unfold_preparing
  BY <1>3, UnfoldBusyFields DEF Changes
<1> HIDE DEF ready
<1>5. v = [ready EXCEPT !.scene_verified = FALSE]
  BY DEF Cleared, ready, still, chosen, c
<1> HIDE DEF v
<1>6. Changes(ready, v, {"scene_verified"}) /\ ~v.scene_verified
  BY <1>4, <1>5 DEF UiType, Changes, UiFields
<1>7. /\ Changes(v, n, {"scene_busy", "canvas_busy", "unfold_enabled"})
      /\ n.scene_busy
      /\ n.unfold_enabled = IF v.unfold_animating THEN v.unfold_enabled ELSE UnfoldAllowed(n)
  BY <1>6, SceneBusyFields DEF Changes
<1> HIDE DEF n
<1>8. /\ v.mode = u.mode /\ v.camera = u.camera /\ ~v.unfold_animating
      /\ n.content = content /\ n.camera = u.camera
      /\ ~n.unfold_preparing /\ ~n.unfold_animating /\ ~n.scene_verified
      /\ n.unfold = NoBundle /\ n.canvas_camera = c.canvas_camera /\ c.camera = u.camera
  BY <1>1, <1>2, <1>3, <1>4, <1>6, <1>7 DEF Changes, UiFields, CancelChanges
<1>9. WindowOK(n)
  BY <1>1, <1>7, <1>8, WindowAtRest DEF Changes, WindowOK
<1> QED
  BY <1>7, <1>8, <1>9 DEF n, v

(* set_mode to another mode, or away from a view that is not verified.     *)
ModeChosen(u, mode) ==
  UpdateUnfoldAction([InMode(u, mode) EXCEPT !.unfold_preparing = FALSE,
                                             !.scene_verified = FALSE])

LEMMA ModeOK ==
  ASSUME NEW u, WindowOK(u), ~u.unfold_animating, NEW mode \in ViewMode
  PROVE  LET v == ModeChosen(u, mode)
             n == ApplySceneBusy(v, TRUE)
         IN /\ WindowOK(n)
            /\ v.mode = mode /\ v.camera = u.camera
            /\ n.content = u.content /\ n.camera = u.camera
            /\ n.scene_busy /\ ~n.unfold_preparing
<1> DEFINE m == InMode(u, mode)
           t == [m EXCEPT !.unfold_preparing = FALSE, !.scene_verified = FALSE]
           v == ModeChosen(u, mode)
           n == ApplySceneBusy(v, TRUE)
<1>1. u \in UiType /\ u.unfold = NoBundle /\ u.canvas_camera = u.camera
  BY DEF WindowOK
<1>2. Changes(u, m, {"mode", "last_flat_mode"}) /\ m.mode = mode
  BY <1>1, InModeFields
<1> HIDE DEF m
<1>3. /\ Changes(m, t, {"unfold_preparing", "scene_verified"})
      /\ ~t.unfold_preparing /\ ~t.scene_verified
  BY <1>2 DEF UiType, Changes, UiFields
<1> HIDE DEF t
<1>4. v = UpdateUnfoldAction(t)
  BY DEF ModeChosen, t, m
<1> HIDE DEF v
<1>5. Changes(t, v, {"unfold_enabled"})
  BY <1>3, <1>4, UpdateFields DEF Changes
<1>6. /\ Changes(v, n, {"scene_busy", "canvas_busy", "unfold_enabled"})
      /\ n.scene_busy
      /\ n.unfold_enabled = IF v.unfold_animating THEN v.unfold_enabled ELSE UnfoldAllowed(n)
  BY <1>5, SceneBusyFields DEF Changes
<1> HIDE DEF n
<1>7. /\ v.mode = mode /\ v.camera = u.camera /\ ~v.unfold_animating
      /\ n.content = u.content /\ n.camera = u.camera
      /\ ~n.unfold_preparing /\ ~n.unfold_animating /\ ~n.scene_verified
      /\ n.unfold = NoBundle /\ n.canvas_camera = u.camera
  BY <1>1, <1>2, <1>3, <1>5, <1>6 DEF Changes, UiFields
<1>8. WindowOK(n)
  BY <1>6, <1>7, WindowAtRest DEF Changes
<1> QED
  BY <1>6, <1>7, <1>8 DEF n, v

(* set_mode to the mode that is shown, and start_unfold.                   *)
LEMMA KeptOK ==
  ASSUME NEW u, WindowOK(u), ~u.unfold_animating
  PROVE  LET n == UpdateUnfoldAction([u EXCEPT !.unfold_preparing = FALSE])
         IN /\ WindowOK(n)
            /\ Changes(u, n, {"unfold_preparing", "unfold_enabled"})
            /\ ~n.unfold_preparing
<1> DEFINE t == [u EXCEPT !.unfold_preparing = FALSE]
           n == UpdateUnfoldAction(t)
<1>1. Changes(u, t, {"unfold_preparing"}) /\ ~t.unfold_preparing
  BY DEF WindowOK, UiType, Changes, UiFields
<1> HIDE DEF t
<1>2. Changes(t, n, {"unfold_enabled"}) /\ n.unfold_enabled = UnfoldAllowed(t)
  BY <1>1, UpdateFields DEF Changes
<1> HIDE DEF n
<1>3. Changes(u, n, {"unfold_preparing", "unfold_enabled"}) /\ ~n.unfold_preparing
  BY <1>1, <1>2 DEF Changes, UiFields
<1>4. n.unfold_enabled = UnfoldAllowed(n)
  BY <1>2 DEF Changes, UiFields, UnfoldAllowed
<1>5. WindowOK(n)
  BY <1>3, <1>4 DEF WindowOK, Changes, UiFields, Shows, BundleFits
<1> QED
  BY <1>3, <1>5 DEF n, t

LEMMA StartOK ==
  ASSUME NEW u, WindowOK(u), UnfoldAllowed(u)
  PROVE  LET n == ApplyUnfoldBusy([u EXCEPT !.unfold_target = u.last_flat_mode], TRUE)
         IN /\ WindowOK(n)
            /\ Changes(u, n, {"unfold_target", "unfold_preparing", "canvas_busy",
                              "unfold_enabled"})
            /\ n.unfold_preparing
<1> DEFINE t == [u EXCEPT !.unfold_target = u.last_flat_mode]
           n == ApplyUnfoldBusy(t, TRUE)
<1>1. Changes(u, t, {"unfold_target"})
  BY DEF WindowOK, UiType, Changes, UiFields
<1> HIDE DEF t
<1>2. t.unfold_animating = u.unfold_animating /\ t.mode = Globe /\ ~t.unfold_animating
  BY <1>1 DEF Changes, UiFields, UnfoldAllowed
<1>3. UnfoldAllowed(t) = UnfoldAllowed(u)
  BY <1>1 DEF Changes, UiFields, UnfoldAllowed
<1>4. WindowOK(t)
  BY <1>1, <1>2, <1>3 DEF WindowOK, Changes, UiFields, Shows, BundleFits
<1>5. WindowOK(n)
  BY <1>2, <1>4, UnfoldBusyOK
<1>6. /\ Changes(t, n, {"unfold_preparing", "canvas_busy", "unfold_enabled"})
      /\ n.unfold_preparing
  BY <1>4, UnfoldBusyFields DEF WindowOK
<1> HIDE DEF n
<1>7. Changes(u, n, {"unfold_target", "unfold_preparing", "canvas_busy", "unfold_enabled"})
  BY <1>1, <1>6 DEF Changes
<1> QED
  BY <1>5, <1>6, <1>7 DEF n, t

-----------------------------------------------------------------------------
(* What the controllers do to the queues.                                  *)

(* A sequence that is changed element by element.                          *)
LEMMA MappedSequence ==
  ASSUME NEW S, NEW T, NEW q \in Seq(S), NEW r, r = [i \in 1..Len(q) |-> r[i]],
         \A i \in 1..Len(q) : r[i] \in T
  PROVE  r \in Seq(T) /\ Len(r) = Len(q)
<1>1. Len(q) \in Nat
  BY LenProperties
<1>2. r \in [1..Len(q) -> T]
  OBVIOUS
<1>3. r \in Seq(T)
  BY <1>1, <1>2, SeqDef
<1>4. DOMAIN r = 1..Len(r) /\ DOMAIN r = 1..Len(q) /\ Len(r) \in Nat
  BY <1>2, <1>3, LenProperties
<1>5. Len(r) = Len(q)
  BY <1>1, <1>4
<1> QED
  BY <1>3, <1>5

LEMMA StaleJob ==
  ASSUME NEW job \in Job, NEW owners
  PROVE  /\ Stale(job, owners) \in Job
         /\ Stale(job, owners).owner = job.owner
         /\ Stale(job, owners).current <=> job.current /\ job.owner \notin owners
         /\ Stale(job, owners).current => Stale(job, owners) = job
BY DEF Stale, Job

LEMMA StaleResult ==
  ASSUME NEW result \in Result, NEW owners
  PROVE  LET s == [result EXCEPT !.job = Stale(@, owners)]
         IN /\ s \in Result /\ s.job = Stale(result.job, owners)
            /\ s.outcome = result.outcome
<1>1. Stale(result.job, owners) \in Job
  BY StaleJob DEF Result
<1> QED
  BY <1>1 DEF Result

(* cancel() leaves a controller without a current job, and no other.       *)
LEMMA CancelQueues ==
  ASSUME NEW e, QueuesOK(pool, e), NEW owners
  PROVE  LET p2 == PoolCanceled(owners)
             e2 == Canceled(e, owners)
         IN /\ QueuesOK(p2, e2)
            /\ \A owner \in Controller :
                 LiveJobs(p2, e2, owner) =
                   IF owner \in owners THEN {} ELSE LiveJobs(pool, e, owner)
<1> DEFINE p2 == PoolCanceled(owners)
           e2 == Canceled(e, owners)
<1>1. pool \in [Controller -> Seq(Job)] /\ e \in Seq(Result)
  BY DEF QueuesOK
<1>2. ASSUME NEW owner \in Controller
      PROVE  /\ p2[owner] \in Seq(Job) /\ Len(p2[owner]) = Len(pool[owner])
             /\ \A i \in 1..Len(pool[owner]) :
                  p2[owner][i] = Stale(pool[owner][i], owners)
  <2> DEFINE q == pool[owner]  r == p2[owner]
  <2>1. q \in Seq(Job) /\ DOMAIN q = 1..Len(q) /\ \A i \in 1..Len(q) : q[i] \in Job
    BY <1>1, LenProperties, ElementOfSeq
  <2>2. r = [i \in 1..Len(q) |-> Stale(q[i], owners)]
    BY <2>1 DEF PoolCanceled
  <2> HIDE DEF r
  <2>3. r = [i \in 1..Len(q) |-> r[i]] /\ \A i \in 1..Len(q) : r[i] \in Job
    BY <2>1, <2>2, StaleJob
  <2>4. r \in Seq(Job) /\ Len(r) = Len(q)
    BY <2>1, <2>3, MappedSequence
  <2> QED
    BY <2>2, <2>4 DEF r
<1>3. /\ e2 \in Seq(Result) /\ Len(e2) = Len(e)
      /\ \A i \in 1..Len(e) : /\ e2[i].job = Stale(e[i].job, owners)
                              /\ e2[i].outcome = e[i].outcome
  <2>1. DOMAIN e = 1..Len(e) /\ \A i \in 1..Len(e) : e[i] \in Result
    BY <1>1, LenProperties, ElementOfSeq
  <2>2. e2 = [i \in 1..Len(e) |-> [e[i] EXCEPT !.job = Stale(@, owners)]]
    BY <2>1 DEF Canceled
  <2> HIDE DEF e2
  <2>3. /\ e2 = [i \in 1..Len(e) |-> e2[i]]
        /\ \A i \in 1..Len(e) : /\ e2[i] \in Result
                                /\ e2[i].job = Stale(e[i].job, owners)
                                /\ e2[i].outcome = e[i].outcome
    BY <2>1, <2>2, StaleResult
  <2>4. e2 \in Seq(Result) /\ Len(e2) = Len(e)
    BY <1>1, <2>3, MappedSequence
  <2> QED
    BY <2>3, <2>4
<1>4. p2 = [owner \in Controller |-> p2[owner]]
  BY DEF PoolCanceled
<1>5. /\ \A owner \in Controller : \A i \in 1..Len(pool[owner]) : pool[owner][i] \in Job
      /\ \A i \in 1..Len(e) : e[i].job \in Job
  <2>1. \A owner \in Controller : \A i \in 1..Len(pool[owner]) : pool[owner][i] \in Job
    BY <1>1, ElementOfSeq
  <2>2. \A i \in 1..Len(e) : e[i] \in Result
    BY <1>1, ElementOfSeq
  <2> QED
    BY <2>1, <2>2 DEF Result
<1> HIDE DEF p2, e2
<1>6. ASSUME NEW owner \in Controller, NEW i
      PROVE  /\ PoolLive(p2, owner, i) <=> PoolLive(pool, owner, i) /\ owner \notin owners
             /\ PoolLive(p2, owner, i) => p2[owner][i] = pool[owner][i]
             /\ EventLive(e2, owner, i) <=> EventLive(e, owner, i) /\ owner \notin owners
             /\ EventLive(e2, owner, i) => e2[i].job = e[i].job
  <2>1. i \in 1..Len(pool[owner]) => pool[owner][i].owner = owner
    BY DEF QueuesOK
  <2>2. i \in 1..Len(pool[owner]) =>
          /\ p2[owner][i].current <=> pool[owner][i].current /\ owner \notin owners
          /\ p2[owner][i].current => p2[owner][i] = pool[owner][i]
    BY <1>2, <1>5, <2>1, StaleJob
  <2>3. i \in 1..Len(e) =>
          /\ e2[i].job.owner = e[i].job.owner
          /\ e2[i].job.current <=> e[i].job.current /\ e[i].job.owner \notin owners
          /\ e2[i].job.current => e2[i].job = e[i].job
    BY <1>3, <1>5, StaleJob
  <2> QED
    BY <1>2, <1>3, <2>2, <2>3 DEF PoolLive, EventLive
<1>7. QueuesOK(p2, e2)
  <2>1. p2 \in [Controller -> Seq(Job)]
    BY <1>2, <1>4
  <2>2. \A owner \in Controller : OneLive(p2, e2, owner)
    BY <1>6 DEF OneLive, QueuesOK
  <2>3. \A owner \in Controller : \A i \in 1..Len(p2[owner]) : p2[owner][i].owner = owner
    BY <1>2, <1>5, StaleJob DEF QueuesOK
  <2>4. \A i \in 1..Len(e2) : e2[i].job.current => e2[i].outcome # "canceled"
    BY <1>3, <1>5, StaleJob DEF QueuesOK
  <2> QED
    BY <1>3, <2>1, <2>2, <2>3, <2>4 DEF QueuesOK
<1>8. ASSUME NEW owner \in Controller
      PROVE  LiveJobs(p2, e2, owner) =
               IF owner \in owners THEN {} ELSE LiveJobs(pool, e, owner)
  <2>1. CASE owner \in owners
    BY <1>6, <2>1 DEF LiveJobs
  <2>2. CASE owner \notin owners
    BY <1>2, <1>3, <1>6, <2>2 DEF LiveJobs
  <2> QED
    BY <2>1, <2>2
<1> QED
  BY <1>7, <1>8 DEF p2, e2

Enqueued(p, owner, job) == [p EXCEPT ![owner] = Append(@, job)]

Idle(p, e, owner) == LiveJobs(p, e, owner) = {}

(* Only the current jobs of this owner differ, and it has just this one.   *)
Gains(p, p2, e, owner, job) ==
  \A o \in Controller :
    LiveJobs(p2, e, o) = IF o = owner THEN {job} ELSE LiveJobs(p, e, o)

(* request() puts one current job into the pool of an idle controller.     *)
LEMMA EnqueueQueues ==
  ASSUME NEW p, NEW e, QueuesOK(p, e), NEW owner \in Controller,
         Idle(p, e, owner), NEW job \in Job, job.owner = owner, job.current
  PROVE  /\ QueuesOK(Enqueued(p, owner, job), e)
         /\ Gains(p, Enqueued(p, owner, job), e, owner, job)
<1> DEFINE p2 == Enqueued(p, owner, job)
           n == Len(p[owner])
<1>1. p \in [Controller -> Seq(Job)] /\ p[owner] \in Seq(Job) /\ n \in Nat
  BY LenProperties DEF QueuesOK
<1>2. /\ p2 \in [Controller -> Seq(Job)]
      /\ Len(p2[owner]) = n + 1 /\ p2[owner][n + 1] = job
      /\ \A i \in 1..n : p2[owner][i] = p[owner][i]
      /\ \A o \in Controller \ {owner} : p2[o] = p[o]
  BY <1>1, AppendProperties DEF Enqueued
<1>3. \A i : ~PoolLive(p, owner, i) /\ ~EventLive(e, owner, i)
  BY DEF Idle, LiveJobs, PoolLive, EventLive
<1> HIDE DEF p2
<1>4. \A i : PoolLive(p2, owner, i) <=> i = n + 1
  <2>1. \A i : i \in 1..(n + 1) <=> i \in 1..n \/ i = n + 1
    BY <1>1
  <2>2. \A i \in 1..n : ~p2[owner][i].current
    BY <1>2, <1>3 DEF PoolLive
  <2> QED
    BY <1>2, <2>1, <2>2 DEF PoolLive
<1>5. \A o \in Controller \ {owner} : \A i : PoolLive(p2, o, i) <=> PoolLive(p, o, i)
  BY <1>2 DEF PoolLive
<1>6. QueuesOK(p2, e)
  <2>1. OneLive(p2, e, owner)
    BY <1>3, <1>4 DEF OneLive
  <2>2. \A o \in Controller \ {owner} : OneLive(p2, e, o)
    BY <1>5 DEF OneLive, QueuesOK
  <2>3. ASSUME NEW o \in Controller, NEW i \in 1..Len(p2[o])
        PROVE  p2[o][i].owner = o
    <3>1. CASE o = owner
      <4>1. i \in 1..n \/ i = n + 1
        BY <1>1, <1>2, <3>1
      <4>2. \A k \in 1..n : p[owner][k].owner = owner
        BY DEF QueuesOK
      <4> QED
        BY <1>2, <3>1, <4>1, <4>2
    <3>2. CASE o # owner
      BY <1>2, <3>2 DEF QueuesOK
    <3> QED
      BY <3>1, <3>2
  <2> QED
    BY <1>2, <2>1, <2>2, <2>3 DEF QueuesOK
<1>7. LiveJobs(p2, e, owner) = {job}
  BY <1>1, <1>2, <1>3, <1>4 DEF LiveJobs
<1>8. \A o \in Controller \ {owner} : LiveJobs(p2, e, o) = LiveJobs(p, e, o)
  BY <1>2, <1>5 DEF LiveJobs
<1> QED
  BY <1>6, <1>7, <1>8 DEF p2, Gains

(* The places of the results after the first one.                          *)
LEMMA TailPlaces ==
  ASSUME NEW p, NEW e, QueuesOK(p, e), e # <<>>
  PROVE  /\ Head(e) = e[1] /\ e[1] \in Result
         /\ Tail(e) \in Seq(Result) /\ Len(e) \in Nat /\ Len(Tail(e)) = Len(e) - 1
         /\ \A i \in 1..Len(Tail(e)) : Tail(e)[i] = e[i + 1]
         /\ \A o, i : EventLive(Tail(e), o, i) <=> i \in Nat \ {0} /\ EventLive(e, o, i + 1)
<1>1. e \in Seq(Result) /\ Len(e) \in Nat
  BY LenProperties DEF QueuesOK
<1>2. /\ Head(e) = e[1] /\ e[1] \in Result
      /\ Tail(e) \in Seq(Result) /\ Len(Tail(e)) = Len(e) - 1
      /\ \A i \in 1..Len(Tail(e)) : Tail(e)[i] = e[i + 1]
  BY <1>1, HeadTailProperties
<1>3. ASSUME NEW o, NEW i
      PROVE  EventLive(Tail(e), o, i) <=> i \in Nat \ {0} /\ EventLive(e, o, i + 1)
  BY <1>1, <1>2 DEF EventLive
<1> QED
  BY <1>1, <1>2, <1>3

(* The delivery of the first result takes its job out of the queues.       *)
LEMMA DeliverQueues ==
  ASSUME NEW p, NEW e, QueuesOK(p, e), e # <<>>
  PROVE  /\ QueuesOK(p, Tail(e))
         /\ \A o \in Controller :
              LiveJobs(p, Tail(e), o) =
                IF Head(e).job.current /\ Head(e).job.owner = o THEN {}
                ELSE LiveJobs(p, e, o)
<1> DEFINE t == Tail(e)
<1>1. /\ Head(e) = e[1] /\ e[1] \in Result
      /\ t \in Seq(Result) /\ Len(e) \in Nat /\ Len(t) = Len(e) - 1
      /\ \A i \in 1..Len(t) : t[i] = e[i + 1]
      /\ \A o, i : EventLive(t, o, i) <=> i \in Nat \ {0} /\ EventLive(e, o, i + 1)
  BY TailPlaces
<1> HIDE DEF t
<1>2. QueuesOK(p, t)
  <2>1. ASSUME NEW o \in Controller
        PROVE  OneLive(p, t, o)
    <3>1. OneLive(p, e, o)
      BY DEF QueuesOK
    <3> QED
      BY <1>1, <3>1 DEF OneLive
  <2>2. \A i \in 1..Len(t) : t[i].job.current => t[i].outcome # "canceled"
    BY <1>1 DEF QueuesOK
  <2> QED
    BY <1>1, <2>1, <2>2 DEF QueuesOK
<1>3. ASSUME NEW o \in Controller, e[1].job.current /\ e[1].job.owner = o
      PROVE  LiveJobs(p, t, o) = {}
  <2>1. EventLive(e, o, 1) /\ OneLive(p, e, o)
    <3>1. 1 \in 1..Len(e)
      BY <1>1, EmptySeq, LenProperties DEF QueuesOK
    <3> QED
      BY <1>3, <3>1 DEF EventLive, QueuesOK
  <2>2. \A i : ~PoolLive(p, o, i)
    BY <2>1 DEF OneLive, PoolLive
  <2>3. \A i : ~EventLive(t, o, i)
    BY <1>1, <2>1 DEF OneLive
  <2> QED
    BY <2>2, <2>3 DEF LiveJobs
<1>4. ASSUME NEW o \in Controller, ~(e[1].job.current /\ e[1].job.owner = o)
      PROVE  LiveJobs(p, t, o) = LiveJobs(p, e, o)
  <2>1. \A i \in 1..Len(e) : EventLive(e, o, i) =>
          i - 1 \in 1..Len(t) /\ EventLive(t, o, i - 1) /\ t[i - 1] = e[i]
    BY <1>1, <1>4 DEF EventLive
  <2>2. \A i \in 1..Len(t) : EventLive(t, o, i) =>
          i + 1 \in 1..Len(e) /\ EventLive(e, o, i + 1) /\ t[i] = e[i + 1]
    BY <1>1
  <2>3. {t[i].job : i \in {k \in 1..Len(t) : EventLive(t, o, k)}}
          = {e[i].job : i \in {k \in 1..Len(e) : EventLive(e, o, k)}}
    <3>1. ASSUME NEW k \in 1..Len(t), EventLive(t, o, k)
          PROVE  t[k].job \in {e[i].job : i \in {j \in 1..Len(e) : EventLive(e, o, j)}}
      BY <2>2, <3>1
    <3>2. ASSUME NEW k \in 1..Len(e), EventLive(e, o, k)
          PROVE  e[k].job \in {t[i].job : i \in {j \in 1..Len(t) : EventLive(t, o, j)}}
      BY <2>1, <3>2
    <3> QED
      BY <3>1, <3>2
  <2> QED
    BY <2>3 DEF LiveJobs
<1> QED
  BY <1>1, <1>2, <1>3, <1>4 DEF t

(* A job that finishes becomes a result, current or not as it was.         *)
LEMMA RunQueues ==
  ASSUME QueuesOK(pool, events), NEW owner \in Controller, Run(owner)
  PROVE  /\ QueuesOK(pool', events')
         /\ \A o \in Controller :
              LiveJobs(pool', events', o) = LiveJobs(pool, events, o)
<1> DEFINE q == pool[owner]  t == Tail(q)  job == Head(q)  m == Len(events)
<1>1. /\ pool \in [Controller -> Seq(Job)] /\ events \in Seq(Result)
      /\ q \in Seq(Job) /\ q # <<>> /\ Len(q) \in Nat /\ m \in Nat
  BY LenProperties DEF QueuesOK, Run
<1>2. /\ job = q[1] /\ job \in Job
      /\ t \in Seq(Job) /\ Len(t) = Len(q) - 1
      /\ \A i \in 1..Len(t) : t[i] = q[i + 1]
  BY <1>1, HeadTailProperties
<1>3. /\ pool' \in [Controller -> Seq(Job)] /\ pool'[owner] = t
      /\ \A o \in Controller \ {owner} : pool'[o] = pool[o]
  BY <1>1, <1>2 DEF Run
<1>4. 1 \in 1..Len(q) /\ job.owner = owner
  <2>1. 1 \in 1..Len(q)
    BY <1>1, EmptySeq, LenProperties
  <2> QED
    BY <1>2, <2>1 DEF QueuesOK
<1>5. PICK outcome \in Outcome :
        /\ job.current => outcome # "canceled"
        /\ events' = Append(events, [job |-> job, outcome |-> outcome])
  BY DEF Run
<1> DEFINE result == [job |-> job, outcome |-> outcome]
<1>6. result \in Result /\ result.job = job /\ result.outcome = outcome
  BY <1>2 DEF Result
<1> HIDE DEF result, t, job
<1>7. /\ events' \in Seq(Result) /\ Len(events') = m + 1
      /\ \A i \in 1..m : events'[i] = events[i]
      /\ events'[m + 1] = result
  BY <1>1, <1>5, <1>6, AppendProperties DEF result
<1>8. ASSUME NEW i
      PROVE  PoolLive(pool', owner, i) <=> i \in Nat \ {0} /\ PoolLive(pool, owner, i + 1)
  <2>1. i \in 1..Len(t) <=> i \in Nat \ {0} /\ i + 1 \in 1..Len(q)
    BY <1>1, <1>2
  <2>2. i \in 1..Len(t) => t[i] = q[i + 1]
    BY <1>2
  <2> QED
    BY <1>3, <2>1, <2>2 DEF PoolLive
<1>9. \A o \in Controller \ {owner} : \A i :
        PoolLive(pool', o, i) <=> PoolLive(pool, o, i)
  BY <1>3 DEF PoolLive
<1>10. ASSUME NEW o \in Controller, NEW i
       PROVE  EventLive(events', o, i) <=>
                EventLive(events, o, i) \/ (i = m + 1 /\ o = owner /\ job.current)
  <2>1. i \in 1..(m + 1) <=> i \in 1..m \/ i = m + 1
    BY <1>1
  <2>2. m + 1 \notin 1..m
    BY <1>1
  <2> QED
    BY <1>4, <1>6, <1>7, <2>1, <2>2 DEF EventLive
<1>11. PoolLive(pool, owner, 1) <=> job.current
  BY <1>2, <1>4 DEF PoolLive
<1>12. \A o \in Controller : OneLive(pool, events, o)
  BY DEF QueuesOK
<1>13. OneLive(pool', events', owner)
  <2>1. CASE job.current
    <3>1. \A i \in Nat : ~PoolLive(pool', owner, i) /\ ~EventLive(events, owner, i)
      BY <1>8, <1>11, <1>12, <2>1 DEF OneLive
    <3> QED
      BY <1>10, <3>1 DEF OneLive
  <2>2. CASE ~job.current
    BY <1>8, <1>10, <1>12, <2>2 DEF OneLive
  <2> QED
    BY <2>1, <2>2
<1>14. \A o \in Controller \ {owner} : OneLive(pool', events', o)
  BY <1>9, <1>10, <1>12 DEF OneLive
<1>15. ASSUME NEW o \in Controller, NEW i \in 1..Len(pool'[o])
       PROVE  pool'[o][i].owner = o
  <2>1. CASE o = owner
    <3>1. i + 1 \in 1..Len(q) /\ t[i] = q[i + 1]
      BY <1>1, <1>2, <1>3, <2>1
    <3> QED
      BY <1>3, <2>1, <3>1 DEF QueuesOK
  <2>2. CASE o # owner
    BY <1>3, <2>2 DEF QueuesOK
  <2> QED
    BY <2>1, <2>2
<1>16. ASSUME NEW i \in 1..Len(events'), events'[i].job.current
       PROVE  events'[i].outcome # "canceled"
  <2>1. i \in 1..m \/ i = m + 1
    BY <1>1, <1>7
  <2> QED
    BY <1>5, <1>6, <1>7, <1>16, <2>1 DEF QueuesOK
<1>17. QueuesOK(pool', events')
  BY <1>3, <1>7, <1>13, <1>14, <1>15, <1>16 DEF QueuesOK
<1>18. ASSUME NEW o \in Controller
       PROVE  LiveJobs(pool', events', o) = LiveJobs(pool, events, o)
  <2> DEFINE InPool(p) == {p[o][i] : i \in {k \in 1..Len(p[o]) : PoolLive(p, o, k)}}
             InEvents(e) == {e[i].job : i \in {k \in 1..Len(e) : EventLive(e, o, k)}}
  <2>1. CASE o = owner /\ job.current
    <3>1. \A i : ~PoolLive(pool', o, i) /\ ~EventLive(events, o, i)
      BY <1>8, <1>11, <1>12, <2>1 DEF OneLive, PoolLive, EventLive
    <3>2. \A i : PoolLive(pool, o, i) <=> i = 1
      BY <1>11, <1>12, <2>1 DEF OneLive, PoolLive
    <3>3. \A i : EventLive(events', o, i) <=> i = m + 1
      BY <1>10, <2>1, <3>1
    <3>4. LiveJobs(pool, events, o) = {job}
      BY <1>2, <1>4, <2>1, <3>1, <3>2 DEF LiveJobs
    <3>5. LiveJobs(pool', events', o) = {job}
      BY <1>1, <1>6, <1>7, <3>1, <3>3 DEF LiveJobs
    <3> QED
      BY <3>4, <3>5
  <2>2. CASE ~(o = owner /\ job.current)
    <3>1. \A i : EventLive(events', o, i) <=> EventLive(events, o, i)
      BY <1>10, <2>2
    <3>2. InEvents(events') = InEvents(events)
      BY <1>1, <1>7, <3>1 DEF EventLive
    <3>3. InPool(pool') = InPool(pool)
      <4>1. CASE o # owner
        BY <1>3, <1>9, <4>1
      <4>2. CASE o = owner
        <5>1. ASSUME NEW k \in 1..Len(t), PoolLive(pool', o, k)
              PROVE  t[k] \in InPool(pool)
          <6>1. k + 1 \in 1..Len(q) /\ t[k] = q[k + 1]
            BY <1>1, <1>2
          <6>2. PoolLive(pool, o, k + 1)
            BY <1>8, <4>2, <5>1
          <6> QED
            BY <4>2, <6>1, <6>2
        <5>2. ASSUME NEW k \in 1..Len(q), PoolLive(pool, o, k)
              PROVE  q[k] \in InPool(pool')
          <6>1. k # 1
            BY <1>11, <2>2, <4>2, <5>2
          <6>2. /\ k - 1 \in 1..Len(t) /\ k - 1 \in Nat \ {0} /\ (k - 1) + 1 = k
                /\ t[k - 1] = q[k]
            BY <1>1, <1>2, <6>1
          <6>3. PoolLive(pool', o, k - 1)
            BY <1>1, <1>8, <4>2, <5>2, <6>2
          <6> QED
            BY <1>3, <4>2, <6>2, <6>3
        <5> QED
          BY <1>3, <4>2, <5>1, <5>2
      <4> QED
        BY <4>1, <4>2
    <3> QED
      BY <3>2, <3>3 DEF LiveJobs
  <2> QED
    BY <2>1, <2>2
<1> QED
  BY <1>17, <1>18

-----------------------------------------------------------------------------
(* The joint invariant, one step at a time.                                *)

LEMMA WindowType ==
  ASSUME NEW u, WindowOK(u)
  PROVE  /\ u \in UiType /\ u.content \in Content /\ u.camera \in Camera
         /\ u.mode \in ViewMode /\ u.last_flat_mode \in Flat
BY DEF WindowOK, UiType

LEMMA RunKeeps ==
  ASSUME WorkbenchInv, NEW owner \in Controller, Run(owner)
  PROVE  WorkbenchInv'
<1>1. /\ QueuesOK(pool', events')
      /\ \A o \in Controller : LiveJobs(pool', events', o) = LiveJobs(pool, events, o)
  BY RunQueues DEF WorkbenchInv
<1>2. UNCHANGED <<ui, world, button>>
  BY DEF Run
<1> QED
  BY <1>1, <1>2 DEF WorkbenchInv, Controller

LEMMA DropKeeps ==
  ASSUME WorkbenchInv, DropResult
  PROVE  WorkbenchInv'
<1>1. events # <<>> /\ events' = Tail(events) /\ UNCHANGED <<ui, world, pool, button>>
  BY DEF DropResult
<1>2. Head(events) = events[1] /\ 1 \in 1..Len(events)
  BY <1>1, EmptySeq, LenProperties, TailPlaces DEF WorkbenchInv, QueuesOK
<1>3. ~Head(events).job.current
  BY <1>2 DEF DropResult, Dropped, WorkbenchInv, QueuesOK
<1>4. /\ QueuesOK(pool, Tail(events))
      /\ \A o \in Controller : LiveJobs(pool, Tail(events), o) = LiveJobs(pool, events, o)
  BY <1>1, <1>3, DeliverQueues DEF WorkbenchInv
<1> QED
  BY <1>1, <1>4 DEF WorkbenchInv, Controller

(* The first result, if it is not dropped, is current, of a job that fits. *)
LEMMA Accepted ==
  ASSUME WorkbenchInv, events # <<>>, ~Dropped(Head(events))
  PROVE  LET job == Head(events).job
         IN /\ job \in Job /\ job.current /\ job.owner \in Controller
            /\ job \in LiveJobs(pool, events, job.owner)
            /\ Fits(ui, job)
            /\ Head(events).outcome \in Outcome
<1>1. Head(events) = events[1] /\ events[1] \in Result /\ 1 \in 1..Len(events)
  BY EmptySeq, LenProperties, TailPlaces DEF WorkbenchInv, QueuesOK
<1>2. events[1].job.current
  BY <1>1 DEF Dropped
<1>3. events[1].job \in Job /\ events[1].job.owner \in Controller
  BY <1>1 DEF Result, Job
<1>4. events[1].job \in LiveJobs(pool, events, events[1].job.owner)
  BY <1>1, <1>2 DEF LiveJobs, EventLive
<1> QED
  BY <1>1, <1>2, <1>3, <1>4 DEF WorkbenchInv, Result

LEMMA AcceptSceneKeeps ==
  ASSUME WorkbenchInv, AcceptBackgroundScene
  PROVE  WorkbenchInv'
<1> DEFINE result == Head(events)
           scene == SceneOf(result.job, "verified", result.outcome = "built")
           still == ApplySceneBusy(ui, FALSE)
<1>1. /\ events # <<>> /\ result.job.owner = "scene" /\ ~Dropped(result)
      /\ ui' = PresentScene(still, scene)
      /\ events' = Canceled(Tail(events), {"unfold"})
      /\ pool' = PoolCanceled({"unfold"})
      /\ UNCHANGED <<world, button>>
  BY DEF AcceptBackgroundScene, CancelJobs
<1>2. /\ result.job \in Job /\ result.job.current /\ Fits(ui, result.job)
      /\ result.outcome \in Outcome
  BY <1>1, Accepted
<1>3. /\ QueuesOK(pool, Tail(events))
      /\ LiveJobs(pool, Tail(events), "scene") = {}
  BY <1>1, <1>2, DeliverQueues DEF WorkbenchInv, Controller
<1>4. /\ QueuesOK(pool', events')
      /\ LiveJobs(pool', events', "scene") = {}
      /\ LiveJobs(pool', events', "unfold") = {}
  BY <1>1, <1>3, CancelQueues DEF Controller
<1>5. scene \in Scene /\ scene.content = ui.content /\ scene.camera = ui.camera
  BY <1>2 DEF SceneOf, Scene, Job, Fits
<1> HIDE DEF scene, result
<1>6. /\ WindowOK(still)
      /\ Changes(ui, still, {"scene_busy", "canvas_busy", "unfold_enabled"})
      /\ still.scene_busy = FALSE
  BY SceneBusyOK, SceneBusyFields, WindowType DEF WorkbenchInv
<1> HIDE DEF still
<1>7. still.content = ui.content /\ still.camera = ui.camera
  BY <1>6 DEF Changes, UiFields
<1>8. /\ WindowOK(ui') /\ ~ui'.unfold_preparing
      /\ Changes(still, ui', CancelChanges \cup {"mode", "last_flat_mode"})
  BY <1>1, <1>5, <1>6, <1>7, PresentOK
<1>9. ui'.scene_busy = FALSE /\ ui'.content = ui.content
  BY <1>6, <1>7, <1>8 DEF Changes, UiFields, CancelChanges
<1> QED
  BY <1>1, <1>4, <1>8, <1>9 DEF WorkbenchInv, Controller

LEMMA AcceptBundleKeeps ==
  ASSUME WorkbenchInv, AcceptBackgroundBundle
  PROVE  WorkbenchInv'
<1> DEFINE result == Head(events)
           idle == ApplyUnfoldBusy(ui, FALSE)
           bundle == BundleOf(result.job)
<1>1. /\ events # <<>> /\ result.job.owner = "unfold" /\ ~Dropped(result)
      /\ ui' = IF result.outcome = "built" THEN BeginUnfold(idle, bundle)
                                           ELSE UpdateUnfoldAction(idle)
      /\ events' = Tail(events) /\ UNCHANGED <<world, pool, button>>
  BY DEF AcceptBackgroundBundle
<1>2. /\ result.job \in Job /\ result.job.current /\ Fits(ui, result.job)
      /\ result.job \in LiveJobs(pool, events, "unfold")
  BY <1>1, Accepted
<1>3. /\ QueuesOK(pool', events')
      /\ LiveJobs(pool', events', "scene") = LiveJobs(pool, events, "scene")
      /\ LiveJobs(pool', events', "unfold") = {}
  BY <1>1, <1>2, DeliverQueues DEF WorkbenchInv, Controller
<1>4. /\ WindowOK(ui) /\ ui.mode = Globe
      /\ result.job.mode = ui.last_flat_mode /\ ui.last_flat_mode \in Flat
  BY <1>1, <1>2, WindowType DEF WorkbenchInv, WindowOK, Fits
<1>5. /\ WindowOK(idle)
      /\ Changes(ui, idle, {"unfold_preparing", "canvas_busy", "unfold_enabled"})
      /\ idle.unfold_preparing = FALSE
  BY <1>4, UnfoldBusyOK, UnfoldBusyFields, WindowType
<1>6. bundle \in Bundle
  BY <1>2, <1>4 DEF BundleOf, SceneOf, Bundle, Scene, Job, ViewMode
<1>7. /\ Shows(ui, bundle.globe_endpoint) /\ bundle.globe_endpoint.mode = Globe
      /\ Shows(ui, bundle.flat_endpoint)
      /\ bundle.flat_endpoint.mode = bundle.target_mode
      /\ bundle.target_mode = ui.last_flat_mode
  BY <1>2, <1>4 DEF BundleOf, SceneOf, Job, Fits, Shows, IsVerified
<1> HIDE DEF idle, bundle, result
<1>8. /\ idle.content = ui.content /\ idle.camera = ui.camera /\ idle.mode = Globe
      /\ idle.last_flat_mode = ui.last_flat_mode /\ idle.scene_busy = ui.scene_busy
  BY <1>4, <1>5 DEF Changes, UiFields
<1>9. /\ WindowOK(ui')
      /\ Changes(idle, ui', {"unfold", "unfold_target", "canvas_camera",
                             "unfold_animating", "scene_verified", "unfold_enabled"})
  <2>1. CASE result.outcome = "built"
    BY <1>1, <1>5, <1>6, <1>7, <1>8, <2>1, BeginOK DEF Shows
  <2>2. CASE result.outcome # "built"
    BY <1>1, <1>5, <2>2, UpdateOK DEF Changes
  <2> QED
    BY <2>1, <2>2
<1>10. /\ ui'.content = ui.content /\ ui'.camera = ui.camera
       /\ ui'.last_flat_mode = ui.last_flat_mode
       /\ ui'.scene_busy = ui.scene_busy /\ ~ui'.unfold_preparing
  BY <1>5, <1>8, <1>9 DEF Changes, UiFields
<1>11. \A job \in LiveJobs(pool', events', "scene") : Fits(ui', job)
  BY <1>3, <1>10 DEF WorkbenchInv, Fits, Controller
<1> QED
  BY <1>1, <1>3, <1>9, <1>10, <1>11 DEF WorkbenchInv, Controller

LEMMA FinishKeeps ==
  ASSUME WorkbenchInv, FinishUnfoldAnimation
  PROVE  WorkbenchInv'
<1>1. /\ WindowOK(ui')
      /\ Changes(ui, ui', {"scene", "unfold", "canvas_camera", "mode", "last_flat_mode",
                           "unfold_animating", "scene_verified", "unfold_enabled"})
      /\ ui'.last_flat_mode = ui.last_flat_mode
  BY FinishOK DEF FinishUnfoldAnimation, WorkbenchInv
<1>2. /\ ui'.content = ui.content /\ ui'.camera = ui.camera
      /\ ui'.scene_busy = ui.scene_busy /\ ui'.unfold_preparing = ui.unfold_preparing
  BY <1>1 DEF Changes, UiFields
<1>3. UNCHANGED <<world, pool, events, button>>
  BY DEF FinishUnfoldAnimation
<1> QED
  BY <1>1, <1>2, <1>3 DEF WorkbenchInv, Fits

NewJob(owner, mode, camera, content) ==
  [owner |-> owner, mode |-> mode, camera |-> camera, content |-> content,
   current |-> TRUE]

(* This job is the only current one of its owner, these owners have none.  *)
Requested(owners, job) ==
  \A o \in Controller :
    LiveJobs(pool', events', o) =
      IF o = job.owner THEN {job}
      ELSE IF o \in owners THEN {} ELSE LiveJobs(pool, events, o)

(* A request of a controller, with what it cancels before.                 *)
LEMMA RequestQueues ==
  ASSUME QueuesOK(pool, events), NEW owners, NEW owner \in Controller,
         NEW mode \in ViewMode, NEW camera \in Camera, NEW content \in Content,
         StartJob(owners, owner, mode, camera, content),
         events' = Canceled(events, owners \cup {owner})
  PROVE  /\ QueuesOK(pool', events')
         /\ Requested(owners, NewJob(owner, mode, camera, content))
<1> DEFINE job == NewJob(owner, mode, camera, content)
           p == PoolCanceled(owners \cup {owner})
<1>1. job \in Job /\ job.owner = owner /\ job.current
  BY DEF Job, NewJob
<1>2. /\ QueuesOK(p, events')
      /\ \A o \in Controller :
           LiveJobs(p, events', o) =
             IF o \in owners \cup {owner} THEN {} ELSE LiveJobs(pool, events, o)
  BY CancelQueues
<1>3. pool' = Enqueued(p, owner, job)
  BY DEF StartJob, NewJob, Enqueued
<1> HIDE DEF job, p
<1>4. QueuesOK(p, events') /\ Idle(p, events', owner)
  BY <1>2 DEF Idle
<1>5. QueuesOK(pool', events') /\ Gains(p, pool', events', owner, job)
  BY <1>1, <1>3, <1>4, EnqueueQueues
<1> QED
  BY <1>1, <1>2, <1>5 DEF job, Gains, Requested

LEMMA ContentKeeps ==
  ASSUME WorkbenchInv, NEW content \in Content, SetContent(content)
  PROVE  WorkbenchInv'
<1> DEFINE v == Cleared(ui, content)
<1>1. /\ ui' = ApplySceneBusy(v, TRUE)
      /\ StartJob({"unfold"}, "scene", v.mode, v.camera, content)
      /\ events' = Canceled(events, {"unfold"} \cup {"scene"})
      /\ world' = [c \in Controller |-> content] /\ UNCHANGED button
  BY DEF SetContent, RequestVerified, Cleared
<1>2. /\ WindowOK(ui') /\ v.mode = ui.mode /\ v.camera = ui.camera
      /\ ui'.content = content /\ ui'.camera = ui.camera
      /\ ui'.scene_busy /\ ~ui'.unfold_preparing
  BY <1>1, ContentOK DEF WorkbenchInv
<1> HIDE DEF v
<1>3. ui.mode \in ViewMode /\ ui.camera \in Camera
  BY WindowType DEF WorkbenchInv
<1> DEFINE job == NewJob("scene", ui.mode, ui.camera, content)
<1>4. /\ QueuesOK(pool', events')
      /\ LiveJobs(pool', events', "scene") = {job}
      /\ LiveJobs(pool', events', "unfold") = {}
  <2>1. StartJob({"unfold"}, "scene", ui.mode, ui.camera, content)
    BY <1>1, <1>2, <1>3
  <2>2. "scene" \in Controller /\ QueuesOK(pool, events)
    BY DEF Controller, WorkbenchInv
  <2>3. QueuesOK(pool', events') /\ Requested({"unfold"}, job)
    BY <1>1, <1>2, <1>3, <2>1, <2>2, RequestQueues
  <2>4. job.owner = "scene"
    BY DEF NewJob
  <2> HIDE DEF job
  <2> QED
    BY <2>3, <2>4 DEF Requested, Controller
<1>5. Fits(ui', job)
  BY <1>2 DEF NewJob, Fits
<1> QED
  BY <1>1, <1>2, <1>4, <1>5 DEF WorkbenchInv, Controller

LEMMA KeepModeKeeps ==
  ASSUME WorkbenchInv, NEW mode \in ViewMode, KeepMode(mode)
  PROVE  WorkbenchInv'
<1>1. /\ ui' = UpdateUnfoldAction([ui EXCEPT !.unfold_preparing = FALSE])
      /\ pool' = PoolCanceled(EndedPreparation)
      /\ events' = Canceled(events, EndedPreparation)
      /\ UNCHANGED <<world, button>> /\ ~ui.unfold_animating
  BY DEF KeepMode, CancelJobs
<1>2. /\ QueuesOK(pool', events')
      /\ LiveJobs(pool', events', "scene") = LiveJobs(pool, events, "scene")
      /\ LiveJobs(pool', events', "unfold") = {}
  BY <1>1, CancelQueues DEF WorkbenchInv, Controller, EndedPreparation
<1>3. /\ WindowOK(ui') /\ ~ui'.unfold_preparing
      /\ Changes(ui, ui', {"unfold_preparing", "unfold_enabled"})
  BY <1>1, KeptOK DEF WorkbenchInv
<1>4. /\ ui'.content = ui.content /\ ui'.camera = ui.camera
      /\ ui'.scene_busy = ui.scene_busy /\ ui'.last_flat_mode = ui.last_flat_mode
  BY <1>3 DEF Changes, UiFields
<1>5. \A job \in LiveJobs(pool', events', "scene") : Fits(ui', job)
  BY <1>2, <1>4 DEF WorkbenchInv, Fits, Controller
<1> QED
  BY <1>1, <1>2, <1>3, <1>4, <1>5 DEF WorkbenchInv, Controller

LEMMA ChangeModeKeeps ==
  ASSUME WorkbenchInv, NEW mode \in ViewMode, ChangeMode(mode)
  PROVE  WorkbenchInv'
<1> DEFINE v == ModeChosen(ui, mode)
<1>1. /\ ui' = ApplySceneBusy(v, TRUE) /\ ~ui.unfold_animating
      /\ StartJob(EndedPreparation, "scene", v.mode, v.camera, world["scene"])
      /\ events' = Canceled(events, EndedPreparation \cup {"scene"})
      /\ UNCHANGED <<world, button>>
  BY DEF ChangeMode, RequestVerified, ModeChosen
<1>2. /\ WindowOK(ui') /\ v.mode = mode /\ v.camera = ui.camera
      /\ ui'.content = ui.content /\ ui'.camera = ui.camera
      /\ ui'.scene_busy /\ ~ui'.unfold_preparing
  BY <1>1, ModeOK DEF WorkbenchInv
<1> HIDE DEF v
<1>3. ui.camera \in Camera /\ ui.content \in Content /\ world["scene"] = ui.content
  BY WindowType DEF WorkbenchInv, Controller
<1> DEFINE job == NewJob("scene", mode, ui.camera, ui.content)
<1>4. /\ QueuesOK(pool', events')
      /\ LiveJobs(pool', events', "scene") = {job}
      /\ LiveJobs(pool', events', "unfold") =
           IF "unfold" \in EndedPreparation THEN {} ELSE LiveJobs(pool, events, "unfold")
  <2>1. StartJob(EndedPreparation, "scene", mode, ui.camera, ui.content)
    BY <1>1, <1>2, <1>3
  <2>2. "scene" \in Controller /\ QueuesOK(pool, events)
    BY DEF Controller, WorkbenchInv
  <2>3. QueuesOK(pool', events') /\ Requested(EndedPreparation, job)
    BY <1>1, <1>2, <1>3, <2>1, <2>2, RequestQueues
  <2>4. job.owner = "scene"
    BY DEF NewJob
  <2> HIDE DEF job
  <2> QED
    BY <2>3, <2>4 DEF Requested, Controller
<1>5. LiveJobs(pool', events', "unfold") = {}
  BY <1>4 DEF EndedPreparation, WorkbenchInv
<1>6. Fits(ui', job)
  BY <1>2 DEF NewJob, Fits
<1> QED
  BY <1>1, <1>2, <1>4, <1>5, <1>6 DEF WorkbenchInv, Controller

LEMMA StartUnfoldKeeps ==
  ASSUME WorkbenchInv, StartUnfold
  PROVE  WorkbenchInv'
<1>1. /\ UnfoldAllowed(ui)
      /\ ui' = ApplyUnfoldBusy([ui EXCEPT !.unfold_target = ui.last_flat_mode], TRUE)
      /\ StartJob({"scene"}, "unfold", ui.last_flat_mode, ui.camera, world["unfold"])
      /\ events' = Canceled(events, {"scene"} \cup {"unfold"})
      /\ UNCHANGED <<world, button>>
  <2>1. {"scene", "unfold"} = {"scene"} \cup {"unfold"}
    OBVIOUS
  <2> QED
    BY <2>1 DEF StartUnfold
<1>2. /\ WindowOK(ui') /\ ui'.unfold_preparing
      /\ Changes(ui, ui', {"unfold_target", "unfold_preparing", "canvas_busy",
                           "unfold_enabled"})
  BY <1>1, StartOK DEF WorkbenchInv
<1>3. /\ ui'.content = ui.content /\ ui'.camera = ui.camera
      /\ ui'.scene_busy = ui.scene_busy /\ ui'.last_flat_mode = ui.last_flat_mode
  BY <1>2 DEF Changes, UiFields
<1>4. /\ ui.camera \in Camera /\ ui.content \in Content /\ world["unfold"] = ui.content
      /\ ui.last_flat_mode \in ViewMode
  BY WindowType DEF WorkbenchInv, Controller, ViewMode
<1> DEFINE job == NewJob("unfold", ui.last_flat_mode, ui.camera, ui.content)
<1>5. /\ QueuesOK(pool', events')
      /\ LiveJobs(pool', events', "scene") = {}
      /\ LiveJobs(pool', events', "unfold") = {job}
  <2>1. StartJob({"scene"}, "unfold", ui.last_flat_mode, ui.camera, ui.content)
    BY <1>1, <1>4
  <2>2. "unfold" \in Controller /\ QueuesOK(pool, events)
    BY DEF Controller, WorkbenchInv
  <2>3. QueuesOK(pool', events') /\ Requested({"scene"}, job)
    BY <1>1, <1>4, <2>1, <2>2, RequestQueues
  <2>4. job.owner = "unfold"
    BY DEF NewJob
  <2> HIDE DEF job
  <2> QED
    BY <2>3, <2>4 DEF Requested, Controller
<1>6. Fits(ui', job) /\ ui'.scene_busy = FALSE
  BY <1>1, <1>2, <1>3 DEF NewJob, Fits, UnfoldAllowed, WindowOK, UiType
<1> QED
  BY <1>1, <1>2, <1>3, <1>5, <1>6 DEF WorkbenchInv, Controller

LEMMA PressKeeps ==
  ASSUME WorkbenchInv, MousePress \/ MouseReleaseIgnored
  PROVE  WorkbenchInv'
<1>1. CASE MouseReleaseIgnored
  BY <1>1 DEF MouseReleaseIgnored, WorkbenchInv
<1>2. CASE MousePress
  <2>1. ui \in UiType
    BY WindowType DEF WorkbenchInv
  <2>2. Changes(ui, ui', {"dragging"})
    BY <1>2, <2>1 DEF MousePress, UiType, Changes, UiFields
  <2>3. WindowOK(ui')
    BY <2>2 DEF WorkbenchInv, WindowOK, Changes, UiFields, Shows, BundleFits, UnfoldAllowed
  <2>4. /\ ui'.content = ui.content /\ ui'.camera = ui.camera
        /\ ui'.scene_busy = ui.scene_busy /\ ui'.last_flat_mode = ui.last_flat_mode
        /\ ui'.unfold_preparing = ui.unfold_preparing
    BY <2>2 DEF Changes, UiFields
  <2>5. UNCHANGED <<world, pool, events>> /\ button' \in BOOLEAN
    BY <1>2 DEF MousePress
  <2> QED
    BY <2>3, <2>4, <2>5 DEF WorkbenchInv, Fits
<1> QED
  BY <1>1, <1>2

LEMMA MoveKeeps ==
  ASSUME WorkbenchInv, NEW camera \in Camera, NEW ok \in BOOLEAN, MouseMove(camera, ok)
  PROVE  WorkbenchInv'
<1> DEFINE moved == CameraMoved(ui, camera)
           idle == ApplySceneBusy(moved, FALSE)
           scene == SceneOf([mode |-> Globe, camera |-> camera, content |-> world["scene"]],
                            "preview", ok)
<1>1. /\ ui.unfold = NoBundle
      /\ ui' = PresentScene(idle, scene)
      /\ pool' = PoolCanceled({"scene", "unfold"})
      /\ events' = Canceled(events, {"scene", "unfold"})
      /\ UNCHANGED <<world, button>>
  BY DEF MouseMove, CancelJobs
<1>2. /\ QueuesOK(pool', events')
      /\ LiveJobs(pool', events', "scene") = {}
      /\ LiveJobs(pool', events', "unfold") = {}
  BY <1>1, CancelQueues DEF WorkbenchInv, Controller
<1>3. /\ WindowOK(moved) /\ moved.camera = camera
      /\ Changes(ui, moved, {"canvas_camera", "camera", "scene_verified", "unfold_enabled"})
  BY <1>1, CameraMovedOK DEF WorkbenchInv
<1>4. ui.content \in Content /\ world["scene"] = ui.content
  BY WindowType DEF WorkbenchInv, Controller
<1>5. scene \in Scene /\ scene.content = ui.content /\ scene.camera = camera
  BY <1>4 DEF SceneOf, Scene, ViewMode
<1> HIDE DEF moved, scene
<1>6. /\ WindowOK(idle) /\ idle.scene_busy = FALSE
      /\ Changes(moved, idle, {"scene_busy", "canvas_busy", "unfold_enabled"})
  BY <1>3, SceneBusyOK, SceneBusyFields, WindowType
<1> HIDE DEF idle
<1>7. idle.content = ui.content /\ idle.camera = camera
  BY <1>3, <1>6 DEF Changes, UiFields
<1>8. /\ WindowOK(ui') /\ ~ui'.unfold_preparing
      /\ Changes(idle, ui', CancelChanges \cup {"mode", "last_flat_mode"})
  BY <1>1, <1>5, <1>6, <1>7, PresentOK
<1>9. ui'.scene_busy = FALSE /\ ui'.content = ui.content
  BY <1>6, <1>7, <1>8 DEF Changes, UiFields, CancelChanges
<1> QED
  BY <1>1, <1>2, <1>8, <1>9 DEF WorkbenchInv, Controller

LEMMA ReleaseKeeps ==
  ASSUME WorkbenchInv, MouseRelease
  PROVE  WorkbenchInv'
<1> DEFINE still == [ui EXCEPT !.dragging = FALSE]
           moved == CameraMoved(still, ui.canvas_camera)
<1>1. /\ ui.unfold = NoBundle /\ button' \in BOOLEAN
      /\ ui' = ApplySceneBusy(moved, TRUE)
      /\ StartJob({}, "scene", Globe, ui.canvas_camera, world["scene"])
      /\ events' = Canceled(events, {} \cup {"scene"})
      /\ UNCHANGED world
  <2>1. {} \cup {"scene"} = {"scene"}
    OBVIOUS
  <2> QED
    BY <2>1 DEF MouseRelease
<1>2. /\ ui \in UiType /\ ui.camera \in Camera /\ ui.content \in Content
      /\ ui.canvas_camera = ui.camera /\ world["scene"] = ui.content
      /\ Globe \in ViewMode
  BY WindowType DEF WorkbenchInv, WindowOK, Controller, ViewMode
<1>3. Changes(ui, still, {"dragging"})
  BY <1>2 DEF UiType, Changes, UiFields
<1> HIDE DEF still
<1>4. WindowOK(still) /\ still.unfold = NoBundle
  BY <1>1, <1>3 DEF WorkbenchInv, WindowOK, Changes, UiFields, Shows, BundleFits, UnfoldAllowed
<1>5. /\ WindowOK(moved) /\ moved.camera = ui.camera
      /\ Changes(still, moved, {"canvas_camera", "camera", "scene_verified",
                                "unfold_enabled"})
  BY <1>2, <1>4, CameraMovedOK
<1> HIDE DEF moved
<1>6. /\ WindowOK(ui') /\ ui'.scene_busy = TRUE
      /\ Changes(moved, ui', {"scene_busy", "canvas_busy", "unfold_enabled"})
  BY <1>1, <1>5, SceneBusyOK, SceneBusyFields, WindowType
<1>7. /\ ui'.content = ui.content /\ ui'.camera = ui.camera
      /\ ui'.last_flat_mode = ui.last_flat_mode
      /\ ui'.unfold_preparing = ui.unfold_preparing
  BY <1>3, <1>5, <1>6 DEF Changes, UiFields
<1> DEFINE job == NewJob("scene", Globe, ui.camera, ui.content)
<1>8. /\ QueuesOK(pool', events')
      /\ LiveJobs(pool', events', "scene") = {job}
      /\ LiveJobs(pool', events', "unfold") = LiveJobs(pool, events, "unfold")
  <2>1. StartJob({}, "scene", Globe, ui.camera, ui.content)
    BY <1>1, <1>2
  <2>2. "scene" \in Controller /\ QueuesOK(pool, events)
    BY DEF Controller, WorkbenchInv
  <2>3. QueuesOK(pool', events') /\ Requested({}, job)
    BY <1>1, <1>2, <2>1, <2>2, RequestQueues
  <2>4. job.owner = "scene"
    BY DEF NewJob
  <2> HIDE DEF job
  <2> QED
    BY <2>3, <2>4 DEF Requested, Controller
<1>9. /\ Fits(ui', job)
      /\ \A j \in LiveJobs(pool', events', "unfold") : Fits(ui', j)
  BY <1>7, <1>8 DEF NewJob, Fits, WorkbenchInv, Controller
<1> QED
  BY <1>1, <1>6, <1>7, <1>8, <1>9 DEF WorkbenchInv, Controller

-----------------------------------------------------------------------------
LEMMA InitEstablishes ==
  ASSUME Init
  PROVE  WorkbenchInv
<1>1. PICK camera \in Camera, content \in Content :
        /\ ui = [content |-> content, mode |-> Globe, last_flat_mode |-> Mollweide,
                 unfold_target |-> Mollweide, camera |-> camera, scene_busy |-> TRUE,
                 unfold_preparing |-> FALSE, unfold_animating |-> FALSE,
                 scene_verified |-> FALSE, unfold_enabled |-> FALSE,
                 scene |-> DefaultScene(camera, content), unfold |-> NoBundle,
                 canvas_camera |-> camera, canvas_busy |-> TRUE, dragging |-> FALSE]
        /\ world = [c \in Controller |-> content]
        /\ pool = [c \in Controller |->
             IF c = "scene"
             THEN <<[owner |-> "scene", mode |-> Globe, camera |-> camera,
                     content |-> content, current |-> TRUE]>>
             ELSE <<>>]
        /\ events = <<>>
        /\ button = FALSE
  BY DEF Init
<1> DEFINE job == NewJob("scene", Globe, camera, content)
<1>2. /\ job \in Job /\ job.owner = "scene" /\ job.current
      /\ job.content = content /\ job.camera = camera
  BY DEF Job, Controller, ViewMode, NewJob
<1>3. /\ pool = [c \in Controller |-> IF c = "scene" THEN <<job>> ELSE <<>>]
      /\ events = <<>>
  BY <1>1 DEF NewJob
<1> HIDE DEF job
<1>4. /\ QueuesOK(pool, events)
      /\ LiveJobs(pool, events, "scene") = {job}
      /\ LiveJobs(pool, events, "unfold") = {}
  <2>1. /\ pool["scene"] = <<job>> /\ Len(pool["scene"]) = 1 /\ pool["scene"][1] = job
        /\ pool["unfold"] = <<>> /\ Len(pool["unfold"]) = 0
        /\ Len(events) = 0
    BY <1>3 DEF Controller
  <2>2. pool \in [Controller -> Seq(Job)] /\ events \in Seq(Result)
    BY <1>2, <1>3
  <2>3. /\ \A i : PoolLive(pool, "scene", i) <=> i = 1
        /\ \A i : ~PoolLive(pool, "unfold", i)
        /\ \A o, i : ~EventLive(events, o, i)
    BY <1>2, <2>1 DEF PoolLive, EventLive
  <2>4. \A owner \in Controller : \A i \in 1..Len(pool[owner]) : pool[owner][i].owner = owner
    BY <1>2, <2>1 DEF Controller
  <2>5. QueuesOK(pool, events)
    BY <2>1, <2>2, <2>3, <2>4 DEF QueuesOK, OneLive, Controller
  <2>6. LiveJobs(pool, events, "scene") = {job} /\ LiveJobs(pool, events, "unfold") = {}
    BY <2>1, <2>3 DEF LiveJobs
  <2> QED
    BY <2>5, <2>6
<1>5. WindowOK(ui)
  <2>1. Globe \in ViewMode /\ Mollweide \in Flat
    BY WorkbenchAssumption DEF ViewMode
  <2>2. DefaultScene(camera, content) \in Scene
    BY <2>1 DEF DefaultScene, Scene
  <2>3. ui \in UiType
    BY <1>1, <2>1, <2>2 DEF UiType
  <2> QED
    BY <1>1, <2>3 DEF WindowOK, UnfoldAllowed, BundleFits
<1>6. /\ ui.content = content /\ ui.camera = camera
      /\ ui.scene_busy = TRUE /\ ui.unfold_preparing = FALSE
  BY <1>1
<1>7. Fits(ui, job)
  BY <1>2, <1>6 DEF Fits
<1> QED
  BY <1>1, <1>4, <1>5, <1>6, <1>7 DEF WorkbenchInv, Controller

LEMMA StepKeeps ==
  ASSUME WorkbenchInv, [Next]_vars
  PROVE  WorkbenchInv'
<1>1. CASE UserNext
  <2>1. CASE \E content \in Content : SetContent(content)
    BY <2>1, ContentKeeps
  <2>2. CASE \E mode \in ViewMode : KeepMode(mode) \/ ChangeMode(mode)
    BY <2>2, KeepModeKeeps, ChangeModeKeeps
  <2>3. CASE StartUnfold
    BY <2>3, StartUnfoldKeeps
  <2>4. CASE MousePress \/ MouseReleaseIgnored
    BY <2>4, PressKeeps
  <2>5. CASE MouseRelease
    BY <2>5, ReleaseKeeps
  <2>6. CASE \E camera \in Camera, ok \in BOOLEAN : MouseMove(camera, ok)
    BY <2>6, MoveKeeps
  <2> QED
    BY <1>1, <2>1, <2>2, <2>3, <2>4, <2>5, <2>6 DEF UserNext
<1>2. CASE WorkNext
  <2>1. CASE \E owner \in Controller : Run(owner)
    BY <2>1, RunKeeps
  <2>2. CASE DropResult
    BY <2>2, DropKeeps
  <2>3. CASE AcceptBackgroundScene
    BY <2>3, AcceptSceneKeeps
  <2>4. CASE AcceptBackgroundBundle
    BY <2>4, AcceptBundleKeeps
  <2>5. CASE FinishUnfoldAnimation
    BY <2>5, FinishKeeps
  <2> QED
    BY <1>2, <2>1, <2>2, <2>3, <2>4, <2>5 DEF WorkNext, Deliver
<1>3. CASE UNCHANGED vars
  BY <1>3 DEF vars, WorkbenchInv
<1> QED
  BY <1>1, <1>2, <1>3 DEF Next

LEMMA WorkbenchInvariant == WorkbenchSpec => []WorkbenchInv
BY InitEstablishes, StepKeeps, PTL DEF WorkbenchSpec

(* What the invariant says of the current jobs is what the module says.    *)
LEMMA CurrentAreLive ==
  ASSUME WorkbenchInv, NEW owner \in Controller
  PROVE  CurrentJobs(owner) = LiveJobs(pool, events, owner)
<1>1. /\ pool[owner] \in Seq(Job) /\ DOMAIN pool[owner] = 1..Len(pool[owner])
      /\ events \in Seq(Result) /\ DOMAIN events = 1..Len(events)
  BY LenProperties DEF WorkbenchInv, QueuesOK
<1>2. ASSUME NEW job \in CurrentJobs(owner)
      PROVE  job \in LiveJobs(pool, events, owner)
  BY <1>1, <1>2 DEF CurrentJobs, Outstanding, LiveJobs, PoolLive, EventLive
<1>3. ASSUME NEW job \in LiveJobs(pool, events, owner)
      PROVE  job \in CurrentJobs(owner)
  BY <1>1, <1>3 DEF CurrentJobs, Outstanding, LiveJobs, PoolLive, EventLive
<1> QED
  BY <1>2, <1>3

LEMMA InvariantImplies ==
  ASSUME WorkbenchInv
  PROVE  /\ WorkbenchTypeOK /\ VerifiedIsShown /\ AcceptableIsCurrent
         /\ FlagsAreWork /\ UnfoldActionIsGuard
<1>1. WorkbenchTypeOK
  BY DEF WorkbenchInv, WindowOK, QueuesOK, UiType, WorkbenchTypeOK
<1>2. VerifiedIsShown
  BY DEF WorkbenchInv, WindowOK, Shows, VerifiedIsShown
<1>3. AcceptableIsCurrent
  <2>1. ASSUME NEW owner \in Controller, NEW job \in CurrentJobs(owner)
        PROVE  Fits(ui, job) /\ job.owner = owner
    <3>1. job \in LiveJobs(pool, events, owner)
      BY CurrentAreLive
    <3>2. Fits(ui, job)
      BY <3>1 DEF WorkbenchInv
    <3>3. job.owner = owner
      BY <3>1 DEF LiveJobs, PoolLive, EventLive, WorkbenchInv, QueuesOK
    <3> QED
      BY <3>2, <3>3
  <2> QED
    BY <2>1 DEF AcceptableIsCurrent, Fits, WorkbenchInv, WindowOK, BundleFits, Shows
<1>4. FlagsAreWork
  <2>1. /\ CurrentJobs("scene") = LiveJobs(pool, events, "scene")
        /\ CurrentJobs("unfold") = LiveJobs(pool, events, "unfold")
    BY CurrentAreLive DEF Controller
  <2> QED
    BY <2>1 DEF FlagsAreWork, WorkbenchInv, WindowOK
<1>5. UnfoldActionIsGuard
  BY DEF UnfoldActionIsGuard, WorkbenchInv, WindowOK
<1> QED
  BY <1>1, <1>2, <1>3, <1>4, <1>5

-----------------------------------------------------------------------------
(* The fields of the window, the jobs and the posted results keep their    *)
(* types, for any contents, modes and cameras.                             *)
THEOREM WorkbenchTyping == WorkbenchSpec => []WorkbenchTypeOK
BY WorkbenchInvariant, InvariantImplies, PTL

(* MainWindow::verified_: whenever the window calls the view verified, the *)
(* canvas shows, outside a transition, a verified scene of the mode, the   *)
(* content and the camera of the window.                                   *)
THEOREM VerifiedViewIsShown == WorkbenchSpec => []VerifiedIsShown
BY WorkbenchInvariant, InvariantImplies, PTL

(* The generations of the two controllers: a result that can still be      *)
(* accepted is for the content, the camera and the flat mode of the window *)
(* however requests, cancellations and answers interleave.                 *)
THEOREM NothingObsoleteIsAccepted == WorkbenchSpec => []AcceptableIsCurrent
BY WorkbenchInvariant, InvariantImplies, PTL

(* busy_ and the transition's flags: the interface is locked exactly while *)
(* a job or an animation is under way that will unlock it.                 *)
THEOREM LockedWhileWorking == WorkbenchSpec => []FlagsAreWork
BY WorkbenchInvariant, InvariantImplies, PTL

(* update_unfold_action: the action is enabled exactly when start_unfold   *)
(* would start.                                                            *)
THEOREM UnfoldOfferedWhenPossible == WorkbenchSpec => []UnfoldActionIsGuard
BY WorkbenchInvariant, InvariantImplies, PTL

=============================================================================

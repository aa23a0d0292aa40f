------------------------------- MODULE Workbench -------------------------------
(***************************************************************************)
(* The interactive viewer: MainWindow and MapCanvas on the UI thread, and  *)
(* the SceneController and UnfoldController whose jobs run on a pool       *)
(* thread each and post their results back to the UI thread                *)
(* (src/viewer/main_window.cpp, map_canvas.cpp, scene_controller.cpp,      *)
(* unfold_controller.cpp).                                                 *)
(*                                                                         *)
(* A step is one UI event with everything its handler calls, or one job    *)
(* that finishes.  The handlers are functions of `ui', the fields of the   *)
(* window and its canvas, composed in the order of the code.               *)
(*                                                                         *)
(* A controller's generation_ is only compared with the generations of its *)
(* outstanding jobs, so each job keeps whether its generation is the       *)
(* current one.  cancel() also sets the token of the latest job; a job     *)
(* that polls it in time reports canceled.                                 *)
(*                                                                         *)
(* Abstracted: geometry (a scene is what was asked for and whether it was  *)
(* built), zoom, progress of the animation, texts, layer visibility, and   *)
(* the toolbar being disabled during the animation, which the handlers     *)
(* check themselves.                                                       *)
(***************************************************************************)
EXTENDS Naturals, Sequences

CONSTANTS
  Globe,        (* ViewMode::globe.                                        *)
  Flat,         (* the planar view modes.                                  *)
  Mollweide,    (* the initial last_flat_mode_.                            *)
  Content,      (* MapContent, and the world of each.                      *)
  Camera,       (* longitude and latitude.                                 *)
  NoBundle,     (* unfold_ holds nothing.                                  *)
  MaxJobs       (* bound: jobs and results outstanding.                    *)

ASSUME WorkbenchAssumption ==
  /\ Globe \notin Flat
  /\ Mollweide \in Flat
  /\ MaxJobs \in Nat \ {0}

VARIABLES
  ui,           (* MainWindow and MapCanvas.                               *)
  world,        (* world_ of each controller.                              *)
  pool,         (* the jobs of each controller, the first one running.     *)
  events,       (* results posted to the UI thread.                        *)
  button        (* whether the left mouse button is down.                  *)

vars == <<ui, world, pool, events, button>>

Controller == {"scene", "unfold"}
ViewMode == {Globe} \cup Flat
Scene ==
  [mode : ViewMode, quality : {"preview", "verified"}, camera : Camera,
   content : Content, ok : BOOLEAN]
Bundle == [globe_endpoint : Scene, flat_endpoint : Scene, target_mode : Flat]
Job ==
  [owner : Controller, mode : ViewMode, camera : Camera, content : Content,
   current : BOOLEAN]
Outcome == {"built", "failed", "canceled"}
Result == [job : Job, outcome : Outcome]

ASSUME NoBundleAssumption == NoBundle \notin Bundle

-----------------------------------------------------------------------------
(* The window and the canvas.                                              *)

UnfoldAllowed(u) ==
  /\ u.mode = Globe
  /\ u.scene_verified
  /\ ~u.scene_busy /\ ~u.unfold_preparing /\ ~u.unfold_animating

UpdateUnfoldAction(u) == [u EXCEPT !.unfold_enabled = UnfoldAllowed(u)]

RefreshInteractionState_BadgeOnly(u) ==
  [u EXCEPT !.canvas_busy = u.scene_busy \/ u.unfold_preparing]
RefreshInteractionState(u) ==
  LET shown == [u EXCEPT !.canvas_busy = u.scene_busy \/ u.unfold_preparing]
  IN IF u.unfold_animating THEN shown ELSE UpdateUnfoldAction(shown)

ApplySceneBusy(u, busy) == RefreshInteractionState([u EXCEPT !.scene_busy = busy])
ApplyUnfoldBusy(u, busy) ==
  RefreshInteractionState([u EXCEPT !.unfold_preparing = busy])

IsVerified(scene) == scene.ok /\ scene.quality = "verified"

(* What the canvas holds once it shows this scene and no transition.       *)
Showing(u, scene) ==
  [u EXCEPT !.scene = scene, !.unfold = NoBundle, !.canvas_camera = scene.camera]

(* With unfold_controller_.cancel().                                       *)
CancelUnfoldActivity_KeepsFlag(u) ==
  IF u.unfold_animating THEN Showing(u, u.unfold.globe_endpoint) ELSE u
CancelUnfoldActivity(u) ==
  LET idle == [u EXCEPT !.unfold_preparing = FALSE, !.unfold_animating = FALSE]
  IN IF u.unfold_animating
     THEN UpdateUnfoldAction(
            [Showing(idle, u.unfold.globe_endpoint) EXCEPT
               !.scene_verified = IsVerified(u.unfold.globe_endpoint)])
     ELSE UpdateUnfoldAction(idle)

InMode(u, mode) ==
  [u EXCEPT !.mode = mode,
            !.last_flat_mode = IF mode = Globe THEN @ ELSE mode]

PresentScene_AlwaysVerified(u, scene) ==
  UpdateUnfoldAction(
    [Showing(InMode(CancelUnfoldActivity(u), scene.mode), scene) EXCEPT
       !.scene_verified = TRUE])
PresentScene(u, scene) ==
  UpdateUnfoldAction(
    [Showing(InMode(CancelUnfoldActivity(u), scene.mode), scene) EXCEPT
       !.scene_verified = IsVerified(scene)])

-----------------------------------------------------------------------------
(* The controllers.                                                        *)

Stale(job, owners) == [job EXCEPT !.current = job.current /\ job.owner \notin owners]

(* cancel(): the generation moves on, in the pool and for posted results.  *)
PoolCanceled(owners) ==
  [c \in Controller |-> [i \in DOMAIN pool[c] |-> Stale(pool[c][i], owners)]]
Canceled(queue, owners) ==
  [i \in DOMAIN queue |-> [queue[i] EXCEPT !.job = Stale(@, owners)]]

CancelJobs(owners) == pool' = PoolCanceled(owners)

(* request(): cancel the previous job of the owner, enqueue the new one.   *)
StartJob(owners, owner, mode, camera, content) ==
  pool' = [PoolCanceled(owners \cup {owner}) EXCEPT
             ![owner] = Append(@, [owner |-> owner, mode |-> mode, camera |-> camera,
                                   content |-> content, current |-> TRUE])]

Room == Len(pool["scene"]) + Len(pool["unfold"]) + Len(events) < MaxJobs

(* The pool thread of a controller finishes its job and posts the result.  *)
Run(owner) ==
  /\ pool[owner] # <<>>
  /\ \E outcome \in Outcome :
       /\ Head(pool[owner]).current => outcome # "canceled"
       /\ events' = Append(events, [job |-> Head(pool[owner]), outcome |-> outcome])
  /\ pool' = [pool EXCEPT ![owner] = Tail(@)]
  /\ UNCHANGED <<ui, world, button>>

SceneOf(job, quality, ok) ==
  [mode |-> job.mode, quality |-> quality, camera |-> job.camera,
   content |-> job.content, ok |-> ok]

(* accept_background_scene, accept_background_bundle: what they drop.      *)
Dropped_CanceledOnly(result) == result.outcome = "canceled"
Dropped_Unbuilt(result) == ~result.job.current \/ result.outcome # "built"
Dropped(result) == ~result.job.current \/ result.outcome = "canceled"

DropResult ==
  /\ events # <<>>
  /\ Dropped(Head(events))
  /\ events' = Tail(events)
  /\ UNCHANGED <<ui, world, pool, button>>

(* present_scene also cancels the unfold controller.                       *)
AcceptBackgroundScene ==
  /\ events # <<>>
  /\ LET result == Head(events)
         scene == SceneOf(result.job, "verified", result.outcome = "built")
     IN /\ result.job.owner = "scene"
        /\ ~Dropped(result)
        /\ ui' = PresentScene(ApplySceneBusy(ui, FALSE), scene)
  /\ events' = Canceled(Tail(events), {"unfold"})
  /\ CancelJobs({"unfold"})
  /\ UNCHANGED <<world, button>>

BundleOf(job) ==
  [globe_endpoint |-> SceneOf([job EXCEPT !.mode = Globe], "verified", TRUE),
   flat_endpoint |-> SceneOf(job, "verified", TRUE), target_mode |-> job.mode]

(* accept_unfold_bundle of a bundle whose endpoints are both verified.     *)
BeginUnfold(u, bundle) ==
  [u EXCEPT !.unfold = bundle, !.unfold_target = bundle.target_mode,
            !.canvas_camera = bundle.globe_endpoint.camera,
            !.unfold_animating = TRUE, !.scene_verified = FALSE,
            !.unfold_enabled = FALSE]

AcceptBackgroundBundle ==
  /\ events # <<>>
  /\ LET result == Head(events)
         idle == ApplyUnfoldBusy(ui, FALSE)
     IN /\ result.job.owner = "unfold"
        /\ ~Dropped(result)
        /\ ui' = IF result.outcome = "built"
                 THEN BeginUnfold(idle, BundleOf(result.job))
                 ELSE UpdateUnfoldAction(idle)
  /\ events' = Tail(events)
  /\ UNCHANGED <<world, pool, button>>

(* The timer tick that reaches the end of the animation.                   *)
FinishUnfoldAnimation ==
  /\ ui.unfold_animating
  /\ ui.unfold # NoBundle
  /\ LET flat == ui.unfold.flat_endpoint
     IN ui' = UpdateUnfoldAction(
                [InMode(Showing(ui, flat), ui.unfold_target) EXCEPT
                   !.unfold_animating = FALSE, !.scene_verified = IsVerified(flat)])
  /\ UNCHANGED <<world, pool, events, button>>

-----------------------------------------------------------------------------
(* The toolbar.                                                            *)

RequestVerified(owners, u, content) ==
  /\ Room
  /\ ui' = ApplySceneBusy(u, TRUE)
  /\ StartJob(owners, "scene", u.mode, u.camera, content)
  /\ events' = Canceled(events, owners \cup {"scene"})

(* set_world of both controllers, each with its cancel() and busy(false).  *)
SetContent(content) ==
  /\ ~ui.unfold_animating
  /\ ~(ui.content = content /\ ui.scene_verified)
  /\ LET chosen == [CancelUnfoldActivity(ui) EXCEPT !.content = content]
         ready == ApplyUnfoldBusy(ApplySceneBusy(chosen, FALSE), FALSE)
     IN RequestVerified({"unfold"}, [ready EXCEPT !.scene_verified = FALSE], content)
  /\ world' = [c \in Controller |-> content]
  /\ UNCHANGED button

(* set_mode ends a preparation, whatever else it does.                     *)
EndedPreparation == IF ui.unfold_preparing THEN {"unfold"} ELSE {}

KeepMode(mode) ==
  /\ ~ui.unfold_animating
  /\ ui.mode = mode /\ ui.scene_verified
  /\ ui' = UpdateUnfoldAction([ui EXCEPT !.unfold_preparing = FALSE])
  /\ CancelJobs(EndedPreparation)
  /\ events' = Canceled(events, EndedPreparation)
  /\ UNCHANGED <<world, button>>

ChangeMode(mode) ==
  /\ ~ui.unfold_animating
  /\ ~(ui.mode = mode /\ ui.scene_verified)
  /\ LET chosen == [InMode(ui, mode) EXCEPT
                      !.unfold_preparing = FALSE, !.scene_verified = FALSE]
     IN RequestVerified(EndedPreparation, UpdateUnfoldAction(chosen), world["scene"])
  /\ UNCHANGED <<world, button>>

StartUnfold ==
  /\ ui.unfold_enabled
  /\ UnfoldAllowed(ui)
  /\ Room
  /\ ui' = ApplyUnfoldBusy([ui EXCEPT !.unfold_target = ui.last_flat_mode], TRUE)
  /\ StartJob({"scene"}, "unfold", ui.last_flat_mode, ui.camera, world["unfold"])
  /\ events' = Canceled(events, {"scene", "unfold"})
  /\ UNCHANGED <<world, button>>

-----------------------------------------------------------------------------
(* The mouse.                                                              *)

(* The canvas follows the mouse only while it shows a globe.               *)
MousePress ==
  /\ ~button
  /\ button' = TRUE
  /\ ui' = [ui EXCEPT
              !.dragging = @ \/ (ui.unfold = NoBundle /\ ui.scene.mode = Globe)]
  /\ UNCHANGED <<world, pool, events>>

(* emit_camera: the camera callback of the window.                         *)
CameraMoved(u, camera) ==
  UpdateUnfoldAction(
    [u EXCEPT !.canvas_camera = camera, !.camera = camera, !.scene_verified = FALSE])

(* emit_camera(false): the preview is built and presented at once.  The    *)
(* button need not be down: the canvas tracks every move.                  *)
MouseMove(camera, ok) ==
  /\ ui.dragging
  /\ ui.unfold = NoBundle /\ ui.scene.mode = Globe
  /\ LET idle == ApplySceneBusy(CameraMoved(ui, camera), FALSE)
         request == [mode |-> Globe, camera |-> camera, content |-> world["scene"]]
     IN ui' = PresentScene(idle, SceneOf(request, "preview", ok))
  /\ CancelJobs({"scene", "unfold"})
  /\ events' = Canceled(events, {"scene", "unfold"})
  /\ UNCHANGED <<world, button>>

(* emit_camera(true), for the globe whatever the mode of the window.       *)
MouseRelease ==
  /\ button
  /\ button' = FALSE
  /\ ui.dragging /\ ui.unfold = NoBundle
  /\ Room
  /\ LET moved == CameraMoved([ui EXCEPT !.dragging = FALSE], ui.canvas_camera)
     IN ui' = ApplySceneBusy(moved, TRUE)
  /\ StartJob({}, "scene", Globe, ui.canvas_camera, world["scene"])
  /\ events' = Canceled(events, {"scene"})
  /\ UNCHANGED world

(* The release the canvas ignores.                                         *)
MouseReleaseIgnored ==
  /\ button
  /\ button' = FALSE
  /\ ~(ui.dragging /\ ui.unfold = NoBundle)
  /\ UNCHANGED <<ui, world, pool, events>>

-----------------------------------------------------------------------------
(* The constructor requests the first scene; the canvas holds a default one.*)
DefaultScene(camera, content) ==
  [mode |-> Globe, quality |-> "preview", camera |-> camera, content |-> content,
   ok |-> TRUE]

Init ==
  \E camera \in Camera, content \in Content :
    /\ ui = [content |-> content, mode |-> Globe, last_flat_mode |-> Mollweide,
             unfold_target |-> Mollweide, camera |-> camera, scene_busy |-> TRUE,
             unfold_preparing |-> FALSE, unfold_animating |-> FALSE,
             scene_verified |-> FALSE, unfold_enabled |-> FALSE,
             scene |-> DefaultScene(camera, content), unfold |-> NoBundle,
             canvas_camera |-> camera, canvas_busy |-> TRUE, dragging |-> FALSE]
    /\ world = [c \in Controller |-> content]
    /\ pool = [c \in Controller |->
         IF c = "scene"
         THEN <<[owner |-> "scene", mode |-> Globe, camera |-> camera,
                 content |-> content, current |-> TRUE]>>
         ELSE <<>>]
    /\ events = <<>>
    /\ button = FALSE

UserNext ==
  \/ \E content \in Content : SetContent(content)
  \/ \E mode \in ViewMode : KeepMode(mode) \/ ChangeMode(mode)
  \/ StartUnfold
  \/ MousePress \/ MouseRelease \/ MouseReleaseIgnored
  \/ \E camera \in Camera, ok \in BOOLEAN : MouseMove(camera, ok)

Deliver == DropResult \/ AcceptBackgroundScene \/ AcceptBackgroundBundle

WorkNext == (\E owner \in Controller : Run(owner)) \/ Deliver \/ FinishUnfoldAnimation

Next == UserNext \/ WorkNext

WorkbenchSpec == Init /\ [][Next]_vars

(* The pool threads run, the event loop delivers and the timer fires; the  *)
(* user need not do anything.                                              *)
FairWorkbenchSpec ==
  /\ WorkbenchSpec
  /\ \A owner \in Controller : WF_vars(Run(owner))
  /\ WF_vars(Deliver)
  /\ WF_vars(FinishUnfoldAnimation)

-----------------------------------------------------------------------------
UiType ==
  [content : Content, mode : ViewMode, last_flat_mode : Flat, unfold_target : Flat,
   camera : Camera, scene_busy : BOOLEAN, unfold_preparing : BOOLEAN,
   unfold_animating : BOOLEAN, scene_verified : BOOLEAN, unfold_enabled : BOOLEAN,
   scene : Scene, unfold : Bundle \cup {NoBundle}, canvas_camera : Camera,
   canvas_busy : BOOLEAN, dragging : BOOLEAN]

(* The fields keep their types; a transition never unfolds onto the globe. *)
WorkbenchTypeOK ==
  /\ ui \in UiType
  /\ world \in [Controller -> Content]
  /\ pool \in [Controller -> Seq(Job)]
  /\ events \in Seq(Result)
  /\ button \in BOOLEAN

Outstanding(owner) ==
  {pool[owner][i] : i \in DOMAIN pool[owner]}
    \cup {job \in {events[i].job : i \in DOMAIN events} : job.owner = owner}
CurrentJobs(owner) == {job \in Outstanding(owner) : job.current}

(* The window calls the view verified only while the canvas shows, outside *)
(* a transition, a verified scene of the mode, content and camera that the *)
(* window has.                                                             *)
VerifiedIsShown ==
  ui.scene_verified =>
    /\ IsVerified(ui.scene)
    /\ ui.unfold = NoBundle
    /\ ui.scene.mode = ui.mode
    /\ ui.scene.content = ui.content
    /\ ui.scene.camera = ui.camera

(* A job that can still be accepted, and a bundle that was, is for the     *)
(* content and camera of the window, and for the flat mode chosen last:    *)
(* nothing obsolete can overwrite newer viewer state.                      *)
AcceptableIsCurrent ==
  /\ ui.canvas_camera = ui.camera
  /\ \A owner \in Controller : \A job \in CurrentJobs(owner) :
       /\ job.content = ui.content
       /\ job.camera = ui.camera
       /\ owner = "unfold" => job.mode = ui.last_flat_mode
  /\ ui.unfold # NoBundle =>
       /\ ui.unfold.globe_endpoint.camera = ui.camera
       /\ ui.unfold.globe_endpoint.content = ui.content
       /\ ui.unfold.target_mode \in {ui.unfold_target} \cap {ui.last_flat_mode}

(* The flags that lock the interface are true exactly while something that *)
(* will reset them is under way.                                           *)
FlagsAreWork ==
  /\ ui.scene_busy <=> CurrentJobs("scene") # {}
  /\ ui.unfold_preparing <=> CurrentJobs("unfold") # {}
  /\ ui.unfold_animating <=> ui.unfold # NoBundle

(* The Unfold action is enabled exactly when start_unfold would start.     *)
UnfoldActionIsGuard == ui.unfold_enabled <=> UnfoldAllowed(ui)

(* Once the user lets go, every request is answered and every transition   *)
(* ends: the viewer settles.                                               *)
Settles ==
  <>[][WorkNext]_vars =>
    <>[](~ui.scene_busy /\ ~ui.unfold_preparing /\ ~ui.unfold_animating)

-----------------------------------------------------------------------------
(* UI-ARCHITECTURE 4.1 and 9: PREVIEW, VERIFYING and VERIFIED are distinct *)
(* states the viewer exposes.  The canvas says VERIFYING only while some   *)
(* verified result is awaited.                                             *)
BadgeIsTrue == ui.canvas_busy => \E owner \in Controller : CurrentJobs(owner) # {}

(* UI-ARCHITECTURE 4.1: dragging ends with the release of the mouse, which *)
(* starts the verified computation.                                        *)
DragNeedsButton == ui.dragging => button

=============================================================================

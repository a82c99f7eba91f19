-------------------------------- MODULE Viewer --------------------------------
(***************************************************************************)
(* The two threads of the simulator: the render loop (RenderLoop, UiEvent, *)
(* Sync, Render) on the main thread and the physics thread (PhysicsThread, *)
(* PhysicsLoop), which share mtx, run, loadrequest, exitrequest and the    *)
(* model with its data, m_ and d_.  A thread holds mtx exactly while it    *)
(* stands at one of the places below; what it does in one critical section *)
(* without regard to the other thread is one step, except that each event  *)
(* of a poll is a step: m_ and d_ are freed without mtx.                   *)
(*                                                                         *)
(* What a step of the physics does beyond counting is in module            *)
(* Simulation.  Left out: what is drawn, the cameras and figures, the      *)
(* history buffer, noise, and dropped files.                               *)
(***************************************************************************)
EXTENDS Naturals

CONSTANT MaxBurst   \* steps in one iteration of the physics loop (by the clock)

ASSUME BurstAssumption == MaxBurst \in Nat \ {0}

VARIABLES
  phys,          \* where the physics thread stands
  render,        \* where the main thread stands
  loadrequest,   \* 3 read, 2 hand over, 1 load at the next frame, 0 none
  exitrequest,   \* 1 asked to exit, 2 render loop left
  closed,        \* ShouldCloseWindow()
  loaded,        \* m_ and d_ of Simulate are set
  run,           \* the physics runs, or pauses
  speed_changed, \* the clocks have to be synchronised
  left           \* steps the clock still allows in this iteration

requestVars == <<loadrequest, exitrequest, closed>>
runVars     == <<run, speed_changed>>
viewerVars  == <<phys, render, requestVars, loaded, runVars, left>>

PhysicsHolds == phys = "step"
RenderHolds  == render \in {"poll", "sync"}

(* The process runs: it has neither ended nor used a model that was never   *)
(* loaded or is freed.                                                     *)
Alive == phys # "crashed" /\ render # "ended"

ViewerInit ==
  /\ phys = "message" /\ render = "frame"
  /\ loadrequest = 0 /\ exitrequest = 0 /\ closed = FALSE /\ loaded = FALSE
  /\ run = TRUE /\ speed_changed = TRUE /\ left = 0

-----------------------------------------------------------------------------
(* The physics thread.                                                     *)

LoadMessage ==
  /\ phys = "message" /\ phys' = "parse"
  /\ ~RenderHolds /\ loadrequest' = 3
  /\ UNCHANGED <<render, exitrequest, closed, loaded, runVars, left>>

(* LoadModel and mj_makeData.  A warning of the compiler pauses the        *)
(* simulation.                                                             *)
LoadModel ==
  /\ phys = "parse" /\ phys' = "handOver"
  /\ run' \in {run, FALSE}
  /\ UNCHANGED <<render, requestVars, loaded, speed_changed, left>>

(* No model: the request is cleared, but then the joints are looked up in  *)
(* the model that is not there.                                            *)
LoadFails ==
  /\ phys = "parse" /\ phys' = "crashed"
  /\ ~RenderHolds /\ loadrequest' = 0
  /\ UNCHANGED <<render, exitrequest, closed, loaded, runVars, left>>

HandOver ==
  /\ phys = "handOver" /\ phys' = "wait"
  /\ ~RenderHolds /\ loadrequest' = 2
  /\ UNCHANGED <<render, exitrequest, closed, loaded, runVars, left>>

(* Mistake: the thread does not wait for the render thread.                *)
WokenAtOnce ==
  /\ phys = "wait" /\ phys' = "test"
  /\ ~RenderHolds
  /\ UNCHANGED <<render, requestVars, loaded, runVars, left>>

(* cond_loadrequest; then the first key frame is loaded.                   *)
Woken ==
  /\ phys = "wait" /\ phys' = "test"
  /\ ~RenderHolds /\ loadrequest = 0
  /\ UNCHANGED <<render, requestVars, loaded, runVars, left>>

(* The loop's condition, read without mtx.                                 *)
TestExit ==
  /\ phys = "test"
  /\ phys' = IF exitrequest # 0 THEN "free" ELSE "enter"
  /\ UNCHANGED <<render, requestVars, loaded, runVars, left>>

(* Mistake: mtx is not taken.                                              *)
EnterUnlocked ==
  /\ phys = "enter" /\ run /\ phys' = "step"
  /\ left' \in IF speed_changed THEN {1} ELSE 0..MaxBurst
  /\ speed_changed' = FALSE
  /\ UNCHANGED <<render, requestVars, loaded, run>>

(* An iteration that runs: one step if the clocks have to be synchronised, *)
(* and otherwise as many as the clock allows, which may be none.           *)
Enter ==
  /\ phys = "enter" /\ ~RenderHolds /\ run /\ phys' = "step"
  /\ left' \in IF speed_changed THEN {1} ELSE 0..MaxBurst
  /\ speed_changed' = FALSE
  /\ UNCHANGED <<render, requestVars, loaded, run>>

(* An iteration that pauses: mj_forward moves no time.                     *)
Pauses ==
  /\ phys = "enter" /\ ~RenderHolds /\ ~run /\ phys' = "test"
  /\ speed_changed' = TRUE
  /\ UNCHANGED <<render, requestVars, loaded, run, left>>

(* sim_step.                                                               *)
Steps ==
  /\ phys = "step" /\ left > 0 /\ left' = left - 1
  /\ UNCHANGED <<phys, render, requestVars, loaded, runVars>>

Leave ==
  /\ phys = "step" /\ left = 0 /\ phys' = "test"
  /\ UNCHANGED <<render, requestVars, loaded, runVars, left>>

(* mj_deleteData, mj_deleteModel.                                          *)
Free ==
  /\ phys = "free" /\ phys' = "ended"
  /\ UNCHANGED <<render, requestVars, loaded, runVars, left>>

-----------------------------------------------------------------------------
(* The main thread.                                                        *)

Closing == closed \/ exitrequest # 0

(* A frame begins; a model handed over is loaded in the frame after the    *)
(* one that sees the request (LoadOnRenderThread).                         *)
Frame ==
  /\ render = "frame" /\ ~Closing /\ ~PhysicsHolds /\ render' = "poll"
  /\ loadrequest' = CASE loadrequest = 2 -> 1
                      [] loadrequest = 1 -> 0
                      [] OTHER -> loadrequest
  /\ loaded' = (loaded \/ loadrequest = 1)
  /\ UNCHANGED <<phys, exitrequest, closed, runVars, left>>

(* glfwPollEvents calls UiEvent for each event that has come.  Quit is      *)
(* chosen ...                                                              *)
Quit ==
  /\ render = "poll" /\ exitrequest' = 1
  /\ UNCHANGED <<phys, render, loadrequest, closed, loaded, runVars, left>>

(* ... or the window is closed ...                                         *)
CloseWindow ==
  /\ render = "poll" /\ closed' = TRUE
  /\ UNCHANGED <<phys, render, loadrequest, exitrequest, loaded, runVars, left>>

Freed == phys = "ended"

(* The render thread uses m_ or d_.  Once they are freed that has no        *)
(* meaning: the program goes on, or crashes.                               *)
UsesModel == phys' \in IF Freed THEN {phys, "crashed"} ELSE {phys}

(* ... or a key, the mouse or a slider works on the model, and may let the  *)
(* simulation run or pause.                                                *)
UiEvent ==
  /\ render = "poll" /\ loaded /\ UsesModel /\ run' \in BOOLEAN
  /\ UNCHANGED <<render, requestVars, loaded, speed_changed, left>>

(* No event is left.                                                       *)
PollReturns ==
  /\ render = "poll" /\ render' = "sync"
  /\ UNCHANGED <<phys, requestVars, loaded, runVars, left>>

(* Mistake: the request to exit is not looked at.                          *)
SyncAnyway ==
  /\ render = "sync" /\ render' = "draw"
  /\ IF loaded THEN UsesModel ELSE UNCHANGED phys
  /\ UNCHANGED <<requestVars, loaded, runVars, left>>

(* Sync works on m_ and d_ unless the program was asked to exit; mtx is     *)
(* released.                                                               *)
Sync ==
  /\ render = "sync" /\ render' = "draw"
  /\ IF loaded /\ exitrequest = 0 THEN UsesModel ELSE UNCHANGED phys
  /\ UNCHANGED <<requestVars, loaded, runVars, left>>

(* Render, without mtx: sections of the menu that have changed are read     *)
(* from m_ and d_ again.                                                   *)
Render ==
  /\ render = "draw" /\ render' = "frame"
  /\ \/ loaded /\ UsesModel
     \/ UNCHANGED phys
  /\ UNCHANGED <<requestVars, loaded, runVars, left>>

(* Mistake: nobody tells the physics thread that the window is closed.     *)
CloseSilently ==
  /\ render = "frame" /\ Closing /\ ~PhysicsHolds /\ render' = "join"
  /\ UNCHANGED <<phys, requestVars, loaded, runVars, left>>

(* The render loop is left.                                                *)
Close ==
  /\ render = "frame" /\ Closing /\ ~PhysicsHolds /\ render' = "join"
  /\ exitrequest' = 2
  /\ UNCHANGED <<phys, loadrequest, closed, loaded, runVars, left>>

(* physics_handle_.join().                                                 *)
Join ==
  /\ render = "join" /\ phys = "ended" /\ render' = "ended"
  /\ UNCHANGED <<phys, requestVars, loaded, runVars, left>>

-----------------------------------------------------------------------------
(* Types, and who may hold mtx.                                            *)
ViewerTypeOK ==
  /\ phys \in {"message", "parse", "handOver", "wait", "test", "enter", "step",
               "free", "ended", "crashed"}
  /\ render \in {"frame", "poll", "sync", "draw", "join", "ended"}
  /\ loadrequest \in 0..3 /\ exitrequest \in 0..2
  /\ closed \in BOOLEAN /\ loaded \in BOOLEAN
  /\ run \in BOOLEAN /\ speed_changed \in BOOLEAN /\ left \in 0..MaxBurst
  /\ ~(PhysicsHolds /\ RenderHolds)

(* The physics never moves a model the render thread has not taken over,   *)
(* whose copies of it are made when it does (Load waits for that).         *)
MovesLoadedModel == phys \in {"test", "enter", "step"} => loaded

(* The physics thread frees m_ and d_ as soon as it sees the request to     *)
(* exit, without mtx.  To close the window is safe: the request is made    *)
(* when the render loop was left.  Quit from the menu makes it in the      *)
(* middle of a frame, and what is left of that frame -- more events of the *)
(* same poll, Render -- may use what was freed; Sync never does.           *)
OnlyQuitUsesFreed ==
  [][phys' = "crashed" =>
       \/ phys = "parse"
       \/ exitrequest = 1 /\ render \in {"poll", "draw"}]_phys

(* Asked to exit by the menu or by the window, the program ends -- if the   *)
(* model had been loaded by then, and unless a frame that began before     *)
(* Quit crashes on what was freed.  (A window closed earlier leaves nobody *)
(* to answer the load request, and join waits for ever.)                   *)
CloseEndsProgram ==
  (loaded /\ Closing) ~> (render = "ended" \/ phys = "crashed")
===============================================================================

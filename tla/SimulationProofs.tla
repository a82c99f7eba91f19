--------------------------- MODULE SimulationProofs ---------------------------
(***************************************************************************)
(* For every length of the queues and every number of commands, states and *)
(* steps: the simulator never moves a model the viewer has not taken over, *)
(* a freed one is used in the frame of Quit only, the queues hold what came *)
(* last, and the link never goes back in time.                             *)
(***************************************************************************)
EXTENDS Simulation, Integers, TLAPS

-----------------------------------------------------------------------------
(* The inductive invariant of the simulator.  The physics thread gets past *)
(* its wait only when the model was taken over, which is never undone; it  *)
(* frees the model only when the exit was requested, which is never        *)
(* revoked either: 1 is Quit's, and 2 is stored when the loop was left.    *)
TakenOver ==
  /\ phys = "wait" /\ loadrequest = 0 => loaded
  /\ phys \in {"test", "enter", "step", "free", "ended"} => loaded

FreedOnExit == phys \in {"free", "ended"} => exitrequest # 0

LoopLeft == exitrequest = 2 => render \in {"join", "ended"}

BurstsEnd == phys # "step" => left = 0

ViewerInv ==
  ViewerTypeOK /\ TakenOver /\ FreedOnExit /\ LoopLeft /\ BurstsEnd

(* The inductive invariant of the link.  What the motors follow, and what  *)
(* the controller has stored, is older than all that waits in the queue;   *)
(* what the control cycle has read is not newer than what is stored.       *)
CommandsInv ==
  /\ made \in 0..MaxMade /\ motorQueue \in Seq(Int) /\ Newest(motorQueue, made)
  /\ obeyed \in Nat /\ obeyed <= made - Len(motorQueue)
  /\ motorQueue = <<>> => obeyed = made

StatesInv ==
  /\ published \in 0..MaxPublished
  /\ stateQueue \in Seq(Int) /\ Newest(stateQueue, published)
  /\ sample \in Nat /\ sample <= published - Len(stateQueue)
  /\ sensed \in [Half -> Nat] /\ reading \in [Half -> Nat]
  /\ \A h \in Half : sensed[h] <= published - Len(stateQueue)
  /\ \A h \in Half : reading[h] <= sensed[h]
  /\ sample # 0 => \A h \in Half : sensed[h] <= sample
  /\ cycle \in {"estimate", "update", "publish"}

IInv == ViewerInv /\ CommandsInv /\ StatesInv
-----------------------------------------------------------------------------
(* The simulator's own steps.                                              *)

(* Nothing is loaded when the two threads are started.                     *)
LEMMA ViewerInitially == ViewerInit => ViewerInv
<1> SUFFICES ASSUME ViewerInit PROVE ViewerInv
  OBVIOUS
<1>1. left \in 0..MaxBurst /\ loadrequest \in 0..3 /\ exitrequest \in 0..2
  BY BurstAssumption DEF ViewerInit
<1>2. /\ closed \in BOOLEAN /\ loaded \in BOOLEAN /\ run \in BOOLEAN
      /\ speed_changed \in BOOLEAN
  BY DEF ViewerInit
<1>3. phys = "message" /\ render = "frame" /\ left = 0
     /\ exitrequest = 0
  BY DEF ViewerInit
<1> QED BY <1>1, <1>2, <1>3 DEF ViewerInv, ViewerTypeOK, TakenOver,
   FreedOnExit, LoopLeft, BurstsEnd, PhysicsHolds, RenderHolds

(* One case per step of the two threads.  Enter and Frame need more than   *)
(* their definition: a step of the physics starts only without the render  *)
(* thread in mtx, and the request is withdrawn only by taking the model over.*)
LEMMA ViewerStep ==
  ASSUME ViewerInv, Alive,
         \/ LoadMessage \/ LoadModel \/ LoadFails \/ HandOver \/ Woken
         \/ TestExit \/ Enter \/ Pauses \/ Steps \/ Leave \/ Free
         \/ Frame \/ Quit \/ CloseWindow \/ UiEvent \/ PollReturns \/ Sync
         \/ Render \/ Close \/ Join
  PROVE  ViewerInv'
<1> USE DEF ViewerInv, ViewerTypeOK, TakenOver, FreedOnExit, LoopLeft,
            BurstsEnd, PhysicsHolds, RenderHolds, requestVars, runVars
<1>1. CASE LoadMessage
  BY <1>1 DEF LoadMessage
<1>2. CASE LoadModel
  BY <1>2 DEF LoadModel
<1>3. CASE LoadFails
  BY <1>3 DEF LoadFails
<1>4. CASE HandOver
  BY <1>4 DEF HandOver
<1>5. CASE Woken
  BY <1>5 DEF Woken
<1>6. CASE TestExit
  BY <1>6 DEF TestExit
<1>7. CASE Enter
  <2>1. left' \in 0..MaxBurst
    BY <1>7, BurstAssumption DEF Enter
  <2>2. /\ phys = "enter" /\ phys' = "step" /\ speed_changed' = FALSE
        /\ ~RenderHolds
        /\ UNCHANGED <<render, loadrequest, exitrequest, closed, loaded, run>>
    BY <1>7 DEF Enter
  <2> QED BY <2>1, <2>2
<1>8. CASE Pauses
  BY <1>8 DEF Pauses
<1>9. CASE Steps
  BY <1>9, BurstAssumption DEF Steps
<1>10. CASE Leave
  BY <1>10 DEF Leave
<1>11. CASE Free
  BY <1>11 DEF Free
<1>12. CASE Frame
  <2>1. loadrequest' \in 0..3
    BY <1>12 DEF Frame
  <2>2. (phys = "wait" /\ loadrequest' = 0) => loadrequest \in {0, 1}
    BY <1>12 DEF Frame
  <2>3. /\ render' = "poll" /\ phys # "step" /\ loaded' \in BOOLEAN
        /\ loaded' = (loaded \/ loadrequest = 1)
        /\ UNCHANGED <<phys, exitrequest, closed, run, speed_changed, left>>
    BY <1>12 DEF Frame
  <2>4. TakenOver'
    BY <2>2, <2>3
  <2>5. exitrequest = 0
    BY <1>12 DEF Frame, Closing
  <2> QED BY <2>1, <2>3, <2>4, <2>5
<1>13. CASE Quit
  BY <1>13 DEF Quit
<1>14. CASE CloseWindow
  BY <1>14 DEF CloseWindow
<1>15. CASE UiEvent
  <2>1. phys' \in {phys, "crashed"}
    BY <1>15 DEF UiEvent, UsesModel
  <2>2. /\ run' \in BOOLEAN /\ phys # "step"
        /\ UNCHANGED <<render, loadrequest, exitrequest, closed, loaded,
                       speed_changed, left>>
    BY <1>15 DEF UiEvent
  <2> QED BY <2>1, <2>2
<1>16. CASE PollReturns
  BY <1>16 DEF PollReturns
<1>17. CASE Sync
  <2>1. phys' \in {phys, "crashed"}
    BY <1>17 DEF Sync, UsesModel
  <2>2. /\ phys # "step" /\ render' = "draw" /\ exitrequest # 2
        /\ UNCHANGED <<loadrequest, exitrequest, closed, loaded, run,
                       speed_changed, left>>
    BY <1>17 DEF Sync
  <2> QED BY <2>1, <2>2
<1>18. CASE Render
  <2>1. phys' = phys \/ (phys' = "crashed" /\ phys = "ended")
    BY <1>18 DEF Render, UsesModel, Freed
  <2>2. /\ render' = "frame" /\ exitrequest # 2
        /\ UNCHANGED <<loadrequest, exitrequest, closed, loaded, run,
                       speed_changed, left>>
    BY <1>18 DEF Render
  <2> QED BY <2>1, <2>2
<1>19. CASE Close
  BY <1>19 DEF Close, Closing
<1>20. CASE Join
  BY <1>20 DEF Join
<1> QED BY <1>1, <1>2, <1>3, <1>4, <1>5, <1>6, <1>7, <1>8, <1>9, <1>10, <1>11,
           <1>12, <1>13, <1>14, <1>15, <1>16, <1>17, <1>18, <1>19, <1>20

(* The controller's process leaves the simulator alone.                    *)
LEMMA ViewerStutters == ViewerInv /\ UNCHANGED viewerVars => ViewerInv'
BY DEF ViewerInv, ViewerTypeOK, TakenOver, FreedOnExit, LoopLeft, BurstsEnd,
   PhysicsHolds, RenderHolds, viewerVars, requestVars, runVars

-----------------------------------------------------------------------------
(* Queues of numbered samples.                                             *)

(* The head of a queue is its oldest sample.                               *)
LEMMA HeadIsOldest ==
  ASSUME NEW n \in Nat, NEW q \in Seq(Int), Newest(q, n), q # <<>>
  PROVE  /\ Head(q) = (n - Len(q)) + 1
         /\ Tail(q) \in Seq(Int) /\ Len(Tail(q)) = Len(q) - 1
         /\ Newest(Tail(q), n)
<1>1. /\ Len(q) \in Nat \ {0} /\ 1 \in DOMAIN q /\ Head(q) = q[1]
      /\ Tail(q) \in Seq(Int) /\ Len(Tail(q)) = Len(q) - 1
      /\ DOMAIN Tail(q) = 1..(Len(q) - 1)
      /\ \A i \in 1..(Len(q) - 1) : Tail(q)[i] = q[i + 1] /\ i + 1 \in DOMAIN q
  OBVIOUS
<1>2. Head(q) = (n - Len(q)) + 1
  BY <1>1 DEF Newest
<1>3. \A i \in DOMAIN Tail(q) : Tail(q)[i] = n - Len(Tail(q)) + i
  BY <1>1 DEF Newest
<1> QED BY <1>1, <1>2, <1>3, LinkAssumption DEF Newest

(* What is published next follows the last sample of the queue.            *)
LEMMA AppendIsNewest ==
  ASSUME NEW n \in Nat, NEW q \in Seq(Int), Newest(q, n), Len(q) < Capacity
  PROVE  /\ Append(q, n + 1) \in Seq(Int)
         /\ Len(Append(q, n + 1)) = Len(q) + 1
         /\ Newest(Append(q, n + 1), n + 1)
<1>1. /\ Append(q, n + 1) \in Seq(Int)
      /\ Len(Append(q, n + 1)) = Len(q) + 1
      /\ DOMAIN Append(q, n + 1) = 1..(Len(q) + 1)
  OBVIOUS
<1>2. /\ Len(q) \in Nat /\ DOMAIN q = 1..Len(q)
      /\ \A i \in 1..Len(q) : Append(q, n + 1)[i] = q[i]
      /\ Append(q, n + 1)[Len(q) + 1] = n + 1
  OBVIOUS
<1>3. \A i \in 1..(Len(q) + 1) : Append(q, n + 1)[i] = (n + 1) - (Len(q) + 1) + i
  <2> TAKE i \in 1..(Len(q) + 1)
  <2>1. CASE i = Len(q) + 1
    BY <2>1, <1>2
  <2>2. CASE i \in 1..Len(q)
    <3>1. q[i] = n - Len(q) + i
      BY <2>2, <1>2 DEF Newest
    <3> QED BY <2>2, <1>2, <3>1
  <2> QED BY <2>1, <2>2, <1>2
<1>4. Len(q) + 1 <= Capacity
  BY <1>2, LinkAssumption
<1> QED BY <1>1, <1>3, <1>4 DEF Newest

(* A full queue loses its oldest sample, so that it ends as far behind as  *)
(* before or less.                                                         *)
LEMMA OfferIsNewest ==
  ASSUME NEW n \in Nat, NEW q \in Seq(Int), Newest(q, n)
  PROVE  /\ Offer(q, n + 1) \in Seq(Int)
         /\ Newest(Offer(q, n + 1), n + 1)
         /\ Len(Offer(q, n + 1)) \in 1..(Len(q) + 1)
<1>1. Len(q) \in Nat
  OBVIOUS
<1>2. CASE Len(q) = Capacity
  <2>1. q # <<>>
    BY <1>2, LinkAssumption
  <2>2. /\ Tail(q) \in Seq(Int) /\ Len(Tail(q)) = Len(q) - 1
        /\ Newest(Tail(q), n)
    BY <2>1, HeadIsOldest
  <2>3. Len(Tail(q)) < Capacity
    BY <2>2, <1>2, LinkAssumption
  <2>4. Offer(q, n + 1) = Append(Tail(q), n + 1)
    BY <1>2 DEF Offer
  <2>5. /\ Append(Tail(q), n + 1) \in Seq(Int)
        /\ Len(Append(Tail(q), n + 1)) = Len(Tail(q)) + 1
        /\ Newest(Append(Tail(q), n + 1), n + 1)
    BY <2>2, <2>3, AppendIsNewest
  <2>6. Len(q) \in Nat \ {0}
    BY <1>1, <1>2, LinkAssumption
  <2>7. Len(Offer(q, n + 1)) \in 1..(Len(q) + 1)
    BY <2>2, <2>4, <2>5, <2>6
  <2> QED BY <2>4, <2>5, <2>7
<1>3. CASE Len(q) # Capacity
  <2>1. Len(q) < Capacity
    BY <1>3, <1>1, LinkAssumption DEF Newest
  <2>2. Offer(q, n + 1) = Append(q, n + 1)
    BY <1>3 DEF Offer
  <2>3. /\ Append(q, n + 1) \in Seq(Int)
        /\ Len(Append(q, n + 1)) = Len(q) + 1
        /\ Newest(Append(q, n + 1), n + 1)
    BY <2>1, AppendIsNewest
  <2>4. Len(Offer(q, n + 1)) \in 1..(Len(q) + 1)
    BY <2>2, <2>3, <1>1
  <2> QED BY <2>2, <2>3, <2>4
<1> QED BY <1>2, <1>3
-----------------------------------------------------------------------------
(* The link's steps.                                                       *)

(* Who touches neither the commands nor their queue keeps their invariant. *)
LEMMA CommandsKept ==
  ASSUME CommandsInv, UNCHANGED <<made, motorQueue, obeyed>>
  PROVE  CommandsInv'
BY DEF CommandsInv, Newest

(* Who touches neither the states nor their queue keeps their invariant.   *)
LEMMA StatesKept ==
  ASSUME StatesInv,
         UNCHANGED <<published, stateQueue, sample, sensed, reading, cycle>>
  PROVE  StatesInv'
BY DEF StatesInv, Newest

(* The command taken is the next one, and all others wait behind it.       *)
LEMMA CommandTaken ==
  ASSUME CommandsInv, TakeCommand, UNCHANGED made
  PROVE  CommandsInv' /\ made - obeyed' < Capacity
<1>1. CASE motorQueue = <<>>
  <2>1. UNCHANGED <<made, motorQueue, obeyed>> /\ obeyed = made
    BY <1>1 DEF TakeCommand, CommandsInv
  <2>2. made - obeyed' < Capacity
    BY <2>1, LinkAssumption DEF CommandsInv
  <2> QED BY <2>1, <2>2, CommandsKept
<1>2. CASE motorQueue # <<>>
  <2>1. /\ made \in Nat /\ motorQueue \in Seq(Int) /\ Newest(motorQueue, made)
        /\ obeyed \in Nat /\ obeyed <= made - Len(motorQueue)
        /\ Len(motorQueue) <= Capacity /\ Len(motorQueue) \in Nat
    BY LinkAssumption DEF CommandsInv, Newest
  <2>2. /\ Head(motorQueue) = (made - Len(motorQueue)) + 1
        /\ Tail(motorQueue) \in Seq(Int)
        /\ Len(Tail(motorQueue)) = Len(motorQueue) - 1
        /\ Newest(Tail(motorQueue), made)
    BY <1>2, <2>1, HeadIsOldest
  <2>3. /\ obeyed' = Head(motorQueue) /\ motorQueue' = Tail(motorQueue)
        /\ made' = made
    BY <1>2 DEF TakeCommand
  <2>4. obeyed' \in Nat /\ obeyed' = made' - Len(motorQueue')
    BY <2>1, <2>2, <2>3
  <2>5. motorQueue' = <<>> => obeyed' = made'
    <3>1. motorQueue' = <<>> => Len(motorQueue') = 0
      OBVIOUS
    <3>2. made' \in Nat
      BY <2>1, <2>3
    <3> QED BY <3>1, <3>2, <2>4
  <2>6. made - obeyed' < Capacity
    BY <2>1, <2>2, <2>3, LinkAssumption
  <2>7. Newest(motorQueue', made')
    BY <2>2, <2>3
  <2>8. made' \in 0..MaxMade /\ motorQueue' \in Seq(Int)
    BY <2>2, <2>3 DEF CommandsInv
  <2>9. obeyed' <= made' - Len(motorQueue')
    BY <2>1, <2>2, <2>3, <2>4
  <2> QED BY <2>4, <2>5, <2>6, <2>7, <2>8, <2>9 DEF CommandsInv, Newest
<1> QED BY <1>1, <1>2

(* The new command waits behind all others; one of them may be lost.       *)
LEMMA CommandMade ==
  ASSUME CommandsInv, made < MaxMade, made' = made + 1,
         motorQueue' = Offer(motorQueue, made'), UNCHANGED obeyed
  PROVE  CommandsInv'
<1>1. /\ made \in Nat /\ motorQueue \in Seq(Int) /\ Newest(motorQueue, made)
      /\ obeyed \in Nat /\ obeyed <= made - Len(motorQueue)
      /\ Len(motorQueue) \in Nat
  BY LinkAssumption DEF CommandsInv
<1>2. /\ motorQueue' \in Seq(Int) /\ Newest(motorQueue', made')
      /\ Len(motorQueue') \in 1..(Len(motorQueue) + 1)
  BY <1>1, OfferIsNewest
<1>3. motorQueue' # <<>>
  BY <1>2
<1>4. made' \in 0..MaxMade
  BY <1>1, LinkAssumption
<1>5. obeyed' <= made' - Len(motorQueue')
  BY <1>1, <1>2
<1> QED BY <1>1, <1>2, <1>3, <1>4, <1>5 DEF CommandsInv, Newest

(* The new state waits behind all others; one of them may be lost.         *)
LEMMA StatePublished ==
  ASSUME StatesInv, published < MaxPublished, published' = published + 1,
         stateQueue' = Offer(stateQueue, published'),
         UNCHANGED <<sample, sensed, reading, cycle>>
  PROVE  StatesInv'
<1>1. /\ published \in Nat /\ stateQueue \in Seq(Int)
      /\ Newest(stateQueue, published) /\ Len(stateQueue) \in Nat
  BY LinkAssumption DEF StatesInv
<1>2. /\ stateQueue' \in Seq(Int) /\ Newest(stateQueue', published')
      /\ Len(stateQueue') \in 1..(Len(stateQueue) + 1)
  BY <1>1, OfferIsNewest
<1>3. published' \in 0..MaxPublished
  BY <1>1, LinkAssumption
<1>4. published - Len(stateQueue) <= published' - Len(stateQueue')
  BY <1>1, <1>2
<1>5. /\ sample \in Nat /\ sample <= published - Len(stateQueue)
      /\ sensed \in [Half -> Nat]
      /\ \A h \in Half : sensed[h] <= published - Len(stateQueue)
  BY DEF StatesInv
<1>6. sample' <= published' - Len(stateQueue')
  BY <1>1, <1>2, <1>3, <1>4, <1>5
<1>7. \A h \in Half : sensed'[h] <= published' - Len(stateQueue')
  BY <1>1, <1>2, <1>3, <1>4, <1>5
<1> QED BY <1>2, <1>3, <1>6, <1>7 DEF StatesInv, Newest

(* The state taken is newer than all the subscriber thread has stored.     *)
LEMMA SampleTaken ==
  ASSUME StatesInv, Receive
  PROVE  StatesInv'
<1>1. /\ published \in Nat /\ stateQueue \in Seq(Int) /\ stateQueue # <<>>
      /\ Newest(stateQueue, published) /\ Len(stateQueue) \in Nat
  BY LinkAssumption DEF StatesInv, Receive
<1>2. /\ Head(stateQueue) = (published - Len(stateQueue)) + 1
      /\ Tail(stateQueue) \in Seq(Int)
      /\ Len(Tail(stateQueue)) = Len(stateQueue) - 1
      /\ Newest(Tail(stateQueue), published)
  BY <1>1, HeadIsOldest
<1>3. /\ sensed \in [Half -> Nat] /\ reading \in [Half -> Nat]
      /\ \A h \in Half : sensed[h] <= published - Len(stateQueue)
      /\ \A h \in Half : reading[h] <= sensed[h]
  BY DEF StatesInv
<1>4. /\ sample' = Head(stateQueue) /\ stateQueue' = Tail(stateQueue)
      /\ UNCHANGED <<published, reading, cycle>>
  BY DEF Receive
<1>5. PICK k \in Half : sensed' = [sensed EXCEPT ![k] = sample']
  BY DEF Receive
<1>6. /\ sample' \in Nat /\ sample' = published - Len(stateQueue')
      /\ \A h \in Half : sensed[h] <= sample'
  <2>1. Head(stateQueue) \in Int /\ Len(stateQueue') \in Nat
    BY <1>1, <1>2, <1>4
  <2>2. sample' = published - Len(stateQueue')
    BY <1>1, <1>2, <1>4
  <2>3. published - Len(stateQueue) \in Int /\ \A h \in Half : sensed[h] \in Nat
    BY <1>1, <1>3
  <2>4. sample' = (published - Len(stateQueue)) + 1
    BY <1>2, <1>4
  <2>5. \A h \in Half : sensed[h] <= sample'
    BY <1>3, <2>3, <2>4
  <2>6. "imu" \in Half
    BY DEF Half
  <2>7. sample' \in Nat
    BY <2>3, <2>4, <2>5, <2>6
  <2> QED BY <2>2, <2>5, <2>7
<1>7. \A h \in Half : sensed'[h] = IF h = k THEN sample' ELSE sensed[h]
  BY <1>3, <1>5
<1>8. sensed' \in [Half -> Nat]
  BY <1>3, <1>5, <1>6
<1>9. \A h \in Half : sensed[h] \in Nat /\ reading[h] \in Nat
  BY <1>3
<1>10. \A h \in Half : sensed'[h] <= sample' /\ reading[h] <= sensed'[h]
  BY <1>3, <1>6, <1>7, <1>9
<1>11. sample' <= published - Len(stateQueue')
  BY <1>6
<1>12. \A h \in Half : sensed'[h] <= published - Len(stateQueue')
  BY <1>6, <1>10
<1> QED BY <1>2, <1>4, <1>6, <1>8, <1>10, <1>11, <1>12 DEF StatesInv, Newest

(* What was stored of older states is overwritten by the sample at hand.   *)
LEMMA RestTaken ==
  ASSUME StatesInv, ReceiveRest
  PROVE  StatesInv'
<1>1. /\ sample # 0 /\ sample' = 0 /\ sensed' = [h \in Half |-> sample]
      /\ UNCHANGED <<published, stateQueue, reading, cycle>>
  BY DEF ReceiveRest
<1>2. /\ sensed \in [Half -> Nat] /\ sample \in Nat
      /\ sample <= published - Len(stateQueue) /\ reading \in [Half -> Nat]
      /\ published \in Nat /\ Len(stateQueue) \in Nat
  BY LinkAssumption DEF StatesInv
<1>3. sensed' \in [Half -> Nat] /\ \A h \in Half : sensed'[h] = sample
  BY <1>1, <1>2
<1>4. \A h \in Half : reading[h] <= sensed[h] /\ sensed[h] <= sample
  BY <1>1 DEF StatesInv
<1>5. \A h \in Half : sensed[h] \in Nat /\ reading[h] \in Nat
  BY <1>2
<1>6. \A h \in Half : /\ sensed'[h] <= published - Len(stateQueue)
                     /\ reading[h] <= sensed'[h]
  BY <1>2, <1>3, <1>4, <1>5
<1>7. 0 <= published - Len(stateQueue)
  BY <1>2
<1> QED BY <1>1, <1>3, <1>6, <1>7 DEF StatesInv, Newest

(* What a control cycle reads is stored, hence not older than before.      *)
LEMMA HalfRead ==
  ASSUME StatesInv, Estimate \/ UpdateData
  PROVE  StatesInv' /\ \A h \in Half : reading'[h] >= reading[h]
<1>1. PICK k \in Half : reading' = [reading EXCEPT ![k] = sensed[k]]
  BY DEF Estimate, UpdateData, Half
<1>2. /\ UNCHANGED <<published, stateQueue, sample, sensed>>
      /\ cycle' \in {"estimate", "update", "publish"}
  BY DEF Estimate, UpdateData
<1>3. /\ sensed \in [Half -> Nat] /\ reading \in [Half -> Nat]
      /\ \A h \in Half : reading[h] <= sensed[h]
  BY DEF StatesInv
<1>4. reading' \in [Half -> Nat]
  BY <1>1, <1>3
<1>5. \A h \in Half : reading'[h] <= sensed[h] /\ reading'[h] >= reading[h]
  BY <1>1, <1>3
<1> QED BY <1>2, <1>4, <1>5 DEF StatesInv, Newest
-----------------------------------------------------------------------------
(* The steps of the whole system.                                          *)

(* The invariant holds when the queues are empty and nothing is loaded.    *)
LEMMA Initially == Init => IInv
<1> SUFFICES ASSUME Init PROVE IInv
  OBVIOUS
<1>1. ViewerInv
  BY ViewerInitially DEF Init
<1>2. CommandsInv
  BY LinkAssumption DEF Init, CommandsInv, Newest
<1>3. StatesInv
  <2>1. /\ sensed \in [Half -> Nat] /\ reading \in [Half -> Nat]
        /\ \A h \in Half : sensed[h] = 0 /\ reading[h] = 0
    BY DEF Init
  <2>2. /\ stateQueue \in Seq(Int) /\ Len(stateQueue) = 0
        /\ Newest(stateQueue, published)
    BY LinkAssumption DEF Init, Newest
  <2>3. published = 0 /\ published \in 0..MaxPublished /\ sample = 0
    BY LinkAssumption DEF Init
  <2>4. cycle \in {"estimate", "update", "publish"}
    BY DEF Init
  <2> QED BY <2>1, <2>2, <2>3, <2>4 DEF StatesInv
<1> QED BY <1>1, <1>2, <1>3 DEF IInv

(* What a step of the physics does to the link.                            *)
LEMMA PhysicsOnLink ==
  ASSUME CommandsInv, StatesInv, SimStep
  PROVE  CommandsInv' /\ StatesInv' /\ made - obeyed' < Capacity
<1>1. CommandsInv' /\ made - obeyed' < Capacity
  BY CommandTaken DEF SimStep
<1>2. UNCHANGED <<sample, sensed, reading, cycle>>
  BY DEF SimStep, robotVars
<1>3. CASE /\ published < MaxPublished /\ published' = published + 1
           /\ stateQueue' = Offer(stateQueue, published')
  BY <1>1, <1>2, <1>3, StatePublished
<1>4. CASE UNCHANGED <<published, stateQueue>>
  BY <1>1, <1>2, <1>4, StatesKept
<1>5. \/ /\ published < MaxPublished /\ published' = published + 1
         /\ stateQueue' = Offer(stateQueue, published')
      \/ UNCHANGED <<published, stateQueue>>
  BY DEF SimStep, PublishState
<1> QED BY <1>1, <1>3, <1>4, <1>5

(* Steps without regard to the link.                                       *)
LEMMA LinkKept ==
  ASSUME CommandsInv, StatesInv, UNCHANGED linkVars
  PROVE  CommandsInv' /\ StatesInv'
<1>1. /\ UNCHANGED <<made, motorQueue, obeyed>>
      /\ UNCHANGED <<published, stateQueue, sample, sensed, reading, cycle>>
  BY DEF linkVars, robotVars
<1> QED BY <1>1, CommandsKept, StatesKept

(* Every step keeps the invariant.                                         *)
LEMMA Preserved == IInv /\ [Next]_vars => IInv'
<1> SUFFICES ASSUME ViewerInv, CommandsInv, StatesInv, [Next]_vars
             PROVE  ViewerInv' /\ CommandsInv' /\ StatesInv'
  BY DEF IInv
<1>1. CASE Simulator
  <2>1. ViewerInv'
    BY <1>1, ViewerStep DEF Simulator, PhysicsThread, SimStep, RenderThread
  <2>2. CASE SimStep
    BY <2>1, <2>2, PhysicsOnLink
  <2>3. CASE UNCHANGED linkVars
    BY <2>1, <2>3, LinkKept
  <2> QED BY <1>1, <2>2, <2>3 DEF Simulator, PhysicsThread, RenderThread
<1>2. CASE SubscriberThread
  <2>1. ViewerInv'
    BY <1>2, ViewerStutters DEF SubscriberThread, Receive, ReceiveRest
  <2>2. CommandsInv'
    BY <1>2, CommandsKept DEF SubscriberThread, Receive, ReceiveRest
  <2>3. StatesInv'
    BY <1>2, SampleTaken, RestTaken DEF SubscriberThread
  <2> QED BY <2>1, <2>2, <2>3
<1>3. CASE Estimate \/ UpdateData
  <2>1. ViewerInv'
    BY <1>3, ViewerStutters DEF Estimate, UpdateData
  <2>2. CommandsInv'
    BY <1>3, CommandsKept DEF Estimate, UpdateData
  <2>3. StatesInv'
    BY <1>3, HalfRead
  <2> QED BY <2>1, <2>2, <2>3
<1>4. CASE PublishCommand
  <2>1. ViewerInv'
    BY <1>4, ViewerStutters DEF PublishCommand
  <2>2. CommandsInv'
    <3>1. UNCHANGED obeyed
      BY <1>4 DEF PublishCommand
    <3>2. CASE /\ made < MaxMade /\ made' = made + 1
               /\ motorQueue' = Offer(motorQueue, made')
      BY <3>1, <3>2, CommandMade
    <3>3. CASE UNCHANGED <<made, motorQueue>>
      BY <3>1, <3>3, CommandsKept
    <3> QED BY <1>4, <3>2, <3>3 DEF PublishCommand
  <2>3. StatesInv'
    <3>1. /\ UNCHANGED <<stateQueue, published, sensed, sample, reading>>
          /\ cycle' = "estimate"
      BY <1>4 DEF PublishCommand
    <3> QED BY <3>1 DEF StatesInv, Newest
  <2> QED BY <2>1, <2>2, <2>3
<1>5. CASE UNCHANGED vars
  <2>1. UNCHANGED viewerVars /\ UNCHANGED linkVars
    BY <1>5 DEF vars
  <2> QED BY <2>1, ViewerStutters, LinkKept
<1> QED BY <1>1, <1>2, <1>3, <1>4, <1>5 DEF Next, ControlThread

(* The invariant holds always.                                             *)
LEMMA Inductive == Spec => []IInv
<1> QED BY Initially, Preserved, PTL DEF Spec

-----------------------------------------------------------------------------
(* The theorems.                                                           *)

(* Types and mutual exclusion of the simulator, and the shape of the       *)
(* queues, for every capacity (SimulationBridge.cpp, Robot_Runner.cpp:    *)
(* channels "Motor" and "State").                                          *)
THEOREM SimulationTypes == Spec => []SimulationTypeOK
<1>1. IInv => SimulationTypeOK
  <2> SUFFICES ASSUME ViewerInv, CommandsInv, StatesInv PROVE SimulationTypeOK
    BY DEF IInv
  <2>1. /\ made \in Nat /\ published \in Nat
        /\ Len(motorQueue) \in Nat /\ Len(stateQueue) \in Nat
    BY LinkAssumption DEF CommandsInv, StatesInv
  <2>2. obeyed \in 0..made
    BY <2>1 DEF CommandsInv
  <2>3. sample \in 0..published
    BY <2>1 DEF StatesInv
  <2>4. \A h \in Half : sensed[h] \in 0..published /\ reading[h] \in 0..published
    BY <2>1 DEF StatesInv
  <2>5. sensed \in [Half -> 0..published] /\ reading \in [Half -> 0..published]
    BY <2>4 DEF StatesInv
  <2> QED BY <2>2, <2>3, <2>5 DEF SimulationTypeOK, ViewerInv, CommandsInv, StatesInv
<1> QED BY <1>1, Inductive, PTL

(* The physics never moves a model the render thread has not taken over.   *)
THEOREM PhysicsWaitsForViewer == Spec => []MovesLoadedModel
<1>1. IInv => MovesLoadedModel
  BY DEF IInv, ViewerInv, TakenOver, MovesLoadedModel
<1> QED BY <1>1, Inductive, PTL

(* However the two threads interleave, the render thread uses the model    *)
(* the physics thread has freed only in the frame in which Quit was chosen *)
(* (my_simulator.cpp: UiEvent, Render), and Sync never does.               *)
THEOREM OnlyQuitIsUnclean == Spec => OnlyQuitUsesFreed
<1>1. IInv /\ [Next]_vars
        => [phys' = "crashed" =>
              \/ phys = "parse"
              \/ exitrequest = 1 /\ render \in {"poll", "draw"}]_phys
  <2> SUFFICES ASSUME ViewerInv, [Next]_vars, phys' # phys, phys' = "crashed"
               PROVE  \/ phys = "parse"
                      \/ exitrequest = 1 /\ render \in {"poll", "draw"}
    BY DEF IInv
  <2>1. PhysicsThread \/ RenderThread
    BY DEF Next, Simulator, SubscriberThread, Receive, ReceiveRest, ControlThread,
       Estimate, UpdateData, PublishCommand, vars, viewerVars
  <2>2. CASE PhysicsThread
    BY <2>2 DEF PhysicsThread, SimStep, LoadMessage, LoadModel, LoadFails,
       HandOver, Woken, TestExit, Enter, Pauses, Steps, Leave, Free
  <2>3. CASE RenderThread
    <3>1. CASE UiEvent \/ Sync \/ Render
      <4>1. Freed
        BY <3>1 DEF UiEvent, Sync, Render, UsesModel
      <4>2. exitrequest # 0 /\ exitrequest \in 0..2
        BY <4>1 DEF ViewerInv, FreedOnExit, ViewerTypeOK, Freed
      <4>3. render \in {"poll", "sync", "draw"}
        BY <3>1 DEF UiEvent, Sync, Render
      <4>4. exitrequest = 1
        BY <4>2, <4>3 DEF ViewerInv, LoopLeft
      <4>5. ~Sync
        BY <4>2 DEF Sync
      <4>6. render \in {"poll", "draw"}
        BY <3>1, <4>5 DEF UiEvent, Render
      <4> QED BY <4>4, <4>6
    <3>2. CASE Frame \/ Quit \/ CloseWindow \/ PollReturns \/ Close \/ Join
      BY <3>2 DEF Frame, Quit, CloseWindow, PollReturns, Close, Join
    <3> QED BY <2>3, <3>1, <3>2 DEF RenderThread
  <2> QED BY <2>1, <2>2, <2>3
<1> QED BY <1>1, Inductive, PTL DEF Spec, OnlyQuitUsesFreed

(* No control cycle reads an older pose or older joints than the one       *)
(* before it, and the motors follow no command older than a queue is long. *)
THEOREM LinkIsMonotone == Spec => LinkGoesForward
<1>1. IInv /\ [Next]_vars
        => [ /\ \A h \in Half : reading'[h] >= reading[h]
             /\ left' < left => made - obeyed' < Capacity ]_vars
  <2> SUFFICES ASSUME ViewerInv, CommandsInv, StatesInv, Next
               PROVE  /\ \A h \in Half : reading'[h] >= reading[h]
                      /\ left' < left => made - obeyed' < Capacity
    BY DEF IInv
  <2>1. \A h \in Half : reading[h] \in Nat
    BY DEF StatesInv
  <2>2. UNCHANGED reading => \A h \in Half : reading'[h] >= reading[h]
    BY <2>1
  <2>3. CASE SimStep
    BY <2>2, <2>3, PhysicsOnLink DEF SimStep, robotVars
  <2>4. left \in Nat
    BY BurstAssumption DEF ViewerInv, ViewerTypeOK
  <2>5. UNCHANGED left => ~(left' < left)
    BY <2>4
  <2>6. CASE /\ UNCHANGED linkVars
             /\ \/ LoadMessage \/ LoadModel \/ LoadFails \/ HandOver \/ Woken
                \/ TestExit \/ Enter \/ Pauses \/ Leave \/ Free \/ RenderThread
    <3>1. UNCHANGED reading
      BY <2>6 DEF linkVars, robotVars
    <3>2. CASE Enter
      <4>1. left = 0 /\ left' \in Nat
        BY <3>2, BurstAssumption DEF Enter, ViewerInv, BurstsEnd
      <4> QED BY <2>2, <3>1, <4>1
    <3>3. CASE UNCHANGED left
      BY <2>2, <2>5, <3>1, <3>3
    <3> QED BY <2>6, <3>2, <3>3 DEF LoadMessage, LoadModel, LoadFails, HandOver,
           Woken, TestExit, Pauses, Leave, Free, RenderThread, Frame, Quit,
           CloseWindow, UiEvent, PollReturns, Sync, Render, Close, Join
  <2>7. CASE SubscriberThread \/ PublishCommand
    BY <2>2, <2>5, <2>7 DEF SubscriberThread, Receive, ReceiveRest, PublishCommand,
       viewerVars
  <2>8. CASE Estimate \/ UpdateData
    <3>1. UNCHANGED left
      BY <2>8 DEF Estimate, UpdateData, viewerVars
    <3> QED BY <2>5, <2>8, <3>1, HalfRead
  <2> QED BY <2>3, <2>6, <2>7, <2>8 DEF Next, Simulator, PhysicsThread,
         RenderThread, ControlThread
<1> QED BY <1>1, Inductive, PTL DEF Spec, LinkGoesForward
===============================================================================

--------------------------- MODULE RobotRunnerProofs ---------------------------
(***************************************************************************)
(* For every number of packets and cycles, and whichever transfers fail:   *)
(* each of the three buffers between the threads of the robot implements   *)
(* LatestValue, the logging thread sees no half-written pose, and the yaw  *)
(* reference is no younger than any orientation it is applied to.          *)
(*                                                                         *)
(* The link is proved about first, for Usb2Can by itself; RobotRunner      *)
(* implements Usb2Can and inherits it.                                     *)
(***************************************************************************)
EXTENDS RobotRunner, TLAPS

-----------------------------------------------------------------------------
(* The link.  A thread that has half copied a structure has the lock that  *)
(* keeps the other from touching it; nothing stored is newer than what is  *)
(* stored next.                                                            *)
InInv ==
  /\ data.rest <= packet
  /\ data.first = IF UsbHoldsIn THEN packet ELSE data.rest
  /\ legData.first = IF CtlHoldsIn THEN data.first ELSE legData.rest
  /\ ~(UsbHoldsIn /\ CtlHoldsIn)

OutInv ==
  /\ command.rest <= cycle
  /\ command.first = IF CtlHoldsOut THEN cycle ELSE command.rest
  /\ mine.first = IF UsbHoldsOut THEN command.first ELSE mine.rest
  /\ ~(CtlHoldsOut /\ UsbHoldsOut)

LinkInv == TypeOK /\ InInv /\ OutInv

(* The cycle around it: run_step goes through its stages in order.         *)
StageInv ==
  /\ at \in {"start", "estimating"} => ctl = "start"
  /\ at = "estimated" => ctl \in {"start", "sensing", "sensed"}
  /\ at = "posing" => ctl = "sensed"
  /\ at = "posed" => ctl \in {"sensed", "computed", "commanding"}

ImuInv ==
  /\ imuData.rest <= received
  /\ imuData.first = IF ImuHoldsLock THEN received ELSE imuData.rest
  /\ est.first = IF CtlHoldsImu THEN imuData.first ELSE est.rest
  /\ ~(ImuHoldsLock /\ CtlHoldsImu)

(* A reference that was taken is no younger than what was read with it,    *)
(* nor than what will be read.                                             *)
RefInv == ref # NoRef => ref <= imuData.first /\ ref <= est.first

PoseInv ==
  /\ ~CtlHoldsPose => pose.first = pose.rest
  /\ ~(CtlHoldsPose /\ LogHoldsPose)

RunnerInv == LinkInv /\ RunnerTypeOK /\ StageInv /\ ImuInv /\ RefInv /\ PoseInv
-----------------------------------------------------------------------------
(* A half of a structure is replaced.                                      *)
LEMMA SetHalf ==
  ASSUME NEW S, NEW f \in [Half -> S], NEW x \in S, NEW h \in Half
  PROVE  /\ [f EXCEPT ![h] = x] \in [Half -> S]
         /\ [f EXCEPT ![h] = x][h] = x
         /\ \A g \in Half \ {h} : [f EXCEPT ![h] = x][g] = f[g]
OBVIOUS

(* Each half is a value.                                                   *)
LEMMA HalvesOf ==
  ASSUME NEW S, NEW f \in [Half -> S]
  PROVE  f.first \in S /\ f.rest \in S
BY DEF Half

(* A bounded counter counts or stays.                                      *)
LEMMA UptoCounts ==
  ASSUME NEW b \in Nat, NEW n \in 0..b
  PROVE  /\ Upto(n + 1, b) \in 0..b /\ Upto(n + 1, b) \in {n, n + 1}
         /\ 0..n \subseteq 0..Upto(n + 1, b)
BY DEF Upto

(* The types the steps of the link need.                                   *)
LEMMA LinkTypes ==
  ASSUME TypeOK
  PROVE  /\ MaxSampled \in Nat /\ MaxCycle \in Nat
         /\ sampled \in Nat /\ packet \in Nat /\ cycle \in Nat
         /\ packet <= sampled
         /\ data.first \in 0..sampled /\ data.rest \in 0..sampled
         /\ legData.first \in 0..sampled /\ legData.rest \in 0..sampled
         /\ command.first \in 0..cycle /\ command.rest \in 0..cycle
         /\ mine.first \in 0..cycle /\ mine.rest \in 0..cycle
<1>1. MaxSampled \in Nat /\ MaxCycle \in Nat
  BY BoundsAssumption
<1>2. sampled \in Nat /\ packet \in Nat /\ cycle \in Nat /\ packet <= sampled
  BY <1>1 DEF TypeOK
<1> QED BY <1>1, <1>2, HalvesOf DEF TypeOK

-----------------------------------------------------------------------------
(* The invariant of the link.                                              *)

(* Nothing has been sent or copied yet.                                    *)
LEMMA LinkInit == Init => LinkInv
<1> SUFFICES ASSUME Init PROVE LinkInv
  OBVIOUS
<1>1. /\ sampled = 0 /\ packet = 0 /\ cycle = 0 /\ frame = 0 /\ board = 0
      /\ data = Zero /\ legData = Zero /\ command = Zero /\ mine = Zero
      /\ usb = "events" /\ ctl = "start" /\ rx = "flying" /\ tx = "flying"
  BY DEF Init
<1>2. Zero \in [Half -> 0..0] /\ Zero.first = 0 /\ Zero.rest = 0
  BY DEF Zero, Half
<1>3. 0 \in 0..0 /\ 0 \in 0..MaxSampled /\ 0 \in 0..MaxCycle
  BY BoundsAssumption
<1>4. TypeOK
  BY <1>1, <1>2, <1>3 DEF TypeOK
<1>5. InInv /\ OutInv
  BY <1>1, <1>2 DEF InInv, OutInv, UsbHoldsIn, UsbHoldsOut, CtlHoldsIn, CtlHoldsOut
<1> QED BY <1>4, <1>5 DEF LinkInv

(* Who copies stays within what was made; the rest moves threads about.    *)
LEMMA TypeKept == TypeOK /\ [Next]_vars => TypeOK'
<1> SUFFICES ASSUME TypeOK, [Next]_vars PROVE TypeOK'
  OBVIOUS
<1> USE DEF rxVars, txVars, ctlVars
<1>1. /\ MaxSampled \in Nat /\ MaxCycle \in Nat
      /\ sampled \in 0..MaxSampled /\ cycle \in 0..MaxCycle
      /\ packet \in 0..sampled /\ data.first \in 0..sampled
      /\ data.rest \in 0..sampled /\ command.first \in 0..cycle
      /\ command.rest \in 0..cycle /\ mine.rest \in 0..cycle
      /\ cycle \in 0..cycle
  <2>1. cycle \in 0..cycle
    BY LinkTypes
  <2> QED BY <2>1, LinkTypes DEF TypeOK
<1>2. "first" \in Half /\ "rest" \in Half
  BY DEF Half
<1>3. CASE InCompletes
  <2>1. /\ sampled' \in 0..MaxSampled /\ packet' \in 0..sampled'
        /\ 0..sampled \subseteq 0..sampled'
    <3>1. /\ sampled' \in 0..MaxSampled /\ 0..sampled \subseteq 0..sampled'
          /\ packet' = sampled'
      BY <1>1, <1>3, UptoCounts DEF InCompletes
    <3> QED BY <1>1, <3>1
  <2>2. data' \in [Half -> 0..sampled'] /\ legData' \in [Half -> 0..sampled']
    <3>1. /\ data \in [Half -> 0..sampled] /\ legData \in [Half -> 0..sampled]
          /\ data' = data /\ legData' = legData
      BY <1>3 DEF TypeOK, InCompletes
    <3> QED BY <2>1, <3>1
  <2> QED BY <1>3, <2>1, <2>2 DEF InCompletes, TypeOK
<1>4. CASE Compute
  <2>1. cycle' \in 0..MaxCycle /\ 0..cycle \subseteq 0..cycle'
    BY <1>1, <1>4, UptoCounts DEF Compute
  <2>2. /\ command' \in [Half -> 0..cycle'] /\ mine' \in [Half -> 0..cycle']
        /\ frame' \in 0..cycle' /\ board' \in 0..cycle'
    <3>1. /\ command \in [Half -> 0..cycle] /\ mine \in [Half -> 0..cycle]
          /\ frame \in 0..cycle /\ board \in 0..cycle
          /\ UNCHANGED <<command, mine, frame, board>>
      BY <1>4 DEF TypeOK, Compute
    <3> QED BY <2>1, <3>1
  <2> QED BY <1>4, <2>1, <2>2 DEF Compute, TypeOK
<1>5. CASE InStores \/ InStoresRest
  <2>1. data' \in [Half -> 0..sampled]
    BY <1>1, <1>2, <1>5, SetHalf DEF InStores, InStoresRest, TypeOK
  <2> QED BY <1>5, <2>1 DEF InStores, InStoresRest, TypeOK
<1>6. CASE Sense \/ SenseRest
  <2>1. legData' \in [Half -> 0..sampled]
    BY <1>1, <1>2, <1>6, SetHalf DEF Sense, SenseRest, TypeOK
  <2> QED BY <1>6, <2>1 DEF Sense, SenseRest, TypeOK
<1>7. CASE Command \/ CommandRest
  <2>1. command' \in [Half -> 0..cycle]
    BY <1>1, <1>2, <1>7, SetHalf DEF Command, CommandRest, TypeOK
  <2> QED BY <1>7, <2>1 DEF Command, CommandRest, TypeOK
<1>8. CASE OutCopies \/ OutCopiesRest
  <2>1. mine' \in [Half -> 0..cycle]
    BY <1>1, <1>2, <1>8, SetHalf DEF OutCopies, OutCopiesRest, TypeOK
  <2> QED BY <1>8, <2>1 DEF OutCopies, OutCopiesRest, TypeOK
<1>9. CASE OutCompletes \/ OutBuilds \/ OutResubmits \/ OutFails
  BY <1>1, <1>9 DEF OutCompletes, OutBuilds, OutResubmits, OutFails, TypeOK
<1>10. CASE InFails \/ InResubmits
  BY <1>10 DEF InFails, InResubmits, TypeOK
<1>11. CASE UNCHANGED vars
  BY <1>11 DEF vars, TypeOK
<1> QED BY <1>3, <1>4, <1>5, <1>6, <1>7, <1>8, <1>9, <1>10, <1>11
        DEF Next, Callback, Device, Control

(* Steps that touch neither the joint data nor the threads' places at them.*)
LEMMA InUntouched ==
  ASSUME InInv, UNCHANGED <<packet, data, legData, UsbHoldsIn, CtlHoldsIn>>
  PROVE  InInv'
BY DEF InInv

(* A lock is held for every copy of the joint data.                        *)
LEMMA InKept == TypeOK /\ InInv /\ [Next]_vars => InInv'
<1> SUFFICES ASSUME TypeOK, InInv, [Next]_vars PROVE InInv'
  OBVIOUS
<1> USE DEF rxVars, txVars, ctlVars
<1>1. /\ data \in [Half -> 0..sampled] /\ legData \in [Half -> 0..sampled]
      /\ packet \in 0..sampled /\ sampled \in Nat /\ packet <= sampled
      /\ data.first \in 0..sampled /\ data.rest \in 0..sampled
      /\ sampled \in 0..MaxSampled /\ MaxSampled \in Nat
  BY LinkTypes DEF TypeOK
<1>2. CASE InCompletes
  <2>1. packet' = sampled' /\ sampled' \in {sampled, sampled + 1}
    BY <1>1, <1>2, UptoCounts DEF InCompletes
  <2>2. UNCHANGED <<data, legData, ctl>> /\ usb = "events" /\ usb' # "storing"
    BY <1>2 DEF InCompletes
  <2>3. data'.rest <= packet'
    BY <1>1, <2>1, <2>2
  <2> QED BY <2>2, <2>3 DEF InInv, UsbHoldsIn, CtlHoldsIn
<1>3. CASE InStores
  <2>1. /\ usb' = "storing" /\ usb = "received" /\ ctl # "sensing"
        /\ UNCHANGED <<packet, legData, ctl>>
        /\ data' = [data EXCEPT !.first = packet]
    BY <1>3 DEF InStores, CtlHoldsIn
  <2>2. data'.first = packet /\ data'.rest = data.rest
    BY <1>1, <2>1 DEF Half
  <2> QED BY <2>1, <2>2 DEF InInv, UsbHoldsIn, CtlHoldsIn
<1>4. CASE InStoresRest
  <2>1. /\ usb' = "dealtIn" /\ usb = "storing" /\ UNCHANGED <<packet, legData, ctl>>
        /\ data' = [data EXCEPT !.rest = packet]
    BY <1>4 DEF InStoresRest
  <2>2. data'.first = data.first /\ data'.rest = packet
    BY <1>1, <2>1 DEF Half
  <2> QED BY <1>1, <2>1, <2>2 DEF InInv, UsbHoldsIn, CtlHoldsIn
<1>5. CASE Sense
  <2>1. /\ usb # "storing" /\ ctl = "start" /\ ctl' = "sensing"
        /\ UNCHANGED <<packet, data, usb>>
        /\ legData' = [legData EXCEPT !.first = data.first]
    BY <1>5 DEF Sense, UsbHoldsIn
  <2>2. legData'.first = data.first
    BY <1>1, <2>1 DEF Half
  <2> QED BY <2>1, <2>2 DEF InInv, UsbHoldsIn, CtlHoldsIn
<1>6. CASE SenseRest
  <2>1. /\ ctl = "sensing" /\ ctl' = "sensed" /\ UNCHANGED <<packet, data, usb>>
        /\ legData' = [legData EXCEPT !.rest = data.rest]
    BY <1>6 DEF SenseRest
  <2>2. legData'.first = legData.first /\ legData'.rest = data.rest
    BY <1>1, <2>1 DEF Half
  <2> QED BY <2>1, <2>2 DEF InInv, UsbHoldsIn, CtlHoldsIn
<1>7. CASE \/ Compute \/ Command \/ CommandRest
           \/ OutCopies \/ OutCopiesRest \/ OutCompletes \/ OutBuilds
           \/ OutResubmits \/ OutFails \/ InFails \/ InResubmits \/ UNCHANGED vars
  <2>1. UNCHANGED <<packet, data, legData>>
    BY <1>7 DEF Compute, Command, CommandRest, OutCopies, OutCopiesRest, OutCompletes,
       OutBuilds, OutResubmits, OutFails, InFails, InResubmits, vars
  <2>2. UNCHANGED UsbHoldsIn
    BY <1>7 DEF Compute, Command, CommandRest, OutCopies, OutCopiesRest, OutCompletes,
       OutBuilds, OutResubmits, OutFails, InFails, InResubmits, vars, UsbHoldsIn
  <2>3. UNCHANGED CtlHoldsIn
    BY <1>7 DEF Compute, Command, CommandRest, OutCopies, OutCopiesRest, OutCompletes,
       OutBuilds, OutResubmits, OutFails, InFails, InResubmits, vars, CtlHoldsIn
  <2> QED BY <2>1, <2>2, <2>3, InUntouched
<1> QED BY <1>2, <1>3, <1>4, <1>5, <1>6, <1>7 DEF Next, Callback, Device, Control

(* The same of the commands.                                               *)
LEMMA OutUntouched ==
  ASSUME OutInv, UNCHANGED <<cycle, command, mine, UsbHoldsOut, CtlHoldsOut>>
  PROVE  OutInv'
BY DEF OutInv

(* And for every copy of a command.                                        *)
LEMMA OutKept == TypeOK /\ OutInv /\ [Next]_vars => OutInv'
<1> SUFFICES ASSUME TypeOK, OutInv, [Next]_vars PROVE OutInv'
  OBVIOUS
<1> USE DEF rxVars, txVars, ctlVars
<1>1. /\ command \in [Half -> 0..cycle] /\ mine \in [Half -> 0..cycle]
      /\ cycle \in Nat /\ command.first \in 0..cycle /\ command.rest \in 0..cycle
      /\ cycle \in 0..MaxCycle /\ MaxCycle \in Nat
  BY LinkTypes DEF TypeOK
<1>2. CASE Compute
  <2>1. cycle' \in {cycle, cycle + 1}
    BY <1>1, <1>2, UptoCounts DEF Compute
  <2>2. UNCHANGED <<command, mine, usb>> /\ ctl = "sensed" /\ ctl' = "computed"
    BY <1>2 DEF Compute
  <2>3. command'.rest <= cycle'
    BY <1>1, <2>1, <2>2
  <2> QED BY <2>2, <2>3 DEF OutInv, UsbHoldsOut, CtlHoldsOut
<1>3. CASE Command
  <2>1. /\ usb # "copying" /\ ctl = "computed" /\ ctl' = "commanding"
        /\ UNCHANGED <<cycle, mine, usb>>
        /\ command' = [command EXCEPT !.first = cycle]
    BY <1>3 DEF Command, UsbHoldsOut
  <2>2. command'.first = cycle /\ command'.rest = command.rest
    BY <1>1, <2>1 DEF Half
  <2> QED BY <2>1, <2>2 DEF OutInv, UsbHoldsOut, CtlHoldsOut
<1>4. CASE CommandRest
  <2>1. /\ ctl = "commanding" /\ ctl' = "start" /\ UNCHANGED <<cycle, mine, usb>>
        /\ command' = [command EXCEPT !.rest = cycle]
    BY <1>4 DEF CommandRest
  <2>2. command'.first = command.first /\ command'.rest = cycle
    BY <1>1, <2>1 DEF Half
  <2> QED BY <1>1, <2>1, <2>2 DEF OutInv, UsbHoldsOut, CtlHoldsOut
<1>5. CASE OutCopies
  <2>1. /\ ctl # "commanding" /\ usb = "sent" /\ usb' = "copying"
        /\ UNCHANGED <<cycle, command, ctl>>
        /\ mine' = [mine EXCEPT !.first = command.first]
    BY <1>5 DEF OutCopies, CtlHoldsOut
  <2>2. mine'.first = command.first
    BY <1>1, <2>1 DEF Half
  <2> QED BY <2>1, <2>2 DEF OutInv, UsbHoldsOut, CtlHoldsOut
<1>6. CASE OutCopiesRest
  <2>1. /\ usb = "copying" /\ usb' = "copied" /\ UNCHANGED <<cycle, command, ctl>>
        /\ mine' = [mine EXCEPT !.rest = command.rest]
    BY <1>6 DEF OutCopiesRest
  <2>2. mine'.first = mine.first /\ mine'.rest = command.rest
    BY <1>1, <2>1 DEF Half
  <2> QED BY <2>1, <2>2 DEF OutInv, UsbHoldsOut, CtlHoldsOut
<1>7. CASE \/ Sense \/ SenseRest \/ InCompletes \/ InStores \/ InStoresRest
           \/ OutCompletes \/ OutBuilds \/ OutResubmits \/ OutFails
           \/ InFails \/ InResubmits \/ UNCHANGED vars
  <2>1. UNCHANGED <<cycle, command, mine>>
    BY <1>7 DEF Sense, SenseRest, InCompletes, InStores, InStoresRest, OutCompletes,
       OutBuilds, OutResubmits, OutFails, InFails, InResubmits, vars
  <2>2. UNCHANGED UsbHoldsOut
    BY <1>7 DEF Sense, SenseRest, InCompletes, InStores, InStoresRest, OutCompletes,
       OutBuilds, OutResubmits, OutFails, InFails, InResubmits, vars, UsbHoldsOut
  <2>3. UNCHANGED CtlHoldsOut
    BY <1>7 DEF Sense, SenseRest, InCompletes, InStores, InStoresRest, OutCompletes,
       OutBuilds, OutResubmits, OutFails, InFails, InResubmits, vars, CtlHoldsOut
  <2> QED BY <2>1, <2>2, <2>3, OutUntouched
<1> QED BY <1>2, <1>3, <1>4, <1>5, <1>6, <1>7 DEF Next, Callback, Device, Control

(* The invariant of the link holds always.                                 *)
LEMMA LinkInductive == Spec => []LinkInv
<1>1. LinkInv /\ [Next]_vars => LinkInv'
  BY TypeKept, InKept, OutKept DEF LinkInv
<1> QED BY <1>1, LinkInit, PTL DEF Spec

-----------------------------------------------------------------------------
(* What the link promises.                                                 *)

(* Whoever looks at a structure finds what was copied last, whole.         *)
LEMMA MappedSamples ==
  ASSUME InInv
  PROVE  /\ (IF UsbHoldsIn THEN data.rest ELSE Whole(data)) = data.rest
         /\ (IF CtlHoldsIn THEN legData.rest ELSE Whole(legData)) = legData.rest
BY DEF InInv, Whole

(* The same of the commands.                                               *)
LEMMA MappedCommands ==
  ASSUME OutInv
  PROVE  /\ (IF CtlHoldsOut THEN command.rest ELSE Whole(command)) = command.rest
         /\ (IF UsbHoldsOut THEN mine.rest ELSE Whole(mine)) = mine.rest
BY DEF OutInv, Whole

(* The joint data handed from the USB thread to the control thread: every  *)
(* sample is seen whole, and none after a newer one                        *)
(* (rt_usb2can.cpp, Deal_Usb_In_Data; Leg_Controller.cpp, Update_Data).    *)
THEOREM SamplesAreWhole == Spec => SensesWholeSamples
<1> DEFINE slot == IF UsbHoldsIn THEN data.rest ELSE Whole(data)
           out  == IF CtlHoldsIn THEN legData.rest ELSE Whole(legData)
<1>1. Init => In!Init
  BY DEF Init, In!Init, Whole, Half, Zero, UsbHoldsIn, CtlHoldsIn
<1>2. LinkInv /\ LinkInv' /\ [Next]_vars => [In!Next]_(In!vars)
  <2> SUFFICES ASSUME TypeOK, InInv, InInv', [Next]_vars
               PROVE  In!Next \/ UNCHANGED <<sampled, slot, out>>
    BY DEF LinkInv, In!vars
  <2>1. /\ slot = data.rest /\ out = legData.rest
        /\ slot' = data'.rest /\ out' = legData'.rest
    <3>1. slot = data.rest /\ out = legData.rest
      BY MappedSamples
    <3>2. slot' = data'.rest /\ out' = legData'.rest
      BY DEF InInv, Whole
    <3> QED BY <3>1, <3>2
  <2> HIDE DEF slot, out
  <2> USE DEF rxVars, txVars, ctlVars
  <2>2. /\ sampled \in 0..MaxSampled /\ MaxSampled \in Nat /\ sampled \in Nat
        /\ packet \in 0..sampled /\ data.rest \in 0..sampled
        /\ data \in [Half -> 0..sampled] /\ legData \in [Half -> 0..sampled]
    BY LinkTypes DEF TypeOK
  <2>3. CASE InCompletes
    <3>1. sampled' \in {sampled, sampled + 1}
      BY <2>2, <2>3, UptoCounts DEF InCompletes
    <3>2. UNCHANGED <<slot, out>>
      BY <2>1, <2>3 DEF InCompletes
    <3> QED BY <3>1, <3>2 DEF In!Next, In!Produce, slot, out
  <2>4. CASE InStores
    <3>1. data'.rest = data.rest /\ UNCHANGED <<sampled, legData>>
      BY <2>2, <2>4 DEF InStores, Half
    <3> QED BY <2>1, <3>1
  <2>5. CASE InStoresRest
    <3>1. data'.rest = packet /\ UNCHANGED <<sampled, legData>>
      BY <2>2, <2>5 DEF InStoresRest, Half
    <3>2. data.rest <= packet
      BY DEF InInv
    <3>3. slot' \in (slot + 1)..sampled \/ slot' = slot
      BY <2>1, <2>2, <3>1, <3>2
    <3>4. UNCHANGED <<sampled, out>>
      BY <2>1, <3>1
    <3> QED BY <3>3, <3>4 DEF In!Next, In!Store, slot, out
  <2>6. CASE Sense
    <3>1. legData'.rest = legData.rest /\ UNCHANGED <<sampled, data>>
      BY <2>2, <2>6 DEF Sense, Half
    <3> QED BY <2>1, <3>1
  <2>7. CASE SenseRest
    <3>1. legData'.rest = data.rest /\ UNCHANGED <<sampled, data>>
      BY <2>2, <2>7 DEF SenseRest, Half
    <3>2. out' = slot /\ UNCHANGED <<sampled, slot>>
      BY <2>1, <3>1
    <3> QED BY <3>2 DEF In!Next, In!Read, slot, out
  <2>8. CASE \/ Compute \/ Command \/ CommandRest
             \/ OutCopies \/ OutCopiesRest \/ OutCompletes \/ OutBuilds
             \/ OutResubmits \/ OutFails \/ InFails \/ InResubmits \/ UNCHANGED vars
    <3>1. UNCHANGED <<sampled, data, legData>>
      BY <2>8 DEF Compute, Command, CommandRest, OutCopies, OutCopiesRest,
         OutCompletes, OutBuilds, OutResubmits, OutFails, InFails, InResubmits, vars
    <3> QED BY <2>1, <3>1
  <2> QED BY <2>3, <2>4, <2>5, <2>6, <2>7, <2>8 DEF Next, Callback, Device, Control
<1> QED BY <1>1, <1>2, LinkInductive, PTL DEF Spec, SensesWholeSamples, In!Spec

(* The commands handed from the control thread to the USB thread: every    *)
(* frame is made of one whole command, and none of an older one than       *)
(* before (Leg_Controller.cpp, WriteToCommand; rt_usb2can.cpp,             *)
(* Deal_Usb_Out_Cmd).                                                      *)
THEOREM CommandsAreSentWhole == Spec => SendsWholeCommands
<1> DEFINE slot == IF CtlHoldsOut THEN command.rest ELSE Whole(command)
           out  == IF UsbHoldsOut THEN mine.rest ELSE Whole(mine)
<1>1. Init => Out!Init
  BY DEF Init, Out!Init, Whole, Half, Zero, UsbHoldsOut, CtlHoldsOut
<1>2. LinkInv /\ LinkInv' /\ [Next]_vars => [Out!Next]_(Out!vars)
  <2> SUFFICES ASSUME TypeOK, OutInv, OutInv', [Next]_vars
               PROVE  Out!Next \/ UNCHANGED <<cycle, slot, out>>
    BY DEF LinkInv, Out!vars
  <2>1. /\ slot = command.rest /\ out = mine.rest
        /\ slot' = command'.rest /\ out' = mine'.rest
    <3>1. slot = command.rest /\ out = mine.rest
      BY MappedCommands
    <3>2. slot' = command'.rest /\ out' = mine'.rest
      BY DEF OutInv, Whole
    <3> QED BY <3>1, <3>2
  <2> HIDE DEF slot, out
  <2> USE DEF rxVars, txVars, ctlVars
  <2>2. /\ cycle \in 0..MaxCycle /\ MaxCycle \in Nat /\ cycle \in Nat
        /\ command.rest \in 0..cycle
        /\ command \in [Half -> 0..cycle] /\ mine \in [Half -> 0..cycle]
    BY LinkTypes DEF TypeOK
  <2>3. CASE Compute
    <3>1. cycle' \in {cycle, cycle + 1}
      BY <2>2, <2>3, UptoCounts DEF Compute
    <3>2. UNCHANGED <<slot, out>>
      BY <2>1, <2>3 DEF Compute
    <3> QED BY <3>1, <3>2 DEF Out!Next, Out!Produce, slot, out
  <2>4. CASE Command
    <3>1. command'.rest = command.rest /\ UNCHANGED <<cycle, mine>>
      BY <2>2, <2>4 DEF Command, Half
    <3> QED BY <2>1, <3>1
  <2>5. CASE CommandRest
    <3>1. command'.rest = cycle /\ UNCHANGED <<cycle, mine>>
      BY <2>2, <2>5 DEF CommandRest, Half
    <3>2. slot' \in (slot + 1)..cycle \/ slot' = slot
      BY <2>1, <2>2, <3>1
    <3>3. UNCHANGED <<cycle, out>>
      BY <2>1, <3>1
    <3> QED BY <3>2, <3>3 DEF Out!Next, Out!Store, slot, out
  <2>6. CASE OutCopies
    <3>1. mine'.rest = mine.rest /\ UNCHANGED <<cycle, command>>
      BY <2>2, <2>6 DEF OutCopies, Half
    <3> QED BY <2>1, <3>1
  <2>7. CASE OutCopiesRest
    <3>1. mine'.rest = command.rest /\ UNCHANGED <<cycle, command>>
      BY <2>2, <2>7 DEF OutCopiesRest, Half
    <3>2. out' = slot /\ UNCHANGED <<cycle, slot>>
      BY <2>1, <3>1
    <3> QED BY <3>2 DEF Out!Next, Out!Read, slot, out
  <2>8. CASE \/ Sense \/ SenseRest \/ InCompletes \/ InStores \/ InStoresRest
             \/ OutCompletes \/ OutBuilds \/ OutResubmits \/ OutFails
             \/ InFails \/ InResubmits \/ UNCHANGED vars
    <3>1. UNCHANGED <<cycle, command, mine>>
      BY <2>8 DEF Sense, SenseRest, InCompletes, InStores, InStoresRest,
         OutCompletes, OutBuilds, OutResubmits, OutFails, InFails, InResubmits, vars
    <3> QED BY <2>1, <3>1
  <2> QED BY <2>3, <2>4, <2>5, <2>6, <2>7, <2>8 DEF Next, Callback, Device, Control
<1> QED BY <1>1, <1>2, LinkInductive, PTL DEF Spec, SendsWholeCommands, Out!Spec

-----------------------------------------------------------------------------
(* The robot's threads around the link.                                    *)

(* The other threads leave the link alone: the robot is a link.            *)
LEMMA RunnerIsLink == RunnerSpec => Spec
<1>1. RunnerInit => Init
  BY DEF RunnerInit
<1>2. [RunnerNext]_allVars => [Next]_vars
  <2> SUFFICES ASSUME [RunnerNext]_allVars PROVE Next \/ UNCHANGED vars
    OBVIOUS
  <2>1. CASE \/ Estimate \/ EstimateRest \/ Poses \/ PosesRest \/ ImuThread
             \/ LogStarts \/ LogEnds \/ UNCHANGED allVars
    BY <2>1 DEF Estimate, EstimateRest, Poses, PosesRest, ImuThread, ImuCompletes,
       ImuFails, ImuStores, ImuStoresRest, LogStarts, LogEnds, allVars, linkVars
  <2>2. CASE RunnerSenses \/ RunnerComputes \/ RunnerEnds \/ BoardLink
    BY <2>2 DEF RunnerSenses, RunnerComputes, RunnerEnds, BoardLink, Next, Control
  <2> QED BY <2>1, <2>2 DEF RunnerNext, RunnerCycle
<1> QED BY <1>1, <1>2, PTL DEF RunnerSpec, Spec

(* The types the steps below need.                                         *)
LEMMA RunnerTypes ==
  ASSUME RunnerTypeOK
  PROVE  /\ MaxMade \in Nat /\ NoRef \in Nat /\ NoRef = MaxMade + 1
         /\ made \in Nat /\ made <= MaxMade /\ received \in 0..made
         /\ imuData.first \in 0..made /\ imuData.rest \in 0..made
         /\ est.first \in 0..made /\ est.rest \in 0..made
         /\ ref \in Nat
<1>1. MaxMade \in Nat /\ NoRef \in Nat /\ NoRef = MaxMade + 1
  BY MadeAssumption DEF NoRef
<1>2. made \in Nat /\ made <= MaxMade /\ received \in 0..made /\ ref \in Nat
  BY <1>1 DEF RunnerTypeOK
<1>3. imuData \in [Half -> 0..made] /\ est \in [Half -> 0..made]
  BY DEF RunnerTypeOK
<1> QED BY <1>1, <1>2, <1>3, HalvesOf

(* Nothing is buffered, no reference is taken.                             *)
LEMMA RunnerInitially == RunnerInit => RunnerInv
<1> SUFFICES ASSUME RunnerInit PROVE RunnerInv
  OBVIOUS
<1>1. LinkInv
  BY LinkInit DEF RunnerInit
<1>2. /\ at = "start" /\ est = Zero /\ ref = NoRef /\ pose = Zero
      /\ imu = "events" /\ imuRx = "flying" /\ made = 0 /\ received = 0
      /\ imuData = Zero /\ logger = "asleep" /\ ctl = "start"
  BY DEF RunnerInit, Init
<1>3. Zero \in [Half -> 0..0] /\ Zero.first = 0 /\ Zero.rest = 0
  BY DEF Zero, Half
<1>4. /\ 0 \in 0..0 /\ 0 \in 0..MaxMade /\ NoRef \in 0..NoRef
      /\ 0..0 \subseteq 0..MaxCycle
  BY MadeAssumption, BoundsAssumption DEF NoRef
<1>5. Zero \in [Half -> 0..MaxCycle]
  BY <1>3, <1>4
<1>6. RunnerTypeOK
  BY <1>1, <1>2, <1>3, <1>4, <1>5 DEF RunnerTypeOK, LinkInv, LogHoldsPose
<1>7. StageInv /\ ImuInv /\ RefInv /\ PoseInv
  BY <1>2, <1>3 DEF StageInv, ImuInv, RefInv, PoseInv, ImuHoldsLock, CtlHoldsImu,
     CtlHoldsPose, LogHoldsPose
<1> QED BY <1>1, <1>6, <1>7 DEF RunnerInv

(* The stages of run_step follow each other.                               *)
LEMMA StageKept == RunnerTypeOK /\ StageInv /\ [RunnerNext]_allVars => StageInv'
<1> SUFFICES ASSUME RunnerTypeOK, StageInv, [RunnerNext]_allVars PROVE StageInv'
  OBVIOUS
<1> USE DEF rxVars, txVars, imuVars, cycleVars, linkVars
<1>1. CASE Estimate \/ EstimateRest \/ Poses \/ PosesRest
  <2>1. UNCHANGED ctl
    BY <1>1 DEF Estimate, EstimateRest, Poses, PosesRest, vars
  <2> QED BY <1>1, <2>1 DEF Estimate, EstimateRest, Poses, PosesRest, StageInv
<1>2. CASE RunnerSenses
  BY <1>2 DEF RunnerSenses, Sense, SenseRest, StageInv
<1>3. CASE RunnerComputes
  BY <1>3 DEF RunnerComputes, Compute, Command, StageInv
<1>4. CASE RunnerEnds
  BY <1>4 DEF RunnerEnds, CommandRest, StageInv
<1>5. CASE BoardLink \/ ImuThread \/ LogStarts \/ LogEnds \/ UNCHANGED allVars
  <2>1. UNCHANGED at
    BY <1>5 DEF BoardLink, ImuThread, ImuCompletes, ImuFails, ImuStores,
       ImuStoresRest, LogStarts, LogEnds, allVars
  <2>2. CASE BoardLink
    BY <2>1, <2>2 DEF BoardLink, Callback, Device, InStores, InStoresRest,
       InResubmits, OutCopies, OutCopiesRest, OutBuilds, OutResubmits, InCompletes,
       InFails, OutCompletes, OutFails, ctlVars, StageInv
  <2>3. CASE ImuThread \/ LogStarts \/ LogEnds \/ UNCHANGED allVars
    <3>1. UNCHANGED ctl
      BY <2>3 DEF ImuThread, ImuCompletes, ImuFails, ImuStores, ImuStoresRest,
         LogStarts, LogEnds, allVars, vars
    <3> QED BY <2>1, <3>1 DEF StageInv
  <2> QED BY <1>5, <2>2, <2>3
<1> QED BY <1>1, <1>2, <1>3, <1>4, <1>5 DEF RunnerNext, RunnerCycle

(* mj_data_ is not written while a frame is logged, nor logged while it is *)
(* written.                                                                *)
LEMMA PoseKept ==
  TypeOK /\ RunnerTypeOK /\ StageInv /\ PoseInv /\ [RunnerNext]_allVars
    => /\ PoseInv' /\ pose' \in [Half -> 0..MaxCycle]
       /\ (LogHoldsPose' => pose'.first = pose'.rest /\ ~CtlHoldsPose')
<1> SUFFICES ASSUME TypeOK, RunnerTypeOK, StageInv, PoseInv, [RunnerNext]_allVars
             PROVE  PoseInv' /\ pose' \in [Half -> 0..MaxCycle]
  BY DEF PoseInv
<1> USE DEF imuVars, cycleVars
<1>1. pose \in [Half -> 0..MaxCycle] /\ MaxCycle \in Nat /\ cycle \in 0..MaxCycle
  BY BoundsAssumption DEF RunnerTypeOK, TypeOK
<1>2. CASE Poses
  <2>1. /\ at' = "posing" /\ UNCHANGED logger /\ logger # "logging"
        /\ pose' = [pose EXCEPT !.first = Upto(cycle + 1, MaxCycle)]
    BY <1>2 DEF Poses, LogHoldsPose
  <2>2. Upto(cycle + 1, MaxCycle) \in 0..MaxCycle
    BY <1>1, UptoCounts
  <2>3. pose' \in [Half -> 0..MaxCycle]
    BY <1>1, <2>1, <2>2, SetHalf DEF Half
  <2> QED BY <2>1, <2>3 DEF PoseInv, CtlHoldsPose, LogHoldsPose
<1>3. CASE PosesRest
  <2>1. /\ at = "posing" /\ at' = "posed" /\ UNCHANGED logger
        /\ pose' = [pose EXCEPT !.rest = pose.first]
    BY <1>3 DEF PosesRest
  <2>2. /\ pose' \in [Half -> 0..MaxCycle] /\ pose'.first = pose.first
        /\ pose'.rest = pose.first
    BY <1>1, <2>1 DEF Half
  <2> QED BY <2>1, <2>2 DEF PoseInv, CtlHoldsPose, LogHoldsPose
<1>4. CASE \/ Estimate \/ EstimateRest \/ RunnerSenses \/ RunnerComputes \/ RunnerEnds
           \/ BoardLink \/ ImuThread \/ LogStarts \/ LogEnds \/ UNCHANGED allVars
  <2>1. UNCHANGED pose
    BY <1>4 DEF Estimate, EstimateRest, RunnerSenses, RunnerComputes, RunnerEnds,
       BoardLink, ImuThread, ImuCompletes, ImuFails, ImuStores, ImuStoresRest,
       LogStarts, LogEnds, allVars
  <2>2. CASE Estimate \/ EstimateRest \/ RunnerEnds
    BY <1>1, <2>1, <2>2 DEF Estimate, EstimateRest, RunnerEnds, CommandRest,
       StageInv, PoseInv, CtlHoldsPose, LogHoldsPose
  <2>3. CASE RunnerSenses \/ RunnerComputes \/ BoardLink
    BY <1>1, <2>1, <2>3 DEF RunnerSenses, RunnerComputes, BoardLink,
       PoseInv, CtlHoldsPose, LogHoldsPose
  <2>4. CASE ImuThread \/ UNCHANGED allVars
    BY <1>1, <2>1, <2>4 DEF ImuThread, ImuCompletes, ImuFails, ImuStores,
       ImuStoresRest, allVars, PoseInv, CtlHoldsPose, LogHoldsPose
  <2>5. CASE LogStarts \/ LogEnds
    BY <1>1, <2>1, <2>5 DEF LogStarts, LogEnds, PoseInv, CtlHoldsPose, LogHoldsPose
  <2> QED BY <1>4, <2>2, <2>3, <2>4, <2>5
<1> QED BY <1>2, <1>3, <1>4 DEF RunnerNext, RunnerCycle

(* The IMU's buffer, what was estimated from it and the yaw reference.     *)
ImuTypes ==
  /\ made \in 0..MaxMade /\ received \in 0..made
  /\ imuData \in [Half -> 0..made] /\ est \in [Half -> 0..made]
  /\ ref \in 0..NoRef

(* Steps of which the IMU's data are no part.                              *)
LEMMA ImuUntouched ==
  ASSUME ImuTypes, ImuInv, RefInv,
         UNCHANGED <<made, received, imuData, est, ref, ImuHoldsLock, CtlHoldsImu>>
  PROVE  ImuTypes' /\ ImuInv' /\ RefInv'
BY DEF ImuTypes, ImuInv, RefInv

(* The IMU thread stores a packet no older than the one before, and not    *)
(* while the estimator reads.                                              *)
LEMMA ImuThreadKeeps ==
  RunnerTypeOK /\ ImuInv /\ RefInv /\ ImuThread => ImuTypes' /\ ImuInv' /\ RefInv'
<1> SUFFICES ASSUME RunnerTypeOK, ImuInv, RefInv, ImuThread
             PROVE  ImuTypes' /\ ImuInv' /\ RefInv'
  OBVIOUS
<1>1. ImuTypes
  BY DEF RunnerTypeOK, ImuTypes
<1>2. /\ MaxMade \in Nat /\ made \in Nat /\ made <= MaxMade /\ made \in 0..MaxMade
      /\ received \in 0..made
      /\ imuData.first \in 0..made /\ imuData.rest \in 0..made
      /\ est.first \in 0..made /\ ref \in Nat
      /\ imuData \in [Half -> 0..made] /\ est \in [Half -> 0..made]
  BY RunnerTypes DEF RunnerTypeOK
<1>3. UNCHANGED <<at, est, ref>>
  BY DEF ImuThread, ImuCompletes, ImuFails, ImuStores, ImuStoresRest, cycleVars
<1>4. CASE ImuCompletes
  <2>1. /\ imu = "events" /\ imu' = "received" /\ UNCHANGED imuData
        /\ received' = made' /\ made' = Upto(made + 1, MaxMade)
    BY <1>4 DEF ImuCompletes
  <2>2. made' \in 0..MaxMade /\ 0..made \subseteq 0..made' /\ received' \in 0..made'
    <3>1. made' \in 0..MaxMade /\ 0..made \subseteq 0..made'
      BY <1>2, <2>1, UptoCounts
    <3> QED BY <1>2, <2>1, <3>1
  <2>3. imuData' \in [Half -> 0..made'] /\ est' \in [Half -> 0..made']
    BY <1>2, <1>3, <2>1, <2>2
  <2>4. imuData'.rest <= received'
    <3>1. imuData.rest \in 0..made'
      BY <1>2, <2>2
    <3> QED BY <2>1, <3>1
  <2>5. ImuTypes'
    BY <1>1, <1>3, <2>2, <2>3 DEF ImuTypes, NoRef
  <2>6. ImuInv'
    BY <1>3, <2>1, <2>4 DEF ImuInv, ImuHoldsLock, CtlHoldsImu
  <2>7. RefInv'
    BY <1>3, <2>1 DEF RefInv, NoRef
  <2> QED BY <2>5, <2>6, <2>7
<1>5. CASE ImuFails
  <2>1. UNCHANGED <<imu, made, received, imuData>>
    BY <1>5 DEF ImuFails
  <2> QED BY <1>1, <1>3, <2>1, ImuUntouched DEF ImuHoldsLock, CtlHoldsImu
<1>6. CASE ImuStores
  <2>1. /\ imu = "received" /\ imu' = "storing" /\ at # "estimating"
        /\ UNCHANGED <<made, received>>
        /\ imuData' = [imuData EXCEPT !.first = received]
    BY <1>6 DEF ImuStores, CtlHoldsImu
  <2>2. /\ imuData' \in [Half -> 0..made] /\ imuData'.first = received
        /\ imuData'.rest = imuData.rest
    BY <1>2, <2>1 DEF Half
  <2>3. imuData.first = imuData.rest /\ imuData.rest <= received
    BY <2>1 DEF ImuInv, ImuHoldsLock
  <2>4. ImuTypes'
    BY <1>1, <1>3, <2>1, <2>2 DEF ImuTypes, NoRef
  <2>5. ImuInv'
    BY <1>3, <2>1, <2>2, <2>3 DEF ImuInv, ImuHoldsLock, CtlHoldsImu
  <2>6. RefInv'
    <3>1. imuData.first <= imuData'.first /\ imuData'.first \in Nat
      BY <1>2, <2>2, <2>3
    <3> QED BY <1>2, <1>3, <3>1 DEF RefInv, NoRef
  <2> QED BY <2>4, <2>5, <2>6
<1>7. CASE ImuStoresRest
  <2>1. /\ imu = "storing" /\ imu' = "events" /\ UNCHANGED <<made, received>>
        /\ imuData' = [imuData EXCEPT !.rest = received]
    BY <1>7 DEF ImuStoresRest
  <2>2. /\ imuData' \in [Half -> 0..made] /\ imuData'.first = imuData.first
        /\ imuData'.rest = received
    BY <1>2, <2>1 DEF Half
  <2>3. imuData.first = received /\ at # "estimating"
    BY <2>1 DEF ImuInv, ImuHoldsLock, CtlHoldsImu
  <2>4. ImuTypes'
    BY <1>1, <1>3, <2>1, <2>2 DEF ImuTypes, NoRef
  <2>5. ImuInv'
    BY <1>2, <1>3, <2>1, <2>2, <2>3 DEF ImuInv, ImuHoldsLock, CtlHoldsImu
  <2>6. RefInv'
    BY <1>3, <2>2 DEF RefInv, NoRef
  <2> QED BY <2>4, <2>5, <2>6
<1> QED BY <1>4, <1>5, <1>6, <1>7 DEF ImuThread

(* The estimator reads a whole packet, and takes the reference from what   *)
(* it has read.                                                            *)
LEMMA EstimateKeeps ==
  RunnerTypeOK /\ ImuInv /\ RefInv /\ (Estimate \/ EstimateRest)
    => ImuTypes' /\ ImuInv' /\ RefInv'
<1> SUFFICES ASSUME RunnerTypeOK, ImuInv, RefInv, Estimate \/ EstimateRest
             PROVE  ImuTypes' /\ ImuInv' /\ RefInv'
  OBVIOUS
<1>1. ImuTypes
  BY DEF RunnerTypeOK, ImuTypes
<1>2. /\ MaxMade \in Nat /\ made \in Nat /\ made <= MaxMade
      /\ imuData.first \in 0..made /\ imuData.rest \in 0..made
      /\ ref \in Nat /\ NoRef = MaxMade + 1
      /\ est \in [Half -> 0..made]
  BY RunnerTypes DEF RunnerTypeOK
<1>3. UNCHANGED <<imu, made, received, imuData>>
  BY DEF Estimate, EstimateRest, imuVars
<1>4. CASE Estimate
  <2>1. /\ at = "start" /\ at' = "estimating" /\ imu # "storing"
        /\ est' = [est EXCEPT !.first = imuData.first]
        /\ ref' = IF ref = NoRef THEN imuData.first ELSE ref
    BY <1>4 DEF Estimate, ImuHoldsLock
  <2>2. /\ est' \in [Half -> 0..made] /\ est'.first = imuData.first
        /\ est'.rest = est.rest
    BY <1>2, <2>1 DEF Half
  <2>3. ref' \in 0..NoRef /\ ref' <= imuData.first
    <3>1. CASE ref = NoRef
      BY <1>2, <2>1, <3>1
    <3>2. CASE ref # NoRef
      BY <1>1, <1>2, <2>1, <3>2 DEF ImuTypes, RefInv
    <3> QED BY <3>1, <3>2
  <2>4. ImuTypes'
    BY <1>1, <1>3, <2>2, <2>3 DEF ImuTypes, NoRef
  <2>5. ImuInv'
    BY <1>3, <2>1, <2>2 DEF ImuInv, ImuHoldsLock, CtlHoldsImu
  <2>6. RefInv'
    BY <1>3, <2>2, <2>3 DEF RefInv, NoRef
  <2> QED BY <2>4, <2>5, <2>6
<1>5. CASE EstimateRest
  <2>1. /\ at = "estimating" /\ at' = "estimated" /\ UNCHANGED ref
        /\ est' = [est EXCEPT !.rest = imuData.rest]
    BY <1>5 DEF EstimateRest
  <2>2. /\ est' \in [Half -> 0..made] /\ est'.first = est.first
        /\ est'.rest = imuData.rest
    BY <1>2, <2>1 DEF Half
  <2>3. imu # "storing" /\ est.first = imuData.first /\ imuData.first = imuData.rest
    BY <2>1 DEF ImuInv, ImuHoldsLock, CtlHoldsImu
  <2>4. ImuTypes'
    BY <1>1, <1>3, <2>1, <2>2 DEF ImuTypes, NoRef
  <2>5. ImuInv'
    BY <1>3, <2>1, <2>2, <2>3 DEF ImuInv, ImuHoldsLock, CtlHoldsImu
  <2>6. RefInv'
    BY <1>3, <2>1, <2>2 DEF RefInv, NoRef
  <2> QED BY <2>4, <2>5, <2>6
<1> QED BY <1>4, <1>5

(* So the IMU's data stay in order, whoever steps.                         *)
LEMMA ImuKept ==
  RunnerTypeOK /\ StageInv /\ ImuInv /\ RefInv /\ [RunnerNext]_allVars
    => ImuTypes' /\ ImuInv' /\ RefInv'
<1> SUFFICES ASSUME RunnerTypeOK, StageInv, ImuInv, RefInv, [RunnerNext]_allVars
             PROVE  ImuTypes' /\ ImuInv' /\ RefInv'
  OBVIOUS
<1>1. ImuTypes
  BY DEF RunnerTypeOK, ImuTypes
<1>2. CASE ImuThread
  BY <1>2, ImuThreadKeeps
<1>3. CASE Estimate \/ EstimateRest
  BY <1>3, EstimateKeeps
<1>4. CASE \/ RunnerSenses \/ Poses \/ PosesRest \/ RunnerComputes \/ RunnerEnds
           \/ BoardLink \/ LogStarts \/ LogEnds \/ UNCHANGED allVars
  <2>1. UNCHANGED <<imu, made, received, imuData, est, ref>>
    BY <1>4 DEF RunnerSenses, Poses, PosesRest, RunnerComputes, RunnerEnds, BoardLink,
       LogStarts, LogEnds, allVars, imuVars, cycleVars
  <2>2. UNCHANGED CtlHoldsImu
    <3>1. CASE RunnerEnds
      BY <3>1 DEF RunnerEnds, CommandRest, StageInv, CtlHoldsImu
    <3>2. CASE Poses \/ PosesRest
      BY <3>2 DEF Poses, PosesRest, CtlHoldsImu
    <3>3. CASE \/ RunnerSenses \/ RunnerComputes \/ BoardLink \/ LogStarts \/ LogEnds
               \/ UNCHANGED allVars
      BY <3>3 DEF RunnerSenses, RunnerComputes, BoardLink, LogStarts, LogEnds, allVars,
         cycleVars, CtlHoldsImu
    <3> QED BY <1>4, <3>1, <3>2, <3>3
  <2> QED BY <1>1, <2>1, <2>2, ImuUntouched DEF ImuHoldsLock
<1> QED BY <1>2, <1>3, <1>4 DEF RunnerNext, RunnerCycle

(* The threads' places.                                                    *)
LEMMA PlacesKept ==
  RunnerTypeOK /\ [RunnerNext]_allVars
    => /\ at' \in {"start", "estimating", "estimated", "posing", "posed"}
       /\ imu' \in {"events", "received", "storing"}
       /\ imuRx' \in {"flying", "ended", "refused"}
       /\ logger' \in {"asleep", "logging"}
<1> SUFFICES ASSUME RunnerTypeOK, [RunnerNext]_allVars
             PROVE  /\ at' \in {"start", "estimating", "estimated", "posing", "posed"}
                    /\ imu' \in {"events", "received", "storing"}
                    /\ imuRx' \in {"flying", "ended", "refused"}
                    /\ logger' \in {"asleep", "logging"}
  OBVIOUS
<1> USE DEF imuVars, cycleVars
<1>1. CASE Estimate \/ EstimateRest \/ Poses \/ PosesRest \/ RunnerEnds
  BY <1>1 DEF Estimate, EstimateRest, Poses, PosesRest, RunnerEnds, RunnerTypeOK
<1>2. CASE ImuThread
  BY <1>2 DEF ImuThread, ImuCompletes, ImuFails, ImuStores, ImuStoresRest, RunnerTypeOK
<1>3. CASE \/ RunnerSenses \/ RunnerComputes \/ BoardLink \/ LogStarts \/ LogEnds
           \/ UNCHANGED allVars
  BY <1>3 DEF RunnerSenses, RunnerComputes, BoardLink, LogStarts, LogEnds, allVars,
     RunnerTypeOK
<1> QED BY <1>1, <1>2, <1>3 DEF RunnerNext, RunnerCycle

(* The invariant of the robot's threads holds always.                      *)
LEMMA RunnerInductive == RunnerSpec => []RunnerInv
<1>1. RunnerInv /\ LinkInv' /\ [RunnerNext]_allVars => RunnerInv'
  <2> SUFFICES ASSUME RunnerInv, LinkInv', [RunnerNext]_allVars PROVE RunnerInv'
    OBVIOUS
  <2>1. TypeOK /\ RunnerTypeOK /\ StageInv /\ ImuInv /\ RefInv /\ PoseInv
    BY DEF RunnerInv, LinkInv
  <2>2. StageInv'
    BY <2>1, StageKept
  <2>3. /\ PoseInv' /\ pose' \in [Half -> 0..MaxCycle]
        /\ (LogHoldsPose' => pose'.first = pose'.rest /\ ~CtlHoldsPose')
    BY <2>1, PoseKept
  <2>4. ImuTypes' /\ ImuInv' /\ RefInv'
    BY <2>1, ImuKept
  <2>5. RunnerTypeOK'
    BY <2>1, <2>3, <2>4, PlacesKept DEF RunnerTypeOK, ImuTypes, LinkInv
  <2> QED BY <2>2, <2>3, <2>4, <2>5 DEF RunnerInv
<1>2. RunnerSpec => []LinkInv
  BY RunnerIsLink, LinkInductive
<1> QED BY <1>1, <1>2, RunnerInitially, PTL DEF RunnerSpec

-----------------------------------------------------------------------------
(* What the robot's threads promise.                                       *)

(* Types; nothing is passed on before it was made; the OUT transfer is not *)
(* submitted twice; and no frame is logged in which the joints are those   *)
(* of one cycle and the bodies those of another (rerun_mtx).               *)
THEOREM ThreadsAreOrderly == RunnerSpec => []RunnerTypeOK
<1>1. RunnerInv => RunnerTypeOK
  BY DEF RunnerInv
<1> QED BY <1>1, RunnerInductive, PTL

(* Whoever looks at the IMU's data finds one packet, whole.                *)
LEMMA MappedPackets ==
  ASSUME ImuInv
  PROVE  /\ (IF ImuHoldsLock THEN imuData.rest ELSE WholePacket(imuData))
              = imuData.rest
         /\ (IF CtlHoldsImu THEN est.rest ELSE WholePacket(est)) = est.rest
BY DEF ImuInv, WholePacket

(* The IMU's buffer between its thread and the estimator, locked by        *)
(* imu_mtx, hands on whole packets, none older than before.                *)
LEMMA PacketsAreWhole == RunnerSpec => Imu!Spec
<1> DEFINE slot == IF ImuHoldsLock THEN imuData.rest ELSE WholePacket(imuData)
           out  == IF CtlHoldsImu THEN est.rest ELSE WholePacket(est)
<1>1. RunnerInit => Imu!Init
  BY DEF RunnerInit, Imu!Init, WholePacket, Half, Zero, ImuHoldsLock, CtlHoldsImu
<1>2. RunnerInv /\ RunnerInv' /\ [RunnerNext]_allVars => [Imu!Next]_(Imu!vars)
  <2> SUFFICES ASSUME RunnerTypeOK, ImuInv, ImuInv', [RunnerNext]_allVars
               PROVE  Imu!Next \/ UNCHANGED <<made, slot, out>>
    BY DEF RunnerInv, Imu!vars
  <2>1. /\ slot = imuData.rest /\ out = est.rest
        /\ slot' = imuData'.rest /\ out' = est'.rest
    <3>1. slot = imuData.rest /\ out = est.rest
      BY MappedPackets
    <3>2. slot' = imuData'.rest /\ out' = est'.rest
      BY DEF ImuInv, WholePacket
    <3> QED BY <3>1, <3>2
  <2> HIDE DEF slot, out
  <2>2. /\ MaxMade \in Nat /\ made \in 0..MaxMade /\ made \in Nat
        /\ received \in 0..made /\ imuData.rest \in 0..made
        /\ imuData \in [Half -> 0..made] /\ est \in [Half -> 0..made]
    BY RunnerTypes DEF RunnerTypeOK
  <2>3. CASE ImuCompletes
    <3>1. made' \in {made, made + 1}
      BY <2>2, <2>3, UptoCounts DEF ImuCompletes
    <3>2. UNCHANGED <<slot, out>>
      BY <2>1, <2>3 DEF ImuCompletes, cycleVars
    <3> QED BY <3>1, <3>2 DEF Imu!Next, Imu!Produce, slot, out
  <2>4. CASE ImuStores
    <3>1. imuData'.rest = imuData.rest /\ UNCHANGED <<made, est>>
      BY <2>2, <2>4 DEF ImuStores, Half, cycleVars
    <3> QED BY <2>1, <3>1
  <2>5. CASE ImuStoresRest
    <3>1. imuData'.rest = received /\ UNCHANGED <<made, est>>
      BY <2>2, <2>5 DEF ImuStoresRest, Half, cycleVars
    <3>2. imuData.rest <= received
      BY DEF ImuInv
    <3>3. slot' \in (slot + 1)..made \/ slot' = slot
      BY <2>1, <2>2, <3>1, <3>2
    <3>4. UNCHANGED <<made, out>>
      BY <2>1, <3>1
    <3> QED BY <3>3, <3>4 DEF Imu!Next, Imu!Store, slot, out
  <2>6. CASE Estimate
    <3>1. est'.rest = est.rest /\ UNCHANGED <<made, imuData>>
      BY <2>2, <2>6 DEF Estimate, Half, imuVars
    <3> QED BY <2>1, <3>1
  <2>7. CASE EstimateRest
    <3>1. est'.rest = imuData.rest /\ UNCHANGED <<made, imuData>>
      BY <2>2, <2>7 DEF EstimateRest, Half, imuVars
    <3>2. out' = slot /\ UNCHANGED <<made, slot>>
      BY <2>1, <3>1
    <3> QED BY <3>2 DEF Imu!Next, Imu!Read, slot, out
  <2>8. CASE \/ ImuFails \/ RunnerSenses \/ Poses \/ PosesRest \/ RunnerComputes
             \/ RunnerEnds \/ BoardLink \/ LogStarts \/ LogEnds \/ UNCHANGED allVars
    <3>1. UNCHANGED <<made, imuData, est>>
      BY <2>8 DEF ImuFails, RunnerSenses, Poses, PosesRest, RunnerComputes, RunnerEnds,
         BoardLink, LogStarts, LogEnds, allVars, imuVars, cycleVars
    <3> QED BY <2>1, <3>1
  <2> QED BY <2>3, <2>4, <2>5, <2>6, <2>7, <2>8 DEF RunnerNext, RunnerCycle, ImuThread
<1> QED BY <1>1, <1>2, RunnerInductive, PTL DEF RunnerSpec, Imu!Spec

(* The controller sees each joint sample and each IMU packet whole, and    *)
(* never one older than before, whatever the other threads do meanwhile.   *)
THEOREM RobotSensesWholeValues == RunnerSpec => SensesWholeValues
BY RunnerIsLink, SamplesAreWhole, PacketsAreWhole, PTL DEF SensesWholeValues

(* Nor does the rest of the robot disturb the commands.                    *)
THEOREM RobotSendsWholeCommands == RunnerSpec => SendsWholeCommands
BY RunnerIsLink, CommandsAreSentWhole, PTL

(* The yaw reference is taken once and is no younger than any orientation  *)
(* it is applied to (first_vist_ of the orientation estimator), although   *)
(* the IMU thread goes on storing packets all the while.                   *)
THEOREM YawReferenceIsOldest == RunnerSpec => ReferenceIsOldest
<1>1. RunnerInv /\ RunnerInv' /\ [RunnerNext]_allVars
        => [ref # NoRef => ref' = ref /\ ref <= est'.first]_allVars
  <2> SUFFICES ASSUME RefInv, RefInv', [RunnerNext]_allVars, ref # NoRef
               PROVE  ref' = ref /\ ref <= est'.first
    BY DEF RunnerInv
  <2>1. UNCHANGED ref
    <3>1. CASE Estimate
      BY <3>1 DEF Estimate
    <3>2. CASE \/ EstimateRest \/ RunnerSenses \/ Poses \/ PosesRest \/ RunnerComputes
               \/ RunnerEnds \/ BoardLink \/ ImuThread \/ LogStarts \/ LogEnds
               \/ UNCHANGED allVars
      BY <3>2 DEF EstimateRest, RunnerSenses, Poses, PosesRest, RunnerComputes,
         RunnerEnds, BoardLink, ImuThread, ImuCompletes, ImuFails, ImuStores,
         ImuStoresRest, LogStarts, LogEnds, allVars, cycleVars
    <3> QED BY <3>1, <3>2 DEF RunnerNext, RunnerCycle
  <2> QED BY <2>1 DEF RefInv, NoRef
<1> QED BY <1>1, RunnerInductive, PTL DEF RunnerSpec, ReferenceIsOldest
===============================================================================

-------------------------------- MODULE Usb2Can --------------------------------
(***************************************************************************)
(* The motor board link: Beast_USB2CAN's two endlessly resubmitted libusb  *)
(* transfers, whose callbacks both run in the USB thread, and the control  *)
(* thread that reads the joint data before its cycle (setupStep) and       *)
(* writes its command after it (finalStep).  The shared structures are     *)
(* protected by usb_shared_in_mutex and usb_shared_out_mutex.              *)
(*                                                                         *)
(* Joint data and commands are numbered in the order they are made, up to  *)
(* the bounds, from which on the last number repeats.  A copy is done in   *)
(* two halves, so that a reader can meet a half-written structure if a     *)
(* lock does not stop it.  The conversions themselves are in module        *)
(* MotorMap; module RobotRunner adds the IMU and the rest of the cycle.    *)
(***************************************************************************)
EXTENDS Naturals

CONSTANTS
  MaxSampled,  \* bound on the data packets told apart
  MaxCycle,    \* bound on the control cycles told apart
  MayFail      \* transfers may end with an error status

ASSUME BoundsAssumption ==
  MaxSampled \in Nat /\ MaxCycle \in Nat /\ MayFail \in BOOLEAN

VARIABLES
  usb,      \* where the USB thread stands; "events" in libusb_handle_events
  rx, tx,   \* the IN and the OUT transfer: "flying", "ended" or "failed"
  sampled,  \* number of data packets the board sent
  packet,   \* usb_data_u
  data,     \* control_data_serial_offset, alias runner_usbdata_
  legData,  \* leg_data of the control thread
  ctl,      \* where the control thread stands
  cycle,    \* number of commands computed
  command,  \* control_cmd_serial, alias runner_usbcmd_
  mine,     \* control_cmd_serial_offset: the USB thread's own copy
  frame,    \* usb_cmd_u, the buffer of the OUT transfer
  board     \* the command the board received last

vars == <<usb, rx, tx, sampled, packet, data, legData, ctl, cycle, command, mine,
          frame, board>>

rxVars  == <<rx, sampled, packet, data>>
txVars  == <<tx, mine, frame, board>>
ctlVars == <<ctl, legData, cycle, command>>

Half == {"first", "rest"}
Zero == [h \in Half |-> 0]
Upto(n, bound) == IF n > bound THEN bound ELSE n

(* Who holds the two locks is a matter of where the threads stand.         *)
UsbHoldsIn  == usb = "storing"
UsbHoldsOut == usb = "copying"
CtlHoldsIn  == ctl = "sensing"
CtlHoldsOut == ctl = "commanding"

-----------------------------------------------------------------------------
(* After start_transfer: zeroed buffers, both transfers submitted.         *)
Init ==
  /\ usb = "events" /\ rx = "flying" /\ tx = "flying"
  /\ sampled = 0 /\ packet = 0 /\ data = Zero /\ legData = Zero
  /\ ctl = "start" /\ cycle = 0 /\ command = Zero
  /\ mine = Zero /\ frame = 0 /\ board = 0

(* libusb writes a packet into the buffer and calls back.  A packet whose  *)
(* checksum is wrong is reported and dropped.                              *)
InCompletes ==
  /\ usb = "events" /\ rx = "flying"
  /\ rx' = "ended"
  /\ sampled' = Upto(sampled + 1, MaxSampled) /\ packet' = sampled'
  /\ usb' \in {"received", "dealtIn"}
  /\ UNCHANGED <<data, txVars, ctlVars>>

(* An error status: a message says "Transfer again!", and that is all.     *)
InFails ==
  /\ MayFail
  /\ usb = "events" /\ rx = "flying"
  /\ rx' = "failed"
  /\ UNCHANGED <<usb, sampled, packet, data, txVars, ctlVars>>

(* Deal_Usb_In_Data, after the conversions: stored under the unique lock.  *)
InStores ==
  /\ usb = "received" /\ ~CtlHoldsIn
  /\ data' = [data EXCEPT !.first = packet]
  /\ usb' = "storing"
  /\ UNCHANGED <<rx, sampled, packet, txVars, ctlVars>>

InStoresRest ==
  /\ usb = "storing"
  /\ data' = [data EXCEPT !.rest = packet]
  /\ usb' = "dealtIn"
  /\ UNCHANGED <<rx, sampled, packet, txVars, ctlVars>>

InResubmits ==
  /\ usb = "dealtIn"
  /\ rx' = "flying" /\ usb' = "events"
  /\ UNCHANGED <<sampled, packet, data, txVars, ctlVars>>

-----------------------------------------------------------------------------
(* Mistake: the transfer is submitted before its buffer is rebuilt.        *)
OutCompletesResubmitted ==
  /\ usb = "events" /\ tx = "flying"
  /\ board' = frame
  /\ usb' = "sent"
  /\ UNCHANGED <<tx, mine, frame, rxVars, ctlVars>>

(* The board has received the frame; libusb calls back.                    *)
OutCompletes ==
  /\ usb = "events" /\ tx = "flying"
  /\ board' = frame
  /\ tx' = "ended" /\ usb' = "sent"
  /\ UNCHANGED <<mine, frame, rxVars, ctlVars>>

(* As for IN, nothing is transferred again.                                *)
OutFails ==
  /\ MayFail
  /\ usb = "events" /\ tx = "flying"
  /\ tx' = "failed"
  /\ UNCHANGED <<usb, mine, frame, board, rxVars, ctlVars>>

(* Deal_Usb_Out_Cmd: the command is copied under the shared lock ...       *)
OutCopies ==
  /\ usb = "sent" /\ ~CtlHoldsOut
  /\ mine' = [mine EXCEPT !.first = command.first]
  /\ usb' = "copying"
  /\ UNCHANGED <<tx, frame, board, rxVars, ctlVars>>

OutCopiesRest ==
  /\ usb = "copying"
  /\ mine' = [mine EXCEPT !.rest = command.rest]
  /\ usb' = "copied"
  /\ UNCHANGED <<tx, frame, board, rxVars, ctlVars>>

(* ... and made into a frame without it.                                   *)
OutBuilds ==
  /\ usb = "copied"
  /\ frame' = mine.rest
  /\ usb' = "dealtOut"
  /\ UNCHANGED <<tx, mine, board, rxVars, ctlVars>>

(* Mistake: the callback does not submit again.                            *)
OutForgetsResubmit ==
  /\ usb = "dealtOut"
  /\ usb' = "events"
  /\ UNCHANGED <<tx, mine, frame, board, rxVars, ctlVars>>

OutResubmits ==
  /\ usb = "dealtOut"
  /\ tx' = "flying" /\ usb' = "events"
  /\ UNCHANGED <<mine, frame, board, rxVars, ctlVars>>

-----------------------------------------------------------------------------
(* The control thread.                                                     *)

(* setupStep: Update_Data under the shared lock.                           *)
Sense ==
  /\ ctl = "start" /\ ~UsbHoldsIn
  /\ legData' = [legData EXCEPT !.first = data.first]
  /\ ctl' = "sensing"
  /\ UNCHANGED <<usb, cycle, command, rxVars, txVars>>

SenseRest ==
  /\ ctl = "sensing"
  /\ legData' = [legData EXCEPT !.rest = data.rest]
  /\ ctl' = "sensed"
  /\ UNCHANGED <<usb, cycle, command, rxVars, txVars>>

(* ControlFSM_run: a new leg_command.                                      *)
Compute ==
  /\ ctl = "sensed"
  /\ cycle' = Upto(cycle + 1, MaxCycle)
  /\ ctl' = "computed"
  /\ UNCHANGED <<usb, legData, command, rxVars, txVars>>

(* Mistake: the command is written without the lock.                       *)
CommandUnlocked ==
  /\ ctl = "computed"
  /\ command' = [command EXCEPT !.first = cycle]
  /\ ctl' = "commanding"
  /\ UNCHANGED <<usb, legData, cycle, rxVars, txVars>>

(* finalStep: WriteToCommand under the unique lock.                        *)
Command ==
  /\ ctl = "computed" /\ ~UsbHoldsOut
  /\ command' = [command EXCEPT !.first = cycle]
  /\ ctl' = "commanding"
  /\ UNCHANGED <<usb, legData, cycle, rxVars, txVars>>

CommandRest ==
  /\ ctl = "commanding"
  /\ command' = [command EXCEPT !.rest = cycle]
  /\ ctl' = "start"
  /\ UNCHANGED <<usb, legData, cycle, rxVars, txVars>>

-----------------------------------------------------------------------------
Callback == \/ InStores \/ InStoresRest \/ InResubmits
            \/ OutCopies \/ OutCopiesRest \/ OutBuilds \/ OutResubmits

Device == InCompletes \/ InFails \/ OutCompletes \/ OutFails

Control == Sense \/ SenseRest \/ Compute \/ Command \/ CommandRest

Next == Callback \/ Device \/ Control

Spec == Init /\ [][Next]_vars

(* Callbacks and the control loop keep going; a thread that waits for a    *)
(* lock gets it, since neither holds one for longer than a copy.  The      *)
(* board keeps accepting frames: without that nothing can be promised.     *)
FairSpec ==
  /\ Spec
  /\ SF_vars(InStores) /\ WF_vars(InStoresRest) /\ WF_vars(InResubmits)
  /\ SF_vars(OutCopies) /\ WF_vars(OutCopiesRest)
  /\ WF_vars(OutBuilds) /\ WF_vars(OutResubmits)
  /\ SF_vars(OutCompletes)
  /\ SF_vars(Sense) /\ WF_vars(SenseRest) /\ WF_vars(Compute)
  /\ SF_vars(Command) /\ WF_vars(CommandRest)

-----------------------------------------------------------------------------
(* Types; nothing is passed on that was not made before; the buffer of the  *)
(* OUT transfer is not written while libusb owns it, nor is it submitted   *)
(* twice.                                                                  *)
TypeOK ==
  /\ usb \in {"events", "received", "storing", "dealtIn",
              "sent", "copying", "copied", "dealtOut"}
  /\ ctl \in {"start", "sensing", "sensed", "computed", "commanding"}
  /\ rx \in {"flying", "ended", "failed"} /\ tx \in {"flying", "ended", "failed"}
  /\ sampled \in 0..MaxSampled /\ packet \in 0..sampled
  /\ cycle \in 0..MaxCycle
  /\ data \in [Half -> 0..sampled] /\ legData \in [Half -> 0..sampled]
  /\ command \in [Half -> 0..cycle] /\ mine \in [Half -> 0..cycle]
  /\ frame \in 0..cycle /\ board \in 0..cycle
  /\ (usb \in {"sent", "copying", "copied", "dealtOut"} => tx = "ended")

(* The value of a structure whose copy has ended: a number nobody made if  *)
(* its halves differ.                                                      *)
Whole(b) == IF b.first = b.rest THEN b.first ELSE MaxSampled + MaxCycle + 1

In == INSTANCE LatestValue
        WITH newest <- sampled,
             slot   <- IF UsbHoldsIn THEN data.rest ELSE Whole(data),
             out    <- IF CtlHoldsIn THEN legData.rest ELSE Whole(legData)

Out == INSTANCE LatestValue
         WITH newest <- cycle,
              slot   <- IF CtlHoldsOut THEN command.rest ELSE Whole(command),
              out    <- IF UsbHoldsOut THEN mine.rest ELSE Whole(mine)

(* The controller sees each joint sample whole, never one older than       *)
(* before.                                                                 *)
SensesWholeSamples == In!Spec

(* The frames are made of whole commands, each of one control cycle, never *)
(* older than before.                                                      *)
SendsWholeCommands == Out!Spec

(* While no OUT transfer has failed, a command, or a newer one, reaches the *)
(* board: every callback rebuilds the frame and submits its transfer       *)
(* again.  The locks cannot stop the stream: no thread holds one while it  *)
(* waits for the other.                                                    *)
CommandsArrive ==
  \A n \in 1..MaxCycle : (command.rest >= n) ~> (board >= n \/ tx = "failed")

(* rt_usb2can.cpp 54: "Motor Ep81 IN Error! Transfer again!", and 63:        *)
(* "Motor Ep01 OUT Error! Transfer again!".  After an error each of the    *)
(* two transfers is submitted again.                                       *)
TransfersAgain ==
  /\ (rx = "failed") ~> (rx = "flying")
  /\ (tx = "failed") ~> (tx = "flying")
===============================================================================

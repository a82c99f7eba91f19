--------------------------- MODULE RemoteController ---------------------------
(***************************************************************************)
(* The 200 Hz remote-controller thread (thread_rc_function, rc_complete,   *)
(* rc_map_read): one event of the game pad per poll updates rc_map_, the   *)
(* chords of buttons held in rc_map_ store rc_control_.mode one after the  *)
(* other, the stick sets v_des, and a lost pad is reopened.  The control   *)
(* thread, which stores into mode as well, is added in module Teleop.      *)
(*                                                                         *)
(* The pad and the kernel's joystick queue are the environment.  A queue   *)
(* that runs over, like a device that is opened, replays the pad's state   *)
(* as events marked JS_EVENT_INIT, which rc_map_read ignores.              *)
(*                                                                         *)
(* Left out: the second axis, the buttons and the fields that nothing in   *)
(* the controller reads (select, stand_flag, height_variation, omega_des). *)
(***************************************************************************)
EXTENDS Naturals, Sequences, FSMNames

CONSTANTS
  Inputs,       \* the buttons in use, and the stick "ly" (pushed or at rest)
  QueueLength   \* events the kernel keeps (64)

ASSUME InputsAssumption ==
  /\ Inputs \subseteq {"lb", "rb", "a", "b", "x", "y", "start", "ly"}
  /\ QueueLength \in Nat \ {0}

VARIABLES
  pad,         \* what the operator holds
  present,     \* /dev/input/js0 exists
  opened,      \* rc_fd_ is an open file of the present device
  queue,       \* events not read yet
  map,         \* rc_map_
  joystick,    \* the event read last
  connecting,  \* game_pad_connecting
  mode,        \* rc_control_.mode
  v_des,       \* v_des: are v_des[0] and the rest not zero?
  step,        \* where the thread stands
  chord,       \* the chord that is looked at next
  \* history variables: they constrain nothing
  asked,       \* the last mode this thread stored
  trusted,     \* inputs of which no event has been lost since one was read
  held         \* the chords the operator ever held

envVars  == <<pad, present, held>>
fileVars == <<opened, queue>>
mapVars  == <<map, joystick, trusted>>
vars == <<envVars, fileVars, mapVars, connecting, mode, v_des, step, chord, asked>>

-----------------------------------------------------------------------------
(* The chords in the order of the code: a later one has the last word.     *)
Chords == <<[keys |-> {"lb", "a"},     mode |-> "RECOVER_STAND"],
            [keys |-> {"lb", "x"},     mode |-> "SITDOWN"],
            [keys |-> {"rb", "x"},     mode |-> "PASSIVE"],
            [keys |-> {"lb", "rb"},    mode |-> "DAMPING"],
            [keys |-> {"lb", "b"},     mode |-> "RL_WALK_2"],
            [keys |-> {"lb", "y"},     mode |-> "RL_WALK"],
            [keys |-> {"lb", "start"}, mode |-> "USER_INTERFACE"]>>

Pressed(m, c) == \A b \in Chords[c].keys : b \in Inputs /\ m[b]

Pushed == "ly" \in Inputs /\ map["ly"]

Half   == {"first", "rest"}
AtRest == [h \in Half |-> FALSE]

Press(b, on) == [input |-> b, value |-> on]

(* An event with JS_EVENT_INIT, or the zeroed struct nothing was read into.*)
Ignored == Press("none", FALSE)

Event == {Press(b, on) : b \in Inputs, on \in BOOLEAN} \cup {Ignored}

Init ==
  /\ pad = [b \in Inputs |-> FALSE] /\ present = TRUE /\ held = {}
  /\ opened = TRUE /\ queue = <<>>
  /\ map = [b \in Inputs |-> FALSE] /\ joystick = Ignored /\ trusted = Inputs
  /\ connecting = FALSE /\ mode = "PASSIVE" /\ v_des = AtRest
  /\ step = "read" /\ chord = 1 /\ asked = NoAsk

-----------------------------------------------------------------------------
(* The environment.                                                        *)

(* The operator presses, pushes or releases something.                     *)
Touch(b) ==
  /\ pad' = [pad EXCEPT ![b] = ~@]
  /\ held' = held \cup {c \in DOMAIN Chords : Pressed(pad', c)}
  /\ LET full == Len(queue) = QueueLength
     IN  /\ queue' = IF ~opened THEN queue
                     ELSE IF full THEN <<Ignored>>
                     ELSE Append(queue, Press(b, pad'[b]))
         /\ trusted' = IF opened /\ ~full THEN trusted ELSE {}
  /\ UNCHANGED <<present, opened, map, joystick, connecting, mode, v_des, step, chord, asked>>

(* The pad is lost, with the events not read yet ...                       *)
Unplug ==
  /\ present /\ present' = FALSE
  /\ opened' = FALSE /\ queue' = <<>> /\ trusted' = {}
  /\ UNCHANGED <<pad, held, map, joystick, connecting, mode, v_des, step, chord, asked>>

(* ... and comes back.                                                     *)
Plug ==
  /\ ~present /\ present' = TRUE
  /\ UNCHANGED <<pad, held, fileVars, mapVars, connecting, mode, v_des, step, chord, asked>>

-----------------------------------------------------------------------------
(* Mistake: released inputs are not taken over.                            *)
ApplyPressesOnly(e) == IF e # Ignored /\ e.value THEN [map EXCEPT ![e.input] = TRUE] ELSE map

(* What an event does to rc_map_.                                          *)
Apply(e) == IF e = Ignored THEN map ELSE [map EXCEPT ![e.input] = e.value]

(* Mistake: the queue is read from the wrong end.                          *)
ReadNewest ==
  /\ step = "read" /\ step' = "chords"
  /\ IF opened /\ queue # <<>>
     THEN LET e == queue[Len(queue)]
          IN  /\ joystick' = e /\ queue' = SubSeq(queue, 1, Len(queue) - 1)
              /\ trusted' = IF e = Ignored THEN trusted ELSE trusted \cup {e.input}
     ELSE UNCHANGED <<joystick, queue, trusted>>
  /\ map' = Apply(joystick')
  /\ UNCHANGED <<envVars, opened, connecting, mode, v_des, chord, asked>>

(* rc_map_read.  Its result is not looked at: when nothing could be read   *)
(* the previous event is applied once more.                                *)
Read ==
  /\ step = "read" /\ step' = "chords"
  /\ IF opened /\ queue # <<>>
     THEN LET e == Head(queue)
          IN  /\ joystick' = e /\ queue' = Tail(queue)
              /\ trusted' = IF e = Ignored THEN trusted ELSE trusted \cup {e.input}
     ELSE UNCHANGED <<joystick, queue, trusted>>
  /\ map' = Apply(joystick')
  /\ UNCHANGED <<envVars, opened, connecting, mode, v_des, chord, asked>>

(* The ifs of rc_complete that are still to come and will store.  Between  *)
(* them nobody writes rc_map_, so the others need no step of their own.    *)
Due == {c \in DOMAIN Chords : c >= chord /\ Pressed(map, c)}

(* What every variant of the next action has in common.                    *)
Stores(c) ==
  /\ step = "chords"
  /\ mode' = Chords[c].mode /\ asked' = mode'
  /\ UNCHANGED <<envVars, fileVars, mapVars, connecting, v_des, step>>

(* Mistake: any button of the chord will do.                               *)
ChordAny ==
  \E c \in DOMAIN Chords :
    /\ c >= chord /\ \E b \in Chords[c].keys : b \in Inputs /\ map[b]
    /\ Stores(c) /\ chord' = c + 1

(* Mistake: the chords are an else-if chain.                               *)
ChordFirstOnly ==
  \E c \in Due : /\ \A d \in Due : c <= d
                 /\ Stores(c) /\ chord' = Len(Chords) + 1

(* One `if' of rc_complete.  rc_mtx_ is held, but the control thread does   *)
(* not take it: what is stored here it may see before the next `if'.       *)
Chord ==
  \E c \in Due : /\ \A d \in Due : c <= d
                 /\ Stores(c) /\ chord' = c + 1

Walking == mode \in {"RL_WALK", "RL_WALK_2"}

(* Mistake: a stick at rest leaves v_des as it was.                        *)
SpeedKeeps ==
  /\ step = "chords" /\ Due = {} /\ chord' = 1
  /\ v_des' = IF Walking /\ Pushed THEN [v_des EXCEPT !.first = TRUE] ELSE v_des
  /\ step' = IF Walking THEN "speedRest" ELSE "stat"
  /\ UNCHANGED <<envVars, fileVars, mapVars, connecting, mode, asked>>

(* v_des[0], after rc_mtx_ has been released; `mode' is tested once more.  *)
Speed ==
  /\ step = "chords" /\ Due = {} /\ chord' = 1
  /\ v_des' = IF Walking THEN [v_des EXCEPT !.first = Pushed] ELSE v_des
  /\ step' = IF Walking THEN "speedRest" ELSE "stat"
  /\ UNCHANGED <<envVars, fileVars, mapVars, connecting, mode, asked>>

(* v_des[1] and v_des[2].                                                  *)
SpeedRest ==
  /\ step = "speedRest" /\ step' = "stat"
  /\ v_des' = [v_des EXCEPT !.rest = Pushed]
  /\ UNCHANGED <<envVars, fileVars, mapVars, connecting, mode, chord, asked>>

(* The device file is looked for; if it is gone the descriptor is closed.  *)
(* Mode, rc_map_ and v_des stay as they are.                               *)
Stat ==
  /\ step = "stat"
  /\ connecting' = (connecting \/ ~present)
  /\ step' = IF connecting' THEN "open" ELSE "read"
  /\ UNCHANGED <<envVars, fileVars, mapVars, mode, v_des, chord, asked>>

(* Mistake: the descriptor counts as open before anyone looked at it.       *)
OpenBlindly ==
  /\ step = "open" /\ step' = "read"
  /\ opened' = TRUE /\ queue' = <<Ignored>>
  /\ connecting' = ~present
  /\ UNCHANGED <<envVars, mapVars, mode, v_des, chord, asked>>

(* Mistake: one attempt to reopen the device is all.                       *)
OpenOnce ==
  /\ step = "open" /\ step' = "read"
  /\ opened' = present /\ queue' = IF present THEN <<Ignored>> ELSE queue
  /\ connecting' = FALSE
  /\ UNCHANGED <<envVars, mapVars, mode, v_des, chord, asked>>

(* The device is opened again if it is there.                              *)
Open ==
  /\ step = "open" /\ step' = "read"
  /\ opened' = present /\ queue' = IF present THEN <<Ignored>> ELSE queue
  /\ connecting' = ~present
  /\ UNCHANGED <<envVars, mapVars, mode, v_des, chord, asked>>

-----------------------------------------------------------------------------
Poll == Read \/ Chord \/ Speed \/ SpeedRest \/ Stat \/ Open

Environment == (\E b \in Inputs : Touch(b)) \/ Unplug \/ Plug

Next == Poll \/ Environment

Spec == Init /\ [][Next]_vars

(* The thread is driven by a periodic timer and its reads do not block.    *)
FairSpec == Spec /\ WF_vars(Poll)

-----------------------------------------------------------------------------
(* Types; a descriptor that is open is one of a device that is there.      *)
TypeOK ==
  /\ pad \in [Inputs -> BOOLEAN] /\ map \in [Inputs -> BOOLEAN]
  /\ present \in BOOLEAN /\ opened \in BOOLEAN /\ (opened => present)
  /\ queue \in Seq(Event) /\ Len(queue) <= QueueLength /\ (queue # <<>> => opened)
  /\ joystick \in Event /\ trusted \subseteq Inputs /\ held \subseteq DOMAIN Chords
  /\ connecting \in BOOLEAN /\ v_des \in [Half -> BOOLEAN]
  /\ mode \in RcMode /\ asked \in RcMode \cup {NoAsk}
  /\ step \in {"read", "chords", "speedRest", "stat", "open"}
  /\ chord \in 1..Len(Chords) + 1 /\ (chord # 1 => step = "chords")

(* rc_map_ catches up with the pad: an input none of whose events was lost  *)
(* since one was read, and none is waiting, is what the operator holds.    *)
(* Applying the last event again and again does no harm.                   *)
MapCatchesUp ==
  \A b \in trusted :
    (\A i \in DOMAIN queue : queue[i].input # b) => map[b] = pad[b]

(* Events are read one per poll and late, but in order: the thread never   *)
(* sees a chord the operator did not at some moment really hold -- as long  *)
(* as no event of its buttons was lost.                                    *)
NoPhantomChords ==
  \A c \in DOMAIN Chords :
    step = "chords" /\ Pressed(map, c) /\ Chords[c].keys \subseteq trusted
      => c \in held

StopHeld == opened /\ \A b \in Inputs : pad[b] <=> b \in {"lb", "rb"}

(* The stop chord, held alone and long enough, is the last word of every    *)
(* poll if all inputs are trusted.                                         *)
TrustedStopIsHeard ==
  <>[](StopHeld /\ trusted = Inputs) => <>[](asked = "DAMPING")

(* README.md 56: "LB + RB = DAMPING".  The same, whatever happened before.  *)
StopIsHeard == <>[]StopHeld => <>[](asked = "DAMPING")

(* A loss that was noticed is repaired: once the pad is there to stay, its *)
(* descriptor is open again.                                               *)
NoticedLossIsRepaired == <>[]present => (connecting ~> opened)
===============================================================================

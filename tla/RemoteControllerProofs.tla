------------------------ MODULE RemoteControllerProofs ------------------------
(***************************************************************************)
(* For every set of buttons and every length of the kernel's queue: what   *)
(* the remote-controller thread makes of the events, read one per poll and *)
(* late, is what the operator did -- as far as no event was lost.          *)
(***************************************************************************)
EXTENDS RemoteController, TLAPS

-----------------------------------------------------------------------------
(* While the descriptor is not that of the present device nothing is       *)
(* trusted; the thread opens only what is not open.                        *)
FileInv ==
  /\ ~opened => trusted = {}
  /\ connecting => ~opened
  /\ step = "open" => connecting

(* rc_map_ holds the event read last, so that applying it again, as every   *)
(* poll without an event does, changes nothing.                            *)
ReapplyInv == joystick # Ignored => map[joystick.input] = joystick.value

(* Event i is the last of the first k that is about input b.               *)
IsLast(i, k, b) ==
  /\ i \in 1..k /\ queue[i].input = b
  /\ \A j \in 1..k : i < j => queue[j].input # b

(* The last event of an input that waits tells how the operator holds it.  *)
LastInv ==
  \A b \in Inputs : \A i \in DOMAIN queue :
    IsLast(i, Len(queue), b) => queue[i].value = pad[b]

(* Having read k more events, the thread will trust input b and find it     *)
(* pressed in rc_map_.                                                     *)
WillSee(k, b) ==
  \/ /\ b \in trusted /\ map[b]
     /\ \A i \in 1..k : queue[i].input # b
  \/ \E i \in 1..k : IsLast(i, k, b) /\ queue[i].value

(* A chord the thread will find, after any number of the waiting events,   *)
(* is one that the operator held.                                          *)
ReplayInv ==
  \A k \in 0..Len(queue), c \in DOMAIN Chords :
    (\A b \in Chords[c].keys : b \in Inputs /\ WillSee(k, b)) => c \in held

IInv == TypeOK /\ FileInv /\ ReapplyInv /\ LastInv /\ MapCatchesUp /\ ReplayInv

-----------------------------------------------------------------------------
(* The seven chords: none is of no button, each asks for a mode.           *)
LEMMA ChordsOf ==
  /\ Len(Chords) = 7 /\ DOMAIN Chords = 1..7
  /\ \A c \in DOMAIN Chords : Chords[c].mode \in RcMode /\ Chords[c].keys # {}
<1>1. Len(Chords) = 7 /\ DOMAIN Chords = 1..7
  BY DEF Chords
<1>2. \A c \in {1, 2, 3, 4, 5, 6, 7} :
        Chords[c].mode \in RcMode /\ Chords[c].keys # {}
  BY DEF Chords, RcMode
<1>3. 1..7 = {1, 2, 3, 4, 5, 6, 7}
  OBVIOUS
<1> QED BY <1>1, <1>2, <1>3

(* An event is of an input or it is ignored.                               *)
LEMMA EventOf ==
  ASSUME NEW e \in Event
  PROVE  /\ e.input \in Inputs \cup {"none"} /\ e.value \in BOOLEAN
         /\ e = Ignored <=> e.input = "none"
         /\ e = Ignored <=> e.input \notin Inputs
<1>1. "none" \notin Inputs
  BY InputsAssumption
<1>2. CASE e = Ignored
  BY <1>1, <1>2 DEF Ignored, Press
<1>3. CASE e # Ignored
  <2>1. PICK b \in Inputs, on \in BOOLEAN : e = [input |-> b, value |-> on]
    BY <1>3 DEF Event, Press
  <2>2. e.input = b /\ e.value = on
    BY <2>1
  <2> QED BY <1>1, <1>3, <2>2
<1> QED BY <1>2, <1>3

(* What is left of a queue when its head was read.                         *)
LEMMA TailOf ==
  ASSUME NEW S, NEW q \in Seq(S), q # <<>>
  PROVE  /\ Head(q) \in S /\ Head(q) = q[1]
         /\ Tail(q) \in Seq(S)
         /\ Len(q) \in Nat \ {0} /\ Len(Tail(q)) = Len(q) - 1
         /\ DOMAIN q = 1..Len(q) /\ DOMAIN Tail(q) = 1..Len(q) - 1
         /\ \A i \in 1..Len(q) - 1 : Tail(q)[i] = q[i + 1]
OBVIOUS

(* A queue and one element more.                                           *)
LEMMA AppendOf ==
  ASSUME NEW S, NEW q \in Seq(S), NEW e \in S
  PROVE  /\ Append(q, e) \in Seq(S)
         /\ Len(q) \in Nat /\ Len(Append(q, e)) = Len(q) + 1
         /\ DOMAIN Append(q, e) = 1..Len(q) + 1
         /\ \A i \in 1..Len(q) : Append(q, e)[i] = q[i]
         /\ Append(q, e)[Len(q) + 1] = e
OBVIOUS

(* A queue that only says that it was overrun, or is of a device that was  *)
(* opened.                                                                 *)
LEMMA IgnoredOnly ==
  /\ <<Ignored>> \in Seq(Event) /\ Len(<<Ignored>>) = 1
  /\ \A i \in 1..1 : <<Ignored>>[i].input \notin Inputs
<1>1. Ignored \in Event
  BY DEF Event
<1>2. Ignored.input \notin Inputs
  BY <1>1, EventOf
<1> QED BY <1>1, <1>2

-----------------------------------------------------------------------------
(* Types and the file.                                                     *)

(* Nothing was pressed, nothing is waiting.                                *)
LEMMA Initially == Init => IInv
<1> SUFFICES ASSUME Init PROVE IInv
  OBVIOUS
<1>1. TypeOK
  <2>1. queue \in Seq(Event) /\ Len(queue) <= QueueLength
    BY InputsAssumption DEF Init
  <2>2. joystick \in Event /\ v_des \in [Half -> BOOLEAN]
    BY DEF Init, Event, AtRest
  <2>3. mode \in RcMode /\ asked \in RcMode \cup {NoAsk} /\ chord \in 1..Len(Chords) + 1
    BY ChordsOf DEF Init, RcMode
  <2>4. /\ pad \in [Inputs -> BOOLEAN] /\ map \in [Inputs -> BOOLEAN]
        /\ trusted \subseteq Inputs /\ held \subseteq DOMAIN Chords
        /\ step = "read" /\ chord = 1
    BY DEF Init
  <2>5. present = TRUE /\ opened = TRUE /\ connecting = FALSE
    BY DEF Init
  <2> QED BY <2>1, <2>2, <2>3, <2>4, <2>5 DEF TypeOK
<1>2. FileInv /\ ReapplyInv
  BY DEF Init, FileInv, ReapplyInv
<1>3. queue = <<>> /\ Len(queue) = 0 /\ DOMAIN queue = {}
  BY DEF Init
<1>4. LastInv
  BY <1>3 DEF LastInv
<1>5. MapCatchesUp
  BY DEF Init, MapCatchesUp
<1>6. ReplayInv
  <2> SUFFICES ASSUME NEW k \in 0..Len(queue), NEW c \in DOMAIN Chords,
                      \A b \in Chords[c].keys : b \in Inputs /\ WillSee(k, b)
               PROVE  FALSE
    BY DEF ReplayInv
  <2>1. PICK b \in Chords[c].keys : b \in Inputs /\ WillSee(k, b)
    BY ChordsOf
  <2>2. ~map[b] /\ k = 0
    BY <1>3, <2>1 DEF Init
  <2> QED BY <2>1, <2>2 DEF WillSee
<1> QED BY <1>1, <1>2, <1>4, <1>5, <1>6 DEF IInv

(* Types are kept, by every action.                                        *)
LEMMA TypeKept == TypeOK /\ [Next]_vars => TypeOK'
<1> SUFFICES ASSUME TypeOK, [Next]_vars PROVE TypeOK'
  OBVIOUS
<1> USE DEF envVars, fileVars, mapVars
<1>1. QueueLength \in Nat \ {0}
  BY InputsAssumption
<1>2. ASSUME NEW b \in Inputs, Touch(b) PROVE TypeOK'
  <2>1. /\ UNCHANGED <<present, opened, map, joystick, connecting, mode, v_des>>
        /\ UNCHANGED <<step, chord, asked>>
    BY <1>2 DEF Touch
  <2>2. pad' \in [Inputs -> BOOLEAN] /\ pad'[b] \in BOOLEAN
    BY <1>2 DEF Touch, TypeOK
  <2>3. held' \subseteq DOMAIN Chords /\ trusted' \subseteq Inputs
    BY <1>2 DEF Touch, TypeOK
  <2>4. Press(b, pad'[b]) \in Event
    BY <2>2 DEF Event
  <2>5. queue' \in Seq(Event) /\ Len(queue') <= QueueLength /\ (queue' # <<>> => opened)
    <3>1. queue \in Seq(Event) /\ Len(queue) <= QueueLength /\ Len(queue) \in Nat
      BY DEF TypeOK
    <3>2. CASE ~opened
      BY <1>2, <3>1, <3>2 DEF Touch, TypeOK
    <3>3. CASE opened /\ Len(queue) = QueueLength
      <4>1. queue' = <<Ignored>>
        BY <1>2, <3>3 DEF Touch
      <4> QED BY <1>1, <3>3, <4>1, IgnoredOnly
    <3>4. CASE opened /\ Len(queue) # QueueLength
      <4>1. queue' = Append(queue, Press(b, pad'[b]))
        BY <1>2, <3>4 DEF Touch
      <4>2. queue' \in Seq(Event) /\ Len(queue') = Len(queue) + 1
        BY <2>4, <3>1, <4>1, AppendOf
      <4> QED BY <1>1, <3>1, <3>4, <4>2
    <3> QED BY <3>2, <3>3, <3>4
  <2> QED BY <2>1, <2>2, <2>3, <2>5 DEF TypeOK
<1>3. CASE Unplug
  <2>1. queue' \in Seq(Event) /\ Len(queue') = 0 /\ queue' = <<>>
    BY <1>3 DEF Unplug
  <2>2. /\ UNCHANGED <<pad, held, map, joystick, connecting, mode, v_des>>
        /\ UNCHANGED <<step, chord, asked>>
        /\ present' = FALSE /\ opened' = FALSE /\ trusted' = {}
    BY <1>3 DEF Unplug
  <2>3. /\ present' \in BOOLEAN /\ opened' \in BOOLEAN /\ (opened' => present')
        /\ trusted' \subseteq Inputs
    BY <2>2
  <2>4. Len(queue') <= QueueLength /\ (queue' # <<>> => opened')
    BY <1>1, <2>1
  <2> QED BY <2>1, <2>2, <2>3, <2>4 DEF TypeOK
<1>4. CASE Plug
  BY <1>4 DEF Plug, TypeOK
<1>5. CASE Read
  <2>1. /\ step = "read" /\ step' = "chords"
        /\ UNCHANGED <<pad, present, held, opened, connecting, mode, v_des, chord, asked>>
    BY <1>5 DEF Read
  <2>2. /\ queue' \in Seq(Event) /\ Len(queue') <= QueueLength
        /\ (queue' # <<>> => opened) /\ joystick' \in Event
        /\ trusted' \subseteq Inputs
    <3>1. CASE opened /\ queue # <<>>
      <4>1. queue \in Seq(Event) /\ Len(queue) <= QueueLength
        BY DEF TypeOK
      <4>2. /\ joystick' = Head(queue) /\ queue' = Tail(queue)
            /\ trusted' = IF Head(queue) = Ignored THEN trusted
                          ELSE trusted \cup {Head(queue).input}
        BY <1>5, <3>1 DEF Read
      <4>3. /\ Head(queue) \in Event /\ Tail(queue) \in Seq(Event)
            /\ Len(queue) \in Nat /\ Len(Tail(queue)) = Len(queue) - 1
        BY <3>1, <4>1, TailOf
      <4>4. trusted' \subseteq Inputs
        BY <4>2, <4>3, EventOf DEF TypeOK
      <4> QED BY <1>1, <3>1, <4>1, <4>2, <4>3, <4>4
    <3>2. CASE ~(opened /\ queue # <<>>)
      BY <1>5, <3>2 DEF Read, TypeOK
    <3> QED BY <3>1, <3>2
  <2>3. map' \in [Inputs -> BOOLEAN]
    <3>1. map' = IF joystick' = Ignored THEN map
                 ELSE [map EXCEPT ![joystick'.input] = joystick'.value]
      BY <1>5 DEF Read, Apply
    <3>2. joystick'.value \in BOOLEAN
      BY <2>2, EventOf
    <3> QED BY <3>1, <3>2 DEF TypeOK
  <2> QED BY <2>1, <2>2, <2>3 DEF TypeOK
<1>6. CASE Chord
  <2>1. PICK c \in DOMAIN Chords : Stores(c) /\ chord' = c + 1
    BY <1>6 DEF Chord, Due
  <2>2. mode' \in RcMode /\ asked' \in RcMode /\ chord' \in 1..Len(Chords) + 1
    BY <2>1, ChordsOf DEF Stores
  <2> QED BY <2>1, <2>2 DEF Stores, TypeOK
<1>7. CASE Speed
  <2>1. v_des' \in [Half -> BOOLEAN]
    BY <1>7 DEF Speed, Pushed, TypeOK
  <2> QED BY <1>7, <2>1, ChordsOf DEF Speed, TypeOK
<1>8. CASE SpeedRest
  <2>1. v_des' \in [Half -> BOOLEAN]
    BY <1>8 DEF SpeedRest, Pushed, TypeOK
  <2> QED BY <1>8, <2>1 DEF SpeedRest, TypeOK
<1>9. CASE Stat
  BY <1>9 DEF Stat, TypeOK
<1>10. CASE Open
  <2>1. queue' \in Seq(Event) /\ Len(queue') <= QueueLength /\ (queue' # <<>> => opened')
    BY <1>1, <1>10, IgnoredOnly DEF Open, TypeOK
  <2> QED BY <1>10, <2>1 DEF Open, TypeOK
<1>11. CASE UNCHANGED vars
  BY <1>11 DEF vars, TypeOK
<1> QED BY <1>2, <1>3, <1>4, <1>5, <1>6, <1>7, <1>8, <1>9, <1>10, <1>11
        DEF Next, Poll, Environment

(* A descriptor is opened by nobody but the thread, and then trusted anew. *)
LEMMA FileKept == TypeOK /\ FileInv /\ [Next]_vars => FileInv'
<1> SUFFICES ASSUME TypeOK, FileInv, [Next]_vars PROVE FileInv'
  OBVIOUS
<1> USE DEF envVars, fileVars, mapVars
<1>1. ASSUME NEW b \in Inputs, Touch(b) PROVE FileInv'
  BY <1>1 DEF Touch, FileInv
<1>2. CASE Read
  BY <1>2 DEF Read, FileInv
<1>3. CASE Unplug \/ Plug
  BY <1>3 DEF Unplug, Plug, FileInv
<1>4. CASE Chord
  BY <1>4 DEF Chord, Stores, FileInv
<1>5. CASE Speed \/ SpeedRest
  BY <1>5 DEF Speed, SpeedRest, FileInv
<1>6. CASE Stat
  BY <1>6 DEF Stat, FileInv, TypeOK
<1>7. CASE Open
  BY <1>7 DEF Open, FileInv
<1>8. CASE UNCHANGED vars
  BY <1>8 DEF vars, FileInv
<1> QED BY <1>1, <1>2, <1>3, <1>4, <1>5, <1>6, <1>7, <1>8 DEF Next, Poll, Environment

(* Only a poll changes rc_map_, and it changes it to what it has read.     *)
LEMMA ReapplyKept == TypeOK /\ ReapplyInv /\ [Next]_vars => ReapplyInv'
<1> SUFFICES ASSUME TypeOK, ReapplyInv, [Next]_vars PROVE ReapplyInv'
  OBVIOUS
<1> USE DEF envVars, fileVars, mapVars
<1>1. CASE Read
  <2>1. map' = IF joystick' = Ignored THEN map
               ELSE [map EXCEPT ![joystick'.input] = joystick'.value]
    BY <1>1 DEF Read, Apply
  <2>2. joystick' \in Event
    BY TypeKept DEF TypeOK
  <2>3. joystick' # Ignored => joystick'.input \in Inputs
    BY <2>2, EventOf
  <2> QED BY <2>1, <2>3 DEF ReapplyInv, TypeOK
<1>2. CASE ~Read
  <2>1. UNCHANGED <<joystick, map>>
    BY <1>2 DEF Next, Poll, Environment, Touch, Unplug, Plug, Chord, Stores, Speed,
       SpeedRest, Stat, Open, vars
  <2> QED BY <2>1 DEF ReapplyInv
<1> QED BY <1>1, <1>2

-----------------------------------------------------------------------------
(* What the queue, rc_map_ and the pad have to do with each other.         *)
QueueInv == LastInv /\ MapCatchesUp /\ ReplayInv

(* Steps that touch none of them.                                          *)
LEMMA Untouched ==
  ASSUME QueueInv, UNCHANGED <<pad, queue, map, trusted, held>>
  PROVE  QueueInv'
<1>1. LastInv'
  BY DEF QueueInv, LastInv, IsLast
<1>2. MapCatchesUp'
  BY DEF QueueInv, MapCatchesUp
<1>3. ReplayInv'
  BY DEF QueueInv, ReplayInv, WillSee, IsLast
<1> QED BY <1>1, <1>2, <1>3 DEF QueueInv

(* Where nothing is trusted and no event of an input waits, nothing is     *)
(* promised.                                                               *)
LEMMA NothingTrusted ==
  ASSUME queue' \in Seq(Event), trusted' = {},
         \A i \in 1..Len(queue') : queue'[i].input \notin Inputs
  PROVE  QueueInv'
<1>1. DOMAIN queue' = 1..Len(queue') /\ Len(queue') \in Nat
  OBVIOUS
<1>2. LastInv'
  BY <1>1 DEF LastInv, IsLast
<1>3. MapCatchesUp'
  BY DEF MapCatchesUp
<1>4. ReplayInv'
  <2> SUFFICES ASSUME NEW k \in 0..Len(queue'), NEW c \in DOMAIN Chords,
                      \A b \in Chords[c].keys : b \in Inputs /\ WillSee(k, b)'
               PROVE  FALSE
    BY DEF ReplayInv
  <2>1. PICK b \in Chords[c].keys : b \in Inputs /\ WillSee(k, b)'
    BY ChordsOf
  <2>2. PICK i \in 1..k : queue'[i].input = b
    BY <2>1 DEF WillSee, IsLast
  <2>3. i \in 1..Len(queue')
    BY <1>1, <2>2
  <2> QED BY <2>1, <2>2, <2>3
<1> QED BY <1>2, <1>3, <1>4 DEF QueueInv

(* A touch is the last event of its input, and the pad after it is what    *)
(* the thread will see when it has read everything.                        *)
LEMMA TouchQueued ==
  ASSUME TypeOK, QueueInv, NEW b \in Inputs, Touch(b), opened,
         Len(queue) # QueueLength
  PROVE  QueueInv'
<1>0. PICK n \in Nat : n = Len(queue)
  BY DEF TypeOK
<1>1. /\ pad' = [pad EXCEPT ![b] = ~@] /\ UNCHANGED <<map, trusted>>
      /\ queue' = Append(queue, Press(b, pad'[b]))
      /\ held' = held \cup {c \in DOMAIN Chords : Pressed(pad', c)}
  BY DEF Touch
<1>2. pad' \in [Inputs -> BOOLEAN] /\ \A d \in Inputs : d # b => pad'[d] = pad[d]
  BY <1>1 DEF TypeOK
<1>3. Press(b, pad'[b]) \in Event
  BY <1>2 DEF Event
<1>4. /\ n \in Nat /\ DOMAIN queue = 1..n
      /\ Len(queue') = n + 1 /\ DOMAIN queue' = 1..(n + 1)
      /\ \A i \in 1..n : queue'[i] = queue[i]
      /\ queue'[n + 1].input = b /\ queue'[n + 1].value = pad'[b]
  <2>1. queue \in Seq(Event)
    BY DEF TypeOK
  <2>2. /\ Len(queue') = n + 1 /\ DOMAIN queue' = 1..(n + 1)
        /\ \A i \in 1..n : queue'[i] = queue[i]
        /\ queue'[n + 1] = Press(b, pad'[b])
    BY <1>0, <1>1, <1>3, <2>1, AppendOf
  <2> QED BY <1>0, <2>1, <2>2 DEF Press
<1>5. LastInv'
  <2> SUFFICES ASSUME NEW d \in Inputs, NEW i \in 1..(n + 1), IsLast(i, n + 1, d)'
               PROVE  queue'[i].value = pad'[d]
    BY <1>0, <1>4 DEF LastInv
  <2>1. CASE i = n + 1
    BY <1>4, <2>1 DEF IsLast
  <2>2. CASE i # n + 1
    <3>1. i \in 1..n /\ n + 1 \in 1..(n + 1) /\ i < n + 1
      BY <1>4, <2>2
    <3>2. d # b
      BY <1>4, <3>1 DEF IsLast
    <3>3. IsLast(i, n, d)
      <4>1. \A j \in 1..n : j \in 1..(n + 1) /\ queue'[j] = queue[j]
        BY <1>4
      <4> QED BY <3>1, <4>1 DEF IsLast
    <3>4. queue[i].value = pad[d]
      BY <1>0, <1>4, <3>1, <3>3 DEF QueueInv, LastInv
    <3> QED BY <1>2, <1>4, <3>1, <3>2, <3>4
  <2> QED BY <2>1, <2>2
<1>6. MapCatchesUp'
  <2> SUFFICES ASSUME NEW d \in trusted, \A i \in 1..(n + 1) : queue'[i].input # d
               PROVE  map[d] = pad'[d]
    BY <1>1, <1>4 DEF MapCatchesUp
  <2>1. d # b
    BY <1>4
  <2>2. \A i \in DOMAIN queue : queue[i].input # d
    BY <1>4
  <2> QED BY <1>2, <2>1, <2>2 DEF QueueInv, MapCatchesUp, TypeOK
<1>7. ReplayInv'
  <2> SUFFICES ASSUME NEW k \in 0..(n + 1), NEW c \in DOMAIN Chords,
                      \A d \in Chords[c].keys : d \in Inputs /\ WillSee(k, d)'
               PROVE  c \in held'
    BY <1>4 DEF ReplayInv
  <2>1. CASE k # n + 1
    <3>1. k \in 0..n /\ \A i \in 1..k : i \in 1..n /\ queue'[i] = queue[i]
      BY <1>4, <2>1
    <3>2. ASSUME NEW d \in Chords[c].keys PROVE WillSee(k, d)
      <4>1. \A i \in 1..k : IsLast(i, k, d)' => IsLast(i, k, d)
        BY <3>1 DEF IsLast
      <4>2. WillSee(k, d)'
        OBVIOUS
      <4> QED BY <1>1, <3>1, <4>1, <4>2 DEF WillSee
    <3> QED BY <1>0, <1>1, <3>1, <3>2 DEF QueueInv, ReplayInv
  <2>2. CASE k = n + 1
    <3>1. ASSUME NEW d \in Chords[c].keys PROVE d \in Inputs /\ pad'[d]
      <4>1. d \in Inputs /\ WillSee(n + 1, d)'
        BY <2>2
      <4>2. CASE d \in trusted /\ map[d] /\ \A i \in 1..(n + 1) : queue'[i].input # d
        BY <1>1, <1>4, <1>6, <4>1, <4>2 DEF MapCatchesUp
      <4>3. CASE \E i \in 1..(n + 1) : IsLast(i, n + 1, d)' /\ queue'[i].value
        <5>1. PICK i \in 1..(n + 1) : IsLast(i, n + 1, d)' /\ queue'[i].value
          BY <4>3
        <5>2. queue'[i].value = pad'[d]
          BY <1>4, <1>5, <4>1, <5>1 DEF LastInv
        <5> QED BY <4>1, <5>1, <5>2
      <4> QED BY <1>1, <4>1, <4>2, <4>3 DEF WillSee
    <3> QED BY <1>1, <3>1 DEF Pressed
  <2> QED BY <2>1, <2>2
<1> QED BY <1>5, <1>6, <1>7 DEF QueueInv

(* A poll that reads an event takes the first step of what was to come.    *)
LEMMA ReadKeepsQueue ==
  ASSUME TypeOK, QueueInv, Read, opened, queue # <<>>
  PROVE  QueueInv'
<1>0. PICK n \in Nat : n = Len(queue)
  BY DEF TypeOK
<1> DEFINE e == Head(queue)
<1>1. /\ joystick' = e /\ queue' = Tail(queue) /\ UNCHANGED <<pad, held>>
      /\ trusted' = IF e = Ignored THEN trusted ELSE trusted \cup {e.input}
      /\ map' = IF e = Ignored THEN map ELSE [map EXCEPT ![e.input] = e.value]
  BY DEF Read, Apply, envVars
<1>2. /\ n \in Nat \ {0} /\ DOMAIN queue = 1..n /\ e = queue[1] /\ e \in Event
      /\ Len(queue') = n - 1 /\ DOMAIN queue' = 1..(n - 1)
      /\ \A i \in 1..(n - 1) : queue'[i] = queue[i + 1]
  <2>1. queue \in Seq(Event)
    BY DEF TypeOK
  <2> QED BY <1>0, <1>1, <2>1, TailOf
<1>3. e = Ignored <=> e.input \notin Inputs
  BY <1>2, EventOf
<1> HIDE DEF e
<1>4. ASSUME NEW b \in Inputs
      PROVE  IF e.input = b THEN map'[b] = e.value /\ b \in trusted'
                            ELSE map'[b] = map[b] /\ (b \in trusted' <=> b \in trusted)
  BY <1>1, <1>3 DEF TypeOK
(* After k events of what is left, k + 1 are read of what was there.       *)
<1>5. ASSUME NEW k \in 0..(n - 1), NEW i \in 1..k, NEW b, IsLast(i, k, b)'
      PROVE  i + 1 \in 1..(k + 1) /\ IsLast(i + 1, k + 1, b)
  <2>1. /\ i + 1 \in 1..(k + 1) /\ queue[i + 1] = queue'[i] /\ k \in Nat
    BY <1>2
  <2>2. ASSUME NEW j \in 1..(k + 1), i + 1 < j PROVE queue[j].input # b
    <3>1. /\ j - 1 \in 1..k /\ j - 1 \in 1..(n - 1) /\ i < j - 1
          /\ (j - 1) + 1 = j
      BY <1>2, <2>2
    <3>2. queue'[j - 1] = queue[j]
      BY <1>2, <3>1
    <3> QED BY <1>5, <3>1, <3>2 DEF IsLast
  <2> QED BY <1>5, <2>1, <2>2 DEF IsLast
<1>6. ASSUME NEW k \in 0..(n - 1), NEW b, \A i \in 1..k : queue'[i].input # b
      PROVE  \A j \in 1..(k + 1) : 1 < j => queue[j].input # b
  <2> SUFFICES ASSUME NEW j \in 1..(k + 1), 1 < j PROVE queue[j].input # b
    OBVIOUS
  <2>1. j - 1 \in 1..k /\ j - 1 \in 1..(n - 1) /\ (j - 1) + 1 = j
    BY <1>2
  <2>2. queue'[j - 1] = queue[j]
    BY <1>2, <2>1
  <2> QED BY <1>6, <2>1, <2>2
<1>7. LastInv'
  <2> SUFFICES ASSUME NEW b \in Inputs, NEW i \in 1..(n - 1), IsLast(i, n - 1, b)'
               PROVE  queue'[i].value = pad[b]
    BY <1>1, <1>2 DEF LastInv
  <2>1. n - 1 \in 0..(n - 1) /\ (n - 1) + 1 = n
    BY <1>2
  <2>2. i + 1 \in 1..n /\ IsLast(i + 1, n, b)
    BY <1>5, <2>1
  <2>3. queue[i + 1].value = pad[b]
    BY <1>0, <1>2, <2>2 DEF QueueInv, LastInv
  <2> QED BY <1>2, <2>3
<1>8. MapCatchesUp'
  <2> SUFFICES ASSUME NEW b \in trusted', \A i \in 1..(n - 1) : queue'[i].input # b
               PROVE  map'[b] = pad[b]
    BY <1>1, <1>2 DEF MapCatchesUp
  <2>1. b \in Inputs
    BY TypeKept DEF TypeOK, Next, Poll
  <2>2. n - 1 \in 0..(n - 1) /\ (n - 1) + 1 = n /\ 1 \in 1..n
    BY <1>2
  <2>3. \A j \in 1..n : 1 < j => queue[j].input # b
    BY <1>6, <2>2
  <2>4. CASE e.input = b
    <3>1. IsLast(1, n, b)
      BY <1>2, <2>2, <2>3, <2>4 DEF IsLast
    <3>2. e.value = pad[b]
      BY <1>0, <1>2, <2>1, <2>2, <3>1 DEF QueueInv, LastInv
    <3> QED BY <1>4, <2>1, <2>4, <3>2
  <2>5. CASE e.input # b
    <3>1. b \in trusted /\ map'[b] = map[b]
      BY <1>4, <2>1, <2>5
    <3>2. \A j \in DOMAIN queue : queue[j].input # b
      <4> SUFFICES ASSUME NEW j \in 1..n PROVE queue[j].input # b
        BY <1>2
      <4>1. j = 1 \/ 1 < j
        BY <1>2
      <4> QED BY <1>2, <2>3, <2>5, <4>1
    <3> QED BY <3>1, <3>2 DEF QueueInv, MapCatchesUp
  <2> QED BY <2>4, <2>5
<1>9. ReplayInv'
  <2> SUFFICES ASSUME NEW k \in 0..(n - 1), NEW c \in DOMAIN Chords,
                      \A b \in Chords[c].keys : b \in Inputs /\ WillSee(k, b)'
               PROVE  c \in held
    BY <1>1, <1>2 DEF ReplayInv
  <2>1. k + 1 \in 0..n /\ 1 \in 1..(k + 1) /\ k \in Nat
    BY <1>2
  <2>2. ASSUME NEW b \in Chords[c].keys PROVE WillSee(k + 1, b)
    <3>1. b \in Inputs /\ WillSee(k, b)'
      OBVIOUS
    <3>2. CASE b \in trusted' /\ map'[b] /\ \A i \in 1..k : queue'[i].input # b
      <4>1. \A j \in 1..(k + 1) : 1 < j => queue[j].input # b
        BY <1>6, <3>2
      <4>2. CASE e.input = b
        <5>1. IsLast(1, k + 1, b)
          BY <1>2, <2>1, <4>1, <4>2 DEF IsLast
        <5>2. queue[1].value
          BY <1>2, <1>4, <3>1, <3>2, <4>2
        <5> QED BY <2>1, <5>1, <5>2 DEF WillSee
      <4>3. CASE e.input # b
        <5>1. b \in trusted /\ map[b]
          BY <1>4, <3>1, <3>2, <4>3
        <5>2. \A j \in 1..(k + 1) : queue[j].input # b
          <6> SUFFICES ASSUME NEW j \in 1..(k + 1) PROVE queue[j].input # b
            OBVIOUS
          <6>1. j = 1 \/ 1 < j
            BY <2>1
          <6> QED BY <1>2, <4>1, <4>3, <6>1
        <5> QED BY <5>1, <5>2 DEF WillSee
      <4> QED BY <4>2, <4>3
    <3>3. CASE \E i \in 1..k : IsLast(i, k, b)' /\ queue'[i].value
      <4>1. PICK i \in 1..k : IsLast(i, k, b)' /\ queue'[i].value
        BY <3>3
      <4>2. i + 1 \in 1..(k + 1) /\ IsLast(i + 1, k + 1, b)
        BY <1>5, <4>1
      <4>3. i \in 1..(n - 1)
        BY <1>2, <2>1
      <4>4. queue[i + 1].value
        BY <1>2, <4>1, <4>3
      <4> QED BY <4>2, <4>4 DEF WillSee
    <3> QED BY <3>1, <3>2, <3>3 DEF WillSee
  <2> QED BY <1>0, <2>1, <2>2 DEF QueueInv, ReplayInv
<1> QED BY <1>7, <1>8, <1>9 DEF QueueInv

(* Everything that was promised is kept, by every action.                  *)
LEMMA QueueKept ==
  TypeOK /\ TypeOK' /\ FileInv /\ ReapplyInv /\ QueueInv /\ [Next]_vars => QueueInv'
<1> SUFFICES ASSUME TypeOK, TypeOK', FileInv, ReapplyInv, QueueInv, [Next]_vars
             PROVE  QueueInv'
  OBVIOUS
<1> USE DEF envVars, fileVars, mapVars
<1>1. ASSUME NEW b \in Inputs, Touch(b) PROVE QueueInv'
  <2>1. CASE opened /\ Len(queue) # QueueLength
    BY <1>1, <2>1, TouchQueued
  <2>2. CASE opened /\ Len(queue) = QueueLength
    <3>1. queue' = <<Ignored>> /\ trusted' = {}
      BY <1>1, <2>2 DEF Touch
    <3> QED BY <3>1, IgnoredOnly, NothingTrusted
  <2>3. CASE ~opened
    <3>1. queue' = queue /\ queue = <<>> /\ trusted' = {}
      BY <1>1, <2>3 DEF Touch, TypeOK
    <3>2. queue' \in Seq(Event) /\ Len(queue') = 0
      BY <3>1
    <3> QED BY <3>1, <3>2, NothingTrusted
  <2> QED BY <2>1, <2>2, <2>3
<1>2. CASE Unplug
  <2>1. queue' \in Seq(Event) /\ Len(queue') = 0 /\ trusted' = {}
    BY <1>2 DEF Unplug
  <2> QED BY <2>1, NothingTrusted
<1>3. CASE Read
  <2>1. CASE opened /\ queue # <<>>
    BY <1>3, <2>1, ReadKeepsQueue
  <2>2. CASE ~(opened /\ queue # <<>>)
    <3>1. UNCHANGED <<pad, held, joystick, queue, trusted>>
      BY <1>3, <2>2 DEF Read
    <3>2. map' = IF joystick = Ignored THEN map
                 ELSE [map EXCEPT ![joystick.input] = joystick.value]
      BY <1>3, <3>1 DEF Read, Apply
    <3>3. map' = map
      BY <3>2 DEF ReapplyInv, TypeOK
    <3> QED BY <3>1, <3>3, Untouched
  <2> QED BY <2>1, <2>2
<1>4. CASE Open
  <2>1. ~opened /\ trusted' = {}
    BY <1>4 DEF Open, FileInv
  <2>2. CASE present
    <3>1. queue' = <<Ignored>>
      BY <1>4, <2>2 DEF Open
    <3> QED BY <2>1, <3>1, IgnoredOnly, NothingTrusted
  <2>3. CASE ~present
    <3>1. queue' = queue /\ queue = <<>>
      BY <1>4, <2>1, <2>3 DEF Open, TypeOK
    <3>2. queue' \in Seq(Event) /\ Len(queue') = 0
      BY <3>1
    <3> QED BY <2>1, <3>2, NothingTrusted
  <2> QED BY <2>2, <2>3
<1>5. CASE Plug \/ Chord \/ Speed \/ SpeedRest \/ Stat \/ UNCHANGED vars
  <2>1. UNCHANGED <<pad, queue, map, trusted, held>>
    BY <1>5 DEF Plug, Chord, Stores, Speed, SpeedRest, Stat, vars
  <2> QED BY <2>1, Untouched
<1> QED BY <1>1, <1>2, <1>3, <1>4, <1>5 DEF Next, Poll, Environment

(* The invariant holds always.                                             *)
LEMMA Inductive == Spec => []IInv
<1>1. IInv /\ [Next]_vars => IInv'
  BY TypeKept, FileKept, ReapplyKept, QueueKept DEF IInv, QueueInv
<1> QED BY <1>1, Initially, PTL DEF Spec

-----------------------------------------------------------------------------
(* The theorems.                                                           *)

(* Types; the kernel's queue keeps to its length; a descriptor that is     *)
(* open is one of a device that is there, and events wait only for it.     *)
THEOREM FilesAreInOrder == Spec => []TypeOK
<1>1. IInv => TypeOK
  BY DEF IInv
<1> QED BY <1>1, Inductive, PTL

(* However many buttons there are and however often the pad is lost and    *)
(* its queue overrun: an input of which no event was lost since one was    *)
(* read is in rc_map_ as the operator holds it, once its events are read   *)
(* (rc_map_read, which ignores JS_EVENT_INIT).                             *)
THEOREM TrustedInputsCatchUp == Spec => []MapCatchesUp
<1>1. IInv => MapCatchesUp
  BY DEF IInv
<1> QED BY <1>1, Inductive, PTL

(* One event per poll is enough: no chord of rc_complete is ever found in  *)
(* rc_map_ that the operator did not hold at one moment, all its buttons   *)
(* at once, as long as no event of them was lost.                          *)
THEOREM ChordsWereHeld == Spec => []NoPhantomChords
<1>1. IInv => NoPhantomChords
  <2> SUFFICES ASSUME TypeOK, ReplayInv, NEW c \in DOMAIN Chords,
                      Pressed(map, c), Chords[c].keys \subseteq trusted
               PROVE  c \in held
    BY DEF IInv, NoPhantomChords
  <2>1. 0 \in 0..Len(queue)
    BY DEF TypeOK
  <2>2. \A b \in Chords[c].keys : b \in Inputs /\ WillSee(0, b)
    BY DEF Pressed, WillSee
  <2> QED BY <2>1, <2>2 DEF ReplayInv
<1> QED BY <1>1, Inductive, PTL
===============================================================================

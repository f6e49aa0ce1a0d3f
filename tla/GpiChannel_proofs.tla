-------------------------- MODULE GpiChannel_proofs --------------------------
(***************************************************************************)
(* The channels of GpiChannel for any number of calls, of commands that    *)
(* the hardware may be late with, and of faults.  As long as no command    *)
(* has been left unanswered the driver and the hardware are in step, and   *)
(* no ring that has been freed is run; and whatever commands are           *)
(* unanswered and set-ups have failed, the release of both channels leaves *)
(* neither of them, no event ring and no interrupt behind.                 *)
(***************************************************************************)
EXTENDS GpiChannel, SequenceTheorems, TLAPS

USE DEF client, call, sent, gchan, gpii, hardware, memory

-----------------------------------------------------------------------------
(* Types.                                                                  *)

Resting == {"none", "tx", "both", "rx_refused", "rx_gone", "tx_idle"}
Requesting == {"tx_requested", "rx_requested"}
Releasing == {"tx_released", "rx_released"}
Terminating == {"tx_terminated", "rx_terminated"}

Names == {"ALLOCATE", "START", "STOP", "RESET", "DE_ALLOC"}
Commands == [name : Names, ch : Chan \cup {Event}]
HwStates == {"NOT_ALLOCATED", "ALLOCATED", "STARTED", "STOPPED", "STOP_IN_PROC"}
PmStates == {"DISABLE", "CONFIG", "ACTIVE", "PREPARE_TERMINATE"}

TypeInv ==
  /\ at \in Resting \cup Requesting \cup Releasing \cup Terminating
  /\ op \in {"none", "set_up", "undo", "failed", "done", "terminate", "free",
             "free_events", "free_ring"}
  /\ arg \in Chan /\ todo \in Seq(Commands)
  /\ waiting \in Commands \cup {NoCmd} /\ completed \in BOOLEAN
  /\ pm \in [Chan -> PmStates]
  /\ gpm \in {"DISABLE", "PREPARE_HARDWARE", "ACTIVE", "PREPARE_TERMINATE"}
  /\ evRing \in BOOLEAN /\ irq \in BOOLEAN
  /\ hwq \in Seq(Commands) /\ hw \in [Chan \cup {Event} -> HwStates]
  /\ pending \subseteq Chan \cup {Event}
  /\ last \in Nat /\ ring \in [Chan -> 0 .. last] /\ hwRing \in [Chan -> 0 .. last]
  /\ freed \subseteq 0 .. last

(* A ring belongs to one channel, and to nobody once it is freed.          *)
RingInv ==
  /\ ring[0] = ring[1] => ring[0] = 0
  /\ \A ch \in Chan : /\ hwRing[ch] = ring[1 - ch] => hwRing[ch] = 0
                      /\ ring[ch] \in freed => ring[ch] = 0
                      /\ pm[ch] \in {"CONFIG", "ACTIVE"} => ring[ch] # 0

(* Which call the client is in.                                            *)
CallInv ==
  /\ at \in Resting <=> op = "none"
  /\ at \in Requesting => op \in {"set_up", "undo", "done", "failed"}
  /\ at \in Releasing => op \in {"free", "free_events", "free_ring", "done"}
  /\ at \in Terminating => op \in {"terminate", "done"}
  /\ at \in {"tx_requested", "tx_released", "tx_terminated"} => arg = 0
  /\ at \in {"rx_requested", "rx_released", "rx_terminated"} => arg = 1
  /\ at \in {"tx", "rx_requested"} => ring[0] # 0
  /\ (at = "tx_requested" /\ op \in {"set_up", "done"}) => ring[0] # 0
  /\ (at = "rx_requested" /\ op \in {"set_up", "done"}) => ring[1] # 0
  /\ at \in {"both", "tx_idle"} \cup Terminating => ring[0] # 0 /\ ring[1] # 0
  /\ op \in {"none", "done", "failed", "free_ring"} => Idle
  /\ op = "free_events" => \A i \in 1 .. Len(todo) : todo[i].ch = Event
  /\ op = "free_events" => (waiting = NoCmd \/ waiting.ch = Event)
  /\ op = "free" => /\ \A i \in 1 .. Len(todo) : todo[i].ch = arg /\ todo[i].name # "START"
                    /\ waiting = NoCmd \/ (waiting.ch = arg /\ waiting.name # "START")
                    /\ pm[arg] = "PREPARE_TERMINATE"

(* What is left of a list of commands.                                     *)
Sent(list) == Len(list) - Len(todo)
Done(list) == IF waiting = NoCmd THEN Sent(list) ELSE Sent(list) - 1
Works(list) ==
  /\ Len(todo) <= Len(list)
  /\ \A i \in 1 .. Len(todo) : todo[i] = list[Sent(list) + i]
  /\ waiting # NoCmd => Sent(list) >= 1 /\ waiting = list[Sent(list)]

SetUpInv ==
  op = "set_up" =>
    /\ Works(SetUp) /\ evRing /\ irq
    /\ gpm = IF Done(SetUp) >= 1 THEN "ACTIVE" ELSE "PREPARE_HARDWARE"
    /\ \A ch \in Chan :
         /\ pm[ch] = IF Done(SetUp) >= 4 + ch THEN "ACTIVE" ELSE "CONFIG"
         /\ Done(SetUp) >= 2 + ch => hwRing[ch] = ring[ch]

(* Without a failed set-up the client's place says what there is.          *)
Nothing ==
  /\ ring[0] = 0 /\ ring[1] = 0 /\ ~evRing /\ ~irq /\ gpm = "DISABLE"
  /\ pm[0] = "DISABLE" /\ pm[1] = "DISABLE"
TxOnly ==
  /\ ring[0] # 0 /\ ring[1] = 0 /\ ~evRing /\ ~irq /\ gpm = "DISABLE"
  /\ pm[0] = "CONFIG" /\ pm[1] = "DISABLE"
InUse ==
  /\ ring[0] # 0 /\ ring[1] # 0 /\ evRing /\ irq /\ gpm = "ACTIVE"
  /\ \A ch \in Chan : pm[ch] \in {"ACTIVE", "PREPARE_TERMINATE"}
RxGone ==
  /\ ring[0] # 0 /\ ring[1] = 0 /\ evRing /\ irq /\ gpm = "ACTIVE"
  /\ pm[0] \in {"ACTIVE", "PREPARE_TERMINATE"} /\ pm[1] = "DISABLE"
TxGoes ==
  /\ ring[0] # 0 /\ ring[1] = 0 /\ pm[0] = "PREPARE_TERMINATE" /\ pm[1] = "DISABLE"
  /\ \/ evRing /\ irq /\ gpm = "ACTIVE"
     \/ ~evRing /\ ~irq /\ gpm = "DISABLE"
TxGone ==
  /\ ring[0] = 0 /\ ring[1] = 0 /\ pm[0] = "DISABLE" /\ pm[1] = "DISABLE"
  /\ op = "free_ring" => ~irq

HoldingsInv ==
  "set_up" \notin mishaps =>
    /\ freed = (1 .. last) \ {ring[0], ring[1]}
    /\ at = "none" => Nothing
    /\ at = "tx_requested" => \/ op = "done" /\ TxOnly
                              \/ op = "failed" /\ Nothing
    /\ at \in {"tx", "rx_refused"} => TxOnly
    /\ at = "rx_requested" => \/ op = "failed" /\ TxOnly
                              \/ (op = "set_up" /\ ring[0] # 0 /\ ring[1] # 0)
                              \/ op = "done" /\ InUse
    /\ at \in {"both", "tx_idle"} \cup Terminating => InUse
    /\ at = "rx_released" => \/ op = "free" /\ InUse
                             \/ op = "done" /\ RxGone
    /\ at = "rx_gone" => RxGone
    /\ at = "tx_released" => \/ op = "free" /\ TxGoes
                             \/ op \in {"free_events", "free_ring"} /\ TxGone
                             \/ op = "done" /\ Nothing

SoftInv == TypeInv /\ RingInv /\ CallInv /\ SetUpInv /\ HoldingsInv

-----------------------------------------------------------------------------
(* With the hardware, while every command has been answered.               *)

After(c) == IF c.name = "DE_ALLOC" THEN "ALLOCATED" ELSE StateAfter[c.name]

(* At most the command that is waited for is in the hardware, and what is  *)
(* reported is its effect.                                                 *)
InStep ==
  /\ waiting = NoCmd => hwq = << >> /\ pending = {}
  /\ waiting # NoCmd =>
       /\ gpi_cmd = waiting
       /\ hwq \in {<< >>, <<waiting>>} /\ pending \subseteq {waiting.ch}
       /\ completed => hwq = << >> /\ pending = {} /\ hw[waiting.ch] = After(waiting)
       /\ (pending # {} /\ hwq = << >>) => hw[waiting.ch] = After(waiting)
       /\ (pending # {} /\ hwq # << >>) =>
            waiting.name = "STOP" /\ hw[waiting.ch] = "STOP_IN_PROC"

TerminateInv ==
  op = "terminate" =>
    /\ Works(Restart)
    /\ \A ch \in Chan :
         /\ Sent(Restart) >= 1 + ch =>
              pm[ch] = IF Done(Restart) >= 5 + ch THEN "ACTIVE" ELSE "PREPARE_TERMINATE"
         /\ Done(Restart) >= 3 + ch => hwRing[ch] = ring[ch]

StopAhead(ch) ==
  waiting = Cmd("STOP", ch) \/ \E i \in 1 .. Len(todo) : todo[i] = Cmd("STOP", ch)

(* A channel that the driver takes for active is run from its ring; one    *)
(* that is run from its ring is active, or on the way there, or about to   *)
(* be stopped; and the ring it is run from is not free.                    *)
RunsInv ==
  \A ch \in Chan :
    /\ pm[ch] = "ACTIVE" => hw[ch] = "STARTED" /\ hwRing[ch] = ring[ch]
    /\ (hw[ch] = "STARTED" /\ hwRing[ch] = ring[ch]) =>
         (pm[ch] = "ACTIVE" \/ StopAhead(ch) \/ waiting = Cmd("START", ch))
    /\ hw[ch] = "STARTED" => hwRing[ch] \notin freed /\ hwRing[ch] # 0

StepInv ==
  "answer" \notin mishaps => /\ op # "undo"
                             /\ InStep /\ TerminateInv /\ RunsInv

IInv == SoftInv /\ StepInv

-----------------------------------------------------------------------------
(* The two lists of commands, and what is left of one when a command is    *)
(* taken from it.                                                          *)

LEMMA ListFacts ==
  /\ SetUp \in Seq(Commands) /\ Len(SetUp) = 5
  /\ SetUp[1] = Cmd("ALLOCATE", Event) /\ SetUp[2] = Cmd("ALLOCATE", 0)
  /\ SetUp[3] = Cmd("ALLOCATE", 1) /\ SetUp[4] = Cmd("START", 0) /\ SetUp[5] = Cmd("START", 1)
  /\ Restart \in Seq(Commands) /\ Len(Restart) = 6
  /\ Restart[1] = Cmd("STOP", 0) /\ Restart[2] = Cmd("STOP", 1)
  /\ Restart[3] = Cmd("RESET", 0) /\ Restart[4] = Cmd("RESET", 1)
  /\ Restart[5] = Cmd("START", 0) /\ Restart[6] = Cmd("START", 1)
  /\ NoCmd \notin Commands
<1>1. \A name \in Names, x \in Chan \cup {Event} : Cmd(name, x) \in Commands
  BY DEF Cmd, Commands
<1>2. SetUp \in Seq(Commands)
  <2>1. Cmd("ALLOCATE", Event) \in Commands /\ Cmd("ALLOCATE", 0) \in Commands
          /\ Cmd("ALLOCATE", 1) \in Commands /\ Cmd("START", 0) \in Commands
          /\ Cmd("START", 1) \in Commands
    BY <1>1 DEF Names, Chan, Event
  <2> QED  BY <2>1 DEF SetUp
<1>3. Restart \in Seq(Commands)
  <2>1. Cmd("STOP", 0) \in Commands /\ Cmd("STOP", 1) \in Commands
          /\ Cmd("RESET", 0) \in Commands /\ Cmd("RESET", 1) \in Commands
          /\ Cmd("START", 0) \in Commands /\ Cmd("START", 1) \in Commands
    BY <1>1 DEF Names, Chan, Event
  <2> QED  BY <2>1 DEF Restart
<1>4. NoCmd \notin Commands
  BY DEF NoCmd, Cmd, Commands, Names
<1> QED  BY <1>2, <1>3, <1>4 DEF SetUp, Restart

LEMMA TakeOne ==
  ASSUME NEW list \in Seq(Commands), waiting = NoCmd, TypeInv, Works(list), todo # << >>,
         waiting' = Head(todo), todo' = Tail(todo)
  PROVE  /\ Works(list)' /\ Sent(list)' = Sent(list) + 1
         /\ Done(list)' = Done(list) /\ waiting' # NoCmd
         /\ Sent(list) \in Nat /\ waiting' = list[Sent(list) + 1]
<1>1. /\ todo \in Seq(Commands) /\ Len(todo) \in Nat \ {0} /\ Len(list) \in Nat
      /\ Len(Tail(todo)) = Len(todo) - 1
      /\ \A i \in 1 .. Len(todo) - 1 : Tail(todo)[i] = todo[i + 1]
      /\ Head(todo) = todo[1] /\ todo[1] \in Commands
  <2>1. todo \in Seq(Commands)
    BY DEF TypeInv
  <2> QED  BY <2>1
<1>2. waiting' # NoCmd
  BY <1>1, ListFacts
<1>3. \A i \in 1 .. Len(todo) : todo[i] = list[Sent(list) + i]
  BY DEF Works
<1>4. Len(todo) <= Len(list) /\ Sent(list) \in Nat
  BY <1>1 DEF Works, Sent
<1>5. Sent(list)' = Sent(list) + 1
  BY <1>1 DEF Sent
<1>6. waiting' = list[Sent(list) + 1]
  BY <1>1, <1>3
<1>7. Works(list)'
  <2>1. ASSUME NEW i \in 1 .. Len(todo')  PROVE todo'[i] = list[Sent(list)' + i]
    <3>1. i + 1 \in 1 .. Len(todo) /\ todo'[i] = todo[i + 1]
      BY <1>1
    <3> QED  BY <1>3, <1>4, <1>5, <3>1
  <2> QED  BY <1>1, <1>2, <1>4, <1>5, <1>6, <2>1 DEF Works
<1> QED  BY <1>2, <1>4, <1>5, <1>6, <1>7 DEF Done

LEMMA WhereItIs ==
  ASSUME NEW list \in Seq(Commands), TypeInv, Works(list)
  PROVE  /\ Sent(list) \in 0 .. Len(list) /\ Done(list) \in Int
         /\ waiting = NoCmd => Done(list) = Sent(list)
         /\ waiting # NoCmd => /\ Sent(list) \in 1 .. Len(list) /\ waiting = list[Sent(list)]
                               /\ Done(list) = Sent(list) - 1
         /\ Idle => Done(list) = Len(list)
<1>1. Len(list) \in Nat /\ Len(todo) \in Nat
  <2>1. todo \in Seq(Commands)
    BY DEF TypeInv
  <2> QED  BY <2>1
<1>2. Len(todo) <= Len(list) /\ (waiting # NoCmd => Sent(list) >= 1 /\ waiting = list[Sent(list)])
  BY DEF Works
<1>3. Sent(list) = Len(list) - Len(todo)
  BY DEF Sent
<1> QED  BY <1>1, <1>2, <1>3 DEF Done, Idle

LEMMA StatesOfCommands ==
  ASSUME NEW name \in Names
  PROVE  /\ StateAfter[name] \in HwStates
         /\ StateAfter[name] = "STARTED" => name = "START"
  BY DEF Names, StateAfter, HwStates

LEMMA InitHolds == Init => IInv
<1> SUFFICES ASSUME Init  PROVE IInv
  OBVIOUS
<1>1. TypeInv
  <2>1. NoCmd = [name |-> "none", ch |-> 0]
    BY DEF NoCmd, Cmd
  <2> QED  BY DEF Init, TypeInv, Resting, Chan, Event, HwStates, PmStates
<1>2. RingInv
  BY DEF Init, RingInv, Chan
<1>3. CallInv
  BY DEF Init, CallInv, Resting, Requesting, Releasing, Terminating, Idle
<1>4. SetUpInv
  BY DEF Init, SetUpInv
<1>5. HoldingsInv
  BY DEF Init, HoldingsInv, Nothing, Chan, Terminating
<1>6. StepInv
  BY DEF Init, StepInv, InStep, TerminateInv, RunsInv, Chan, Event
<1> QED  BY <1>1, <1>2, <1>3, <1>4, <1>5, <1>6 DEF IInv, SoftInv

-----------------------------------------------------------------------------
(* A command is only waited for where the driver does not take the channel *)
(* for active, and one that starts a channel only when its ring has been   *)
(* programmed.                                                             *)

LEMMA SetUpAt ==
  ASSUME IInv, op = "set_up", waiting # NoCmd
  PROVE  /\ Works(SetUp) /\ Sent(SetUp) \in 1 .. 5 /\ Done(SetUp) = Sent(SetUp) - 1
         /\ Sent(SetUp) = 1 <=> waiting = Cmd("ALLOCATE", Event)
         /\ \A ch \in Chan :
              /\ Sent(SetUp) = 2 + ch <=> (waiting.name = "ALLOCATE" /\ waiting.ch = ch)
              /\ Sent(SetUp) = 4 + ch <=> (waiting.name = "START" /\ waiting.ch = ch)
<1>1. Works(SetUp) /\ TypeInv
  BY DEF IInv, SoftInv, SetUpInv
<1>2. Sent(SetUp) \in 1 .. 5 /\ Done(SetUp) = Sent(SetUp) - 1 /\ waiting = SetUp[Sent(SetUp)]
  BY <1>1, ListFacts, WhereItIs
<1> DEFINE n == Sent(SetUp)
<1> HIDE DEF n
<1>3. n \in 1 .. 5 /\ waiting = SetUp[n]
  BY <1>2 DEF n
<1>4. \/ n = 1 /\ waiting = Cmd("ALLOCATE", Event)
      \/ n = 2 /\ waiting = Cmd("ALLOCATE", 0)
      \/ n = 3 /\ waiting = Cmd("ALLOCATE", 1)
      \/ n = 4 /\ waiting = Cmd("START", 0)
      \/ n = 5 /\ waiting = Cmd("START", 1)
  BY <1>3, ListFacts
<1>5. /\ n = 1 <=> waiting = Cmd("ALLOCATE", Event)
      /\ \A ch \in Chan :
           /\ n = 2 + ch <=> (waiting.name = "ALLOCATE" /\ waiting.ch = ch)
           /\ n = 4 + ch <=> (waiting.name = "START" /\ waiting.ch = ch)
  BY <1>4 DEF Cmd, Chan, Event
<1> QED  BY <1>1, <1>2, <1>5 DEF n

LEMMA RestartAt ==
  ASSUME IInv, TerminateInv, op = "terminate", waiting # NoCmd
  PROVE  /\ Works(Restart) /\ Sent(Restart) \in 1 .. 6 /\ Done(Restart) = Sent(Restart) - 1
         /\ waiting.ch \in Chan
         /\ \A ch \in Chan :
              /\ Sent(Restart) = 1 + ch <=> (waiting.name = "STOP" /\ waiting.ch = ch)
              /\ Sent(Restart) = 3 + ch <=> (waiting.name = "RESET" /\ waiting.ch = ch)
              /\ Sent(Restart) = 5 + ch <=> (waiting.name = "START" /\ waiting.ch = ch)
<1>1. Works(Restart) /\ TypeInv
  BY DEF IInv, SoftInv, TerminateInv
<1>2. Sent(Restart) \in 1 .. 6 /\ Done(Restart) = Sent(Restart) - 1 /\ waiting = Restart[Sent(Restart)]
  BY <1>1, ListFacts, WhereItIs
<1> DEFINE n == Sent(Restart)
<1> HIDE DEF n
<1>3. n \in 1 .. 6 /\ waiting = Restart[n]
  BY <1>2 DEF n
<1>4. \/ n = 1 /\ waiting = Cmd("STOP", 0)
      \/ n = 2 /\ waiting = Cmd("STOP", 1)
      \/ n = 3 /\ waiting = Cmd("RESET", 0)
      \/ n = 4 /\ waiting = Cmd("RESET", 1)
      \/ n = 5 /\ waiting = Cmd("START", 0)
      \/ n = 6 /\ waiting = Cmd("START", 1)
  BY <1>3, ListFacts
<1>5. /\ waiting.ch \in Chan
      /\ \A ch \in Chan :
           /\ n = 1 + ch <=> (waiting.name = "STOP" /\ waiting.ch = ch)
           /\ n = 3 + ch <=> (waiting.name = "RESET" /\ waiting.ch = ch)
           /\ n = 5 + ch <=> (waiting.name = "START" /\ waiting.ch = ch)
  BY <1>4 DEF Cmd, Chan
<1> QED  BY <1>1, <1>2, <1>5 DEF n

LEMMA WaitsForInactive ==
  ASSUME IInv, "answer" \notin mishaps, waiting # NoCmd
  PROVE  /\ waiting.ch \in Chan => pm[waiting.ch] # "ACTIVE"
         /\ (waiting.ch \in Chan /\ waiting.name = "START") =>
              hwRing[waiting.ch] = ring[waiting.ch] /\ ring[waiting.ch] # 0
<1>1. op \in {"set_up", "terminate", "free", "free_events"}
  BY DEF IInv, SoftInv, StepInv, TypeInv, CallInv, Idle
<1>2. CASE op = "set_up"
  <2>1. /\ Sent(SetUp) \in 1 .. 5 /\ Done(SetUp) = Sent(SetUp) - 1
        /\ \A ch \in Chan :
              /\ Sent(SetUp) = 2 + ch <=> (waiting.name = "ALLOCATE" /\ waiting.ch = ch)
              /\ Sent(SetUp) = 4 + ch <=> (waiting.name = "START" /\ waiting.ch = ch)
    BY <1>2, SetUpAt
  <2>2. \A ch \in Chan :
          /\ pm[ch] = IF Done(SetUp) >= 4 + ch THEN "ACTIVE" ELSE "CONFIG"
          /\ Done(SetUp) >= 2 + ch => hwRing[ch] = ring[ch]
    BY <1>2 DEF IInv, SoftInv, SetUpInv
  <2>3. \A ch \in Chan : pm[ch] = "CONFIG" => ring[ch] # 0
    BY DEF IInv, SoftInv, RingInv
  <2> QED  BY <2>1, <2>2, <2>3, ListFacts DEF Cmd, Chan, Event
<1>3. CASE op = "terminate"
  <2>1. /\ Sent(Restart) \in 1 .. 6 /\ Done(Restart) = Sent(Restart) - 1
        /\ waiting.ch \in Chan
        /\ \A ch \in Chan :
              /\ Sent(Restart) = 1 + ch <=> (waiting.name = "STOP" /\ waiting.ch = ch)
              /\ Sent(Restart) = 3 + ch <=> (waiting.name = "RESET" /\ waiting.ch = ch)
              /\ Sent(Restart) = 5 + ch <=> (waiting.name = "START" /\ waiting.ch = ch)
    BY <1>3, RestartAt DEF IInv, StepInv
  <2>2. \A ch \in Chan :
         /\ Sent(Restart) >= 1 + ch =>
              pm[ch] = IF Done(Restart) >= 5 + ch THEN "ACTIVE" ELSE "PREPARE_TERMINATE"
         /\ Done(Restart) >= 3 + ch => hwRing[ch] = ring[ch]
    BY <1>3 DEF IInv, StepInv, TerminateInv
  <2>3. \A ch \in Chan : ring[ch] # 0
    BY <1>3 DEF IInv, SoftInv, CallInv, TypeInv, Chan
  <2> QED  BY <2>1, <2>2, <2>3, ListFacts DEF Cmd, Chan, Event
<1>4. CASE op = "free"
  BY <1>4 DEF IInv, SoftInv, CallInv
<1>5. CASE op = "free_events"
  <2>1. waiting.ch = Event
    BY <1>5 DEF IInv, SoftInv, CallInv
  <2> QED  BY <2>1 DEF Chan, Event
<1> QED  BY <1>1, <1>2, <1>3, <1>4, <1>5

LEMMA HwExecutesKeeps == ASSUME IInv, HwExecutes  PROVE IInv'
<1> DEFINE c == Head(hwq)
<1>1. hwq # << >> /\ c \in Commands /\ Tail(hwq) \in Seq(Commands)
  <2>1. hwq \in Seq(Commands)
    BY DEF IInv, SoftInv, TypeInv
  <2> QED  BY <2>1 DEF HwExecutes
<1>2. \/ /\ ~Allowed(c) /\ hwq' = Tail(hwq) /\ UNCHANGED <<hw, pending>>
      \/ /\ Allowed(c) /\ hwq' = Tail(hwq) /\ pending' = pending \cup {c.ch}
         /\ hw' = [hw EXCEPT ![c.ch] = IF c.name = "DE_ALLOC" THEN @ ELSE StateAfter[c.name]]
      \/ /\ c.name = "STOP" /\ hw[c.ch] = "STARTED" /\ hwq' = hwq
         /\ hw' = [hw EXCEPT ![c.ch] = "STOP_IN_PROC"] /\ pending' = pending \cup {c.ch}
  BY DEF HwExecutes
<1>3. UNCHANGED <<client, call, sent, gchan, gpii, hwRing, memory, faults, mishaps>>
  BY DEF HwExecutes
<1>4. TypeInv'
  <2>1. hwq' \in Seq(Commands)
    BY <1>1, <1>2 DEF IInv, SoftInv, TypeInv
  <2>2. hw' \in [Chan \cup {Event} -> HwStates]
    <3>1. c.name \in Names /\ c.ch \in Chan \cup {Event}
      BY <1>1 DEF Commands
    <3>3. StateAfter[c.name] \in HwStates
      BY <3>1, StatesOfCommands
    <3>2. hw \in [Chan \cup {Event} -> HwStates] /\ "STOP_IN_PROC" \in HwStates
      BY DEF IInv, SoftInv, TypeInv, HwStates
    <3> QED  BY <1>2, <3>1, <3>2, <3>3
  <2>3. pending' \subseteq Chan \cup {Event}
    BY <1>1, <1>2 DEF IInv, SoftInv, TypeInv, Commands
  <2> QED  BY <1>3, <2>1, <2>2, <2>3 DEF IInv, SoftInv, TypeInv
<1>5. RingInv' /\ HoldingsInv'
  BY <1>3 DEF IInv, SoftInv, RingInv, HoldingsInv, Nothing, TxOnly, InUse, RxGone, TxGoes, TxGone
<1>6. CallInv' /\ SetUpInv'
  BY <1>3 DEF IInv, SoftInv, CallInv, SetUpInv, Idle, Works, Sent, Done
<1>7. ASSUME "answer" \notin mishaps'  PROVE InStep' /\ TerminateInv' /\ RunsInv' /\ op' # "undo"
  <2>1. InStep /\ TerminateInv /\ RunsInv /\ op # "undo" /\ "answer" \notin mishaps
    BY <1>3, <1>7 DEF IInv, StepInv
  <2>2. waiting # NoCmd /\ hwq = <<waiting>> /\ c = waiting /\ Tail(hwq) = << >> /\ ~completed
    <3>1. waiting # NoCmd
      BY <1>1, <2>1 DEF InStep
    <3>2. hwq = <<waiting>>
      BY <1>1, <2>1, <3>1 DEF InStep
    <3>3. ~completed
      BY <2>1, <3>1, <1>1 DEF InStep
    <3> QED  BY <3>1, <3>2, <3>3
  <2>3. InStep'
    <3>1. waiting.ch \in Chan \cup {Event} /\ waiting.name \in Names
      BY <1>1, <2>2 DEF Commands
    <3>2. hw \in [Chan \cup {Event} -> HwStates]
      BY DEF IInv, SoftInv, TypeInv
    <3>3. gpi_cmd = waiting /\ pending \subseteq {waiting.ch}
            /\ (pending # {} => waiting.name = "STOP" /\ hw[waiting.ch] = "STOP_IN_PROC")
      BY <2>1, <2>2 DEF InStep
    <3>4. CASE ~Allowed(c) /\ hwq' = Tail(hwq) /\ UNCHANGED <<hw, pending>>
      <4>1. pending = {}
        BY <2>2, <3>3, <3>4 DEF Allowed
      <4> QED  BY <1>3, <2>2, <3>3, <3>4, <4>1 DEF InStep
    <3>5. CASE /\ Allowed(c) /\ hwq' = Tail(hwq) /\ pending' = pending \cup {c.ch}
               /\ hw' = [hw EXCEPT ![c.ch] = IF c.name = "DE_ALLOC" THEN @
                                             ELSE StateAfter[c.name]]
      <4>1. hw'[waiting.ch] = After(waiting)
        BY <2>2, <3>1, <3>2, <3>5 DEF Allowed, After
      <4> QED  BY <1>3, <2>2, <3>3, <3>5, <4>1 DEF InStep, After
    <3>6. CASE /\ c.name = "STOP" /\ hw[c.ch] = "STARTED" /\ hwq' = hwq
               /\ hw' = [hw EXCEPT ![c.ch] = "STOP_IN_PROC"] /\ pending' = pending \cup {c.ch}
      BY <1>3, <2>2, <3>1, <3>2, <3>3, <3>6 DEF InStep
    <3> QED  BY <1>2, <3>4, <3>5, <3>6
  <2>4. TerminateInv'
    BY <1>3, <2>1 DEF TerminateInv, Works, Sent, Done
  <2>5. ASSUME NEW ch \in Chan
        PROVE  /\ pm'[ch] = "ACTIVE" => hw'[ch] = "STARTED" /\ hwRing'[ch] = ring'[ch]
               /\ (hw'[ch] = "STARTED" /\ hwRing'[ch] = ring'[ch]) =>
                    (pm'[ch] = "ACTIVE" \/ StopAhead(ch)' \/ waiting' = Cmd("START", ch))
               /\ hw'[ch] = "STARTED" => hwRing'[ch] \notin freed' /\ hwRing'[ch] # 0
    <3>1. /\ pm[ch] = "ACTIVE" => hw[ch] = "STARTED" /\ hwRing[ch] = ring[ch]
          /\ (hw[ch] = "STARTED" /\ hwRing[ch] = ring[ch]) =>
               (pm[ch] = "ACTIVE" \/ StopAhead(ch) \/ waiting = Cmd("START", ch))
          /\ hw[ch] = "STARTED" => hwRing[ch] \notin freed /\ hwRing[ch] # 0
      BY <2>1 DEF RunsInv
    <3>2. StopAhead(ch)' <=> StopAhead(ch)
      BY <1>3 DEF StopAhead
    <3>3. CASE hw'[ch] = hw[ch]
      BY <1>3, <3>1, <3>2, <3>3
    <3>4. CASE hw'[ch] # hw[ch]
      <4>1. ch = waiting.ch
        BY <1>2, <2>2, <3>4 DEF IInv, SoftInv, TypeInv
      <4>2. pm[ch] # "ACTIVE"
        BY <2>1, <2>2, <4>1, WaitsForInactive
      <4>3. hw'[ch] = "STARTED" => waiting.name = "START"
        <5>1. waiting.name \in Names /\ hw \in [Chan \cup {Event} -> HwStates]
          BY <1>1, <2>2 DEF Commands, IInv, SoftInv, TypeInv
        <5>2. StateAfter[waiting.name] = "STARTED" => waiting.name = "START"
          BY <5>1, StatesOfCommands
        <5> QED  BY <1>2, <2>2, <3>4, <4>1, <5>1, <5>2
      <4>4. waiting.name = "START" => waiting = Cmd("START", ch)
        BY <1>1, <2>2, <4>1 DEF Commands, Cmd
      <4>5. waiting.name = "START" => hwRing[ch] = ring[ch] /\ ring[ch] # 0
        BY <2>1, <2>2, <4>1, WaitsForInactive
      <4>6. ring[ch] \in freed => ring[ch] = 0
        BY DEF IInv, SoftInv, RingInv
      <4> QED  BY <1>3, <4>2, <4>3, <4>4, <4>5, <4>6
    <3> QED  BY <3>3, <3>4
  <2>6. RunsInv'
    BY <2>5 DEF RunsInv
  <2> QED  BY <1>3, <2>1, <2>3, <2>4, <2>6
<1> QED  BY <1>4, <1>5, <1>6, <1>7 DEF IInv, SoftInv, StepInv

LEMMA InterruptKeeps == ASSUME IInv, Interrupt  PROVE IInv'
<1>1. /\ pending # {} /\ pending' = {}
      /\ completed' = (completed \/ \E x \in pending : StateRead(x) # "STOP_IN_PROC")
      /\ UNCHANGED <<client, call, waiting, gpi_cmd, pm, gpm, evRing, irq, hwq, hw, hwRing,
                     memory, faults, mishaps>>
  BY DEF Interrupt
<1>2. TypeInv'
  <2>1. completed' \in BOOLEAN
    BY <1>1 DEF IInv, SoftInv, TypeInv
  <2> QED  BY <1>1, <2>1 DEF IInv, SoftInv, TypeInv
<1>3. RingInv' /\ HoldingsInv'
  BY <1>1 DEF IInv, SoftInv, RingInv, HoldingsInv, Nothing, TxOnly, InUse, RxGone, TxGoes, TxGone
<1>4. CallInv' /\ SetUpInv'
  BY <1>1 DEF IInv, SoftInv, CallInv, SetUpInv, Idle, Works, Sent, Done
<1>5. ASSUME "answer" \notin mishaps'  PROVE InStep' /\ TerminateInv' /\ RunsInv' /\ op' # "undo"
  <2>1. InStep /\ TerminateInv /\ RunsInv /\ op # "undo"
    BY <1>1, <1>5 DEF IInv, StepInv
  <2>2. waiting # NoCmd /\ gpi_cmd = waiting /\ pending = {waiting.ch} /\ ~completed
          /\ (hwq = << >> => hw[waiting.ch] = After(waiting))
          /\ (hwq # << >> => waiting.name = "STOP" /\ hw[waiting.ch] = "STOP_IN_PROC")
          /\ hwq \in {<< >>, <<waiting>>}
    BY <1>1, <2>1 DEF InStep
  <2>3. completed' => hwq = << >>
    BY <1>1, <2>2 DEF StateRead, Dealloc
  <2>4. InStep'
    BY <1>1, <2>2, <2>3 DEF InStep, After
  <2>5. TerminateInv' /\ RunsInv'
    BY <1>1, <2>1 DEF TerminateInv, Works, Sent, Done, RunsInv, StopAhead
  <2> QED  BY <1>1, <2>1, <2>4, <2>5
<1> QED  BY <1>2, <1>3, <1>4, <1>5 DEF IInv, SoftInv, StepInv

-----------------------------------------------------------------------------
(* gpi_send_cmd: a command is sent, and answered or not.                   *)

LEMMA SendKeeps == ASSUME IInv, Send  PROVE IInv'
<1> DEFINE c == Head(todo)
<1>1. /\ waiting = NoCmd /\ todo # << >> /\ waiting' = c /\ gpi_cmd' = c /\ completed' = FALSE
      /\ todo' = Tail(todo) /\ hwq' \in {hwq, Append(hwq, c)}
      /\ pm' = IF op = "terminate" /\ c.name = "STOP" THEN [pm EXCEPT ![c.ch] = "PREPARE_TERMINATE"]
               ELSE pm
      /\ UNCHANGED <<client, op, arg, state, gpii, hw, hwRing, pending, memory, mishaps>>
  BY DEF Send
<1>2. TypeInv /\ RingInv /\ CallInv /\ SetUpInv /\ HoldingsInv
  BY DEF IInv, SoftInv
<1>3. /\ c \in Commands /\ Tail(todo) \in Seq(Commands) /\ c = todo[1] /\ Len(todo) \in Nat \ {0}
      /\ Len(Tail(todo)) = Len(todo) - 1
      /\ \A i \in 1 .. Len(todo) - 1 : Tail(todo)[i] = todo[i + 1]
  <2>1. todo \in Seq(Commands)
    BY <1>2 DEF TypeInv
  <2> QED  BY <1>1, <2>1
<1>4. c.name \in Names /\ c.ch \in Chan \cup {Event} /\ c # NoCmd
  BY <1>3, ListFacts DEF Commands
<1>5. op \in {"set_up", "undo", "terminate", "free", "free_events"}
  BY <1>1, <1>2 DEF TypeInv, CallInv, Idle
<1>6. TypeInv'
  <2>1. hwq' \in Seq(Commands)
    <3>1. hwq \in Seq(Commands)
      BY <1>2 DEF TypeInv
    <3>2. c \in Commands
      BY <1>3
    <3>3. Append(hwq, c) \in Seq(Commands)
      <4> HIDE DEF c
      <4> QED  BY <3>1, <3>2
    <3>4. hwq' \in {hwq, Append(hwq, c)}
      BY <1>1
    <3> QED  BY <3>1, <3>3, <3>4
  <2>2. pm' \in [Chan -> PmStates]
    BY <1>1, <1>2, <1>4 DEF TypeInv, PmStates
  <2> QED  BY <1>1, <1>2, <1>3, <2>1, <2>2 DEF TypeInv
<1>7. \A ch \in Chan : pm'[ch] = pm[ch] \/ (pm'[ch] = "PREPARE_TERMINATE" /\ op = "terminate"
                                             /\ c = Cmd("STOP", ch))
  BY <1>1, <1>2, <1>3, <1>4 DEF TypeInv, Cmd, Commands
<1>8. RingInv'
  BY <1>1, <1>2, <1>7 DEF RingInv
<1>9. CallInv'
  <2>1. op = "free_events" => /\ \A i \in 1 .. Len(todo') : todo'[i].ch = Event
                              /\ waiting'.ch = Event
    <3>1. op = "free_events" => \A i \in 1 .. Len(todo) : todo[i].ch = Event
      BY <1>2 DEF CallInv
    <3>2. op = "free_events" => c.ch = Event
      BY <1>3, <3>1
    <3>3. op = "free_events" => \A i \in 1 .. Len(todo') : todo'[i].ch = Event
      BY <1>1, <1>3, <3>1
    <3> QED  BY <1>1, <3>2, <3>3
  <2>2. op = "free" => /\ \A i \in 1 .. Len(todo') : todo'[i].ch = arg /\ todo'[i].name # "START"
                       /\ waiting'.ch = arg /\ waiting'.name # "START"
                       /\ pm'[arg] = "PREPARE_TERMINATE"
    <3>1. op = "free" => \A i \in 1 .. Len(todo) : todo[i].ch = arg /\ todo[i].name # "START"
      BY <1>2 DEF CallInv
    <3>2. op = "free" => pm[arg] = "PREPARE_TERMINATE"
      BY <1>2 DEF CallInv
    <3> QED  BY <1>1, <1>3, <3>1, <3>2
  <2> QED  BY <1>1, <1>2, <1>5, <2>1, <2>2 DEF CallInv
<1>10. SetUpInv'
  <2> SUFFICES ASSUME op = "set_up"  PROVE SetUpInv'
    BY <1>1 DEF SetUpInv
  <2>1. Works(SetUp)
    BY <1>2 DEF SetUpInv
  <2>2. Works(SetUp)' /\ Done(SetUp)' = Done(SetUp)
    BY <1>1, <1>2, <2>1, ListFacts, TakeOne
  <2>3. pm' = pm
    BY <1>1
  <2> QED  BY <1>1, <1>2, <2>2, <2>3 DEF SetUpInv
<1>11. HoldingsInv'
  <2>1. op # "terminate" => pm' = pm
    BY <1>1
  <2>2. op = "terminate" => at \in Terminating
    BY <1>2 DEF CallInv, TypeInv
  <2>3. CASE op # "terminate"
    BY <1>1, <1>2, <2>1, <2>3 DEF HoldingsInv, Nothing, TxOnly, InUse, RxGone, TxGoes, TxGone
  <2>4. CASE op = "terminate"
    <3>1. "set_up" \notin mishaps => InUse /\ freed = (1 .. last) \ {ring[0], ring[1]}
      BY <1>2, <2>2, <2>4 DEF HoldingsInv
    <3>2. "set_up" \notin mishaps => InUse'
      BY <1>1, <1>7, <3>1 DEF InUse
    <3> QED  BY <1>1, <2>2, <2>4, <3>1, <3>2
          DEF HoldingsInv, Resting, Requesting, Releasing, Terminating
  <2> QED  BY <2>3, <2>4
<1>12. ASSUME "answer" \notin mishaps'
       PROVE  InStep' /\ TerminateInv' /\ RunsInv' /\ op' # "undo"
  <2>1. InStep /\ TerminateInv /\ RunsInv /\ op # "undo" /\ hwq = << >> /\ pending = {}
    BY <1>1, <1>12 DEF IInv, StepInv, InStep
  <2>2. InStep'
    BY <1>1, <1>4, <2>1 DEF InStep
  <2>3. TerminateInv'
    <3> SUFFICES ASSUME op = "terminate"  PROVE TerminateInv'
      BY <1>1 DEF TerminateInv
    <3>1. Works(Restart)
      BY <2>1 DEF TerminateInv
    <3>2. /\ Works(Restart)' /\ Done(Restart)' = Done(Restart) /\ Sent(Restart)' = Sent(Restart) + 1
          /\ Sent(Restart) \in Nat /\ c = Restart[Sent(Restart) + 1]
      BY <1>1, <1>2, <3>1, ListFacts, TakeOne
    <3>3. Done(Restart) = Sent(Restart) /\ Sent(Restart) <= 5
      <4>1. Done(Restart) = Sent(Restart)
        BY <1>1, <1>2, <3>1, ListFacts, WhereItIs
      <4> QED  BY <1>3, <4>1, ListFacts DEF Sent
    <3>4. ASSUME NEW ch \in Chan
          PROVE /\ Sent(Restart)' >= 1 + ch =>
                     pm'[ch] = IF Done(Restart)' >= 5 + ch THEN "ACTIVE" ELSE "PREPARE_TERMINATE"
                /\ Done(Restart)' >= 3 + ch => hwRing'[ch] = ring'[ch]
      <4>1. /\ Sent(Restart) >= 1 + ch =>
                     pm[ch] = IF Done(Restart) >= 5 + ch THEN "ACTIVE" ELSE "PREPARE_TERMINATE"
            /\ Done(Restart) >= 3 + ch => hwRing[ch] = ring[ch]
        BY <2>1 DEF TerminateInv
      <4>2. CASE Sent(Restart) >= 1 + ch
        <5>1. c # Cmd("STOP", ch)
          <6> HIDE DEF c
          <6> QED  BY <3>2, <3>3, <4>2, ListFacts DEF Cmd, Chan
        <5>2. pm'[ch] = pm[ch]
          BY <1>7, <5>1
        <5> QED  BY <1>1, <3>2, <3>3, <4>1, <4>2, <5>2 DEF Chan
      <4>3. CASE Sent(Restart) = ch
        <5>1. c = Cmd("STOP", ch)
          <6> HIDE DEF c
          <6> QED  BY <3>2, <4>3, ListFacts DEF Chan
        <5>2. pm'[ch] = "PREPARE_TERMINATE"
          <6> HIDE DEF c
          <6> QED  BY <1>1, <1>2, <5>1 DEF TypeInv, Cmd
        <5> QED  BY <3>2, <3>3, <4>3, <5>2 DEF Chan
      <4>4. CASE Sent(Restart) < ch
        BY <3>2, <3>3, <4>4 DEF Chan
      <4> QED  BY <3>2, <4>2, <4>3, <4>4 DEF Chan
    <3> QED  BY <1>1, <3>2, <3>4 DEF TerminateInv
  <2>4. ASSUME NEW ch \in Chan
        PROVE  /\ pm'[ch] = "ACTIVE" => hw'[ch] = "STARTED" /\ hwRing'[ch] = ring'[ch]
               /\ (hw'[ch] = "STARTED" /\ hwRing'[ch] = ring'[ch]) =>
                    (pm'[ch] = "ACTIVE" \/ StopAhead(ch)' \/ waiting' = Cmd("START", ch))
               /\ hw'[ch] = "STARTED" => hwRing'[ch] \notin freed' /\ hwRing'[ch] # 0
    <3>1. /\ pm[ch] = "ACTIVE" => hw[ch] = "STARTED" /\ hwRing[ch] = ring[ch]
          /\ (hw[ch] = "STARTED" /\ hwRing[ch] = ring[ch]) =>
               (pm[ch] = "ACTIVE" \/ StopAhead(ch) \/ waiting = Cmd("START", ch))
          /\ hw[ch] = "STARTED" => hwRing[ch] \notin freed /\ hwRing[ch] # 0
      BY <2>1 DEF RunsInv
    <3>2. waiting # Cmd("START", ch) /\ waiting # Cmd("STOP", ch)
      BY <1>1 DEF NoCmd, Cmd
    <3>3. StopAhead(ch) => StopAhead(ch)'
      <4> SUFFICES ASSUME StopAhead(ch)  PROVE StopAhead(ch)'
        OBVIOUS
      <4>1. PICK i \in 1 .. Len(todo) : todo[i] = Cmd("STOP", ch)
        BY <3>2 DEF StopAhead
      <4>2. CASE i = 1
        BY <1>1, <1>3, <4>1, <4>2 DEF StopAhead
      <4>3. CASE i # 1
        <5>1. i - 1 \in 1 .. Len(todo') /\ todo'[i - 1] = Cmd("STOP", ch)
          BY <1>1, <1>3, <4>1, <4>3
        <5> QED  BY <5>1 DEF StopAhead
      <4> QED  BY <4>2, <4>3
    <3>4. pm'[ch] # pm[ch] => pm'[ch] # "ACTIVE" /\ StopAhead(ch)'
      BY <1>1, <1>7 DEF StopAhead
    <3> QED  BY <1>1, <3>1, <3>2, <3>3, <3>4
  <2> QED  BY <1>1, <2>1, <2>2, <2>3, <2>4 DEF RunsInv
<1> QED  BY <1>6, <1>8, <1>9, <1>10, <1>11, <1>12 DEF IInv, SoftInv, StepInv

LEMMA AnsweredKeeps == ASSUME IInv, Answered  PROVE IInv'
<1>1. /\ waiting # NoCmd /\ completed /\ waiting' = NoCmd
      /\ op \in {"set_up", "terminate"} =>
           Started(waiting) /\ EventsActive(waiting) /\ Programmed(waiting)
      /\ op \notin {"set_up", "terminate"} => UNCHANGED <<pm, gpm, hwRing>>
      /\ UNCHANGED <<client, call, completed, gpi_cmd, state, evState, evRing, irq, hwq, hw,
                     pending, memory, faults, mishaps>>
  BY DEF Answered, Confirmed
<1>2. TypeInv /\ RingInv /\ CallInv /\ SetUpInv /\ HoldingsInv
  BY DEF IInv, SoftInv
<1>3. waiting.name \in Names /\ waiting.ch \in Chan \cup {Event}
  BY <1>1, <1>2 DEF TypeInv, Commands
<1>4. op \in {"set_up", "undo", "terminate", "free", "free_events"}
  BY <1>1, <1>2 DEF TypeInv, CallInv, Idle
<1>5. \A ch \in Chan :
        pm'[ch] = IF op \in {"set_up", "terminate"} /\ waiting.name = "START" /\ waiting.ch = ch
                    THEN "ACTIVE" ELSE pm[ch]
  BY <1>1, <1>2 DEF TypeInv, Started
<1>6. \A ch \in Chan :
        hwRing'[ch] = IF /\ op \in {"set_up", "terminate"} /\ waiting.ch = ch
                         /\ (waiting.name = "ALLOCATE" \/ (op = "terminate" /\ waiting.name = "RESET"))
                        THEN ring[ch] ELSE hwRing[ch]
  <2>1. hwRing \in [Chan -> 0 .. last] /\ \A ch \in Chan : ch # Event
    BY <1>2 DEF TypeInv, Chan, Event
  <2>2. CASE op \in {"set_up", "terminate"}
    BY <1>1, <2>1, <2>2 DEF Programmed
  <2>3. CASE op \notin {"set_up", "terminate"}
    BY <1>1, <2>3
  <2> QED  BY <2>2, <2>3
<1>7. op = "terminate" => at \in Terminating /\ ring[0] # 0 /\ ring[1] # 0
  BY <1>2 DEF CallInv, TypeInv
<1>8. ASSUME op = "set_up"
      PROVE  /\ Works(SetUp) /\ Sent(SetUp) \in 1 .. 5 /\ Done(SetUp) = Sent(SetUp) - 1
             /\ Sent(SetUp) = 1 <=> waiting = Cmd("ALLOCATE", Event)
             /\ \A ch \in Chan :
                  /\ Sent(SetUp) = 2 + ch <=> (waiting.name = "ALLOCATE" /\ waiting.ch = ch)
                  /\ Sent(SetUp) = 4 + ch <=> (waiting.name = "START" /\ waiting.ch = ch)
  BY <1>1, <1>8, SetUpAt
<1>9. ASSUME NEW ch \in Chan, op = "set_up", waiting.name = "START", waiting.ch = ch
      PROVE  pm[ch] = "CONFIG" /\ ring[ch] # 0
  <2>1. pm[ch] = IF Done(SetUp) >= 4 + ch THEN "ACTIVE" ELSE "CONFIG"
    BY <1>2, <1>9 DEF SetUpInv
  <2>2. Sent(SetUp) = 4 + ch
    BY <1>8, <1>9
  <2>3. pm[ch] = "CONFIG" => ring[ch] # 0
    BY <1>2 DEF RingInv
  <2> QED  BY <1>8, <1>9, <2>1, <2>2, <2>3 DEF Chan
<1>10. TypeInv'
  <2>1. pm' \in [Chan -> PmStates]
    BY <1>1, <1>2, <1>3 DEF TypeInv, PmStates, Started
  <2>2. hwRing' \in [Chan -> 0 .. last]
    BY <1>1, <1>2, <1>3 DEF TypeInv, Programmed
  <2>3. gpm' \in {"DISABLE", "PREPARE_HARDWARE", "ACTIVE", "PREPARE_TERMINATE"}
    BY <1>1, <1>2 DEF TypeInv, EventsActive
  <2> QED  BY <1>1, <1>2, <2>1, <2>2, <2>3 DEF TypeInv
<1>11. RingInv'
  <2>1. ring[0] = ring[1] => ring[0] = 0
    BY <1>2 DEF RingInv
  <2>2. ASSUME NEW ch \in Chan
        PROVE /\ hwRing'[ch] = ring'[1 - ch] => hwRing'[ch] = 0
              /\ ring'[ch] \in freed' => ring'[ch] = 0
              /\ pm'[ch] \in {"CONFIG", "ACTIVE"} => ring'[ch] # 0
    <3>1. /\ hwRing[ch] = ring[1 - ch] => hwRing[ch] = 0
          /\ ring[ch] \in freed => ring[ch] = 0
          /\ pm[ch] \in {"CONFIG", "ACTIVE"} => ring[ch] # 0
      BY <1>2 DEF RingInv
    <3>2. hwRing'[ch] = ring'[1 - ch] => hwRing'[ch] = 0
      <4>1. hwRing'[ch] = hwRing[ch] \/ hwRing'[ch] = ring[ch]
        BY <1>6
      <4>2. ring[ch] = ring[1 - ch] => ring[ch] = 0
        BY <2>1 DEF Chan
      <4> QED  BY <1>1, <3>1, <4>1, <4>2
    <3>3. pm'[ch] \in {"CONFIG", "ACTIVE"} => ring'[ch] # 0
      BY <1>1, <1>5, <1>7, <1>9, <3>1 DEF Chan
    <3> QED  BY <1>1, <3>1, <3>2, <3>3
  <2> QED  BY <1>1, <2>1, <2>2 DEF RingInv
<1>12. CallInv'
  <2>1. op = "free" => pm' = pm
    BY <1>1
  <2> QED  BY <1>1, <1>2, <1>4, <2>1 DEF CallInv
<1>13. SetUpInv'
  <2> SUFFICES ASSUME op = "set_up"  PROVE SetUpInv'
    BY <1>1 DEF SetUpInv
  <2>1. Works(SetUp)' /\ Done(SetUp)' = Sent(SetUp)
    BY <1>1, <1>8 DEF Works, Sent, Done
  <2>2. gpm' = "ACTIVE"
    <3>1. gpm = IF Done(SetUp) >= 1 THEN "ACTIVE" ELSE "PREPARE_HARDWARE"
      BY <1>2 DEF SetUpInv
    <3>2. gpm' = IF waiting = Cmd("ALLOCATE", Event) THEN "ACTIVE" ELSE gpm
      BY <1>1 DEF EventsActive
    <3> QED  BY <1>8, <3>1, <3>2
  <2>3. ASSUME NEW ch \in Chan
        PROVE /\ pm'[ch] = IF Sent(SetUp) >= 4 + ch THEN "ACTIVE" ELSE "CONFIG"
              /\ Sent(SetUp) >= 2 + ch => hwRing'[ch] = ring'[ch]
    <3>1. /\ pm[ch] = IF Sent(SetUp) - 1 >= 4 + ch THEN "ACTIVE" ELSE "CONFIG"
          /\ Sent(SetUp) - 1 >= 2 + ch => hwRing[ch] = ring[ch]
      BY <1>2, <1>8 DEF SetUpInv
    <3>2. /\ Sent(SetUp) = 2 + ch <=> (waiting.name = "ALLOCATE" /\ waiting.ch = ch)
          /\ Sent(SetUp) = 4 + ch <=> (waiting.name = "START" /\ waiting.ch = ch)
      BY <1>8
    <3>3. Sent(SetUp) \in 1 .. 5
      BY <1>8
    <3>4. pm'[ch] = IF Sent(SetUp) >= 4 + ch THEN "ACTIVE" ELSE "CONFIG"
      <4>1. pm'[ch] = IF Sent(SetUp) = 4 + ch THEN "ACTIVE" ELSE pm[ch]
        BY <1>5, <3>2
      <4> QED  BY <3>1, <3>3, <4>1 DEF Chan
    <3>5. Sent(SetUp) >= 2 + ch => hwRing'[ch] = ring'[ch]
      <4>1. hwRing'[ch] = IF Sent(SetUp) = 2 + ch THEN ring[ch] ELSE hwRing[ch]
        BY <1>6, <3>2
      <4> QED  BY <1>1, <3>1, <3>3, <4>1 DEF Chan
    <3> QED  BY <3>4, <3>5
  <2>4. evRing /\ irq
    BY <1>2 DEF SetUpInv
  <2>5. Sent(SetUp) >= 1
    BY <1>8
  <2> QED  BY <1>1, <2>1, <2>2, <2>3, <2>4, <2>5 DEF SetUpInv
<1>14. HoldingsInv'
  <2> SUFFICES ASSUME "set_up" \notin mishaps  PROVE HoldingsInv'
    BY <1>1 DEF HoldingsInv
  <2>1. CASE op \in {"undo", "free", "free_events"}
    BY <1>1, <1>2, <2>1 DEF HoldingsInv, Nothing, TxOnly, InUse, RxGone, TxGoes, TxGone
  <2>2. CASE op = "terminate"
    <3>1. InUse /\ freed = (1 .. last) \ {ring[0], ring[1]}
      BY <1>2, <1>7, <2>2 DEF HoldingsInv
    <3>2. gpm' = gpm
      BY <1>1, <2>2, <3>1 DEF EventsActive, InUse
    <3>3. InUse'
      BY <1>1, <1>5, <3>1, <3>2 DEF InUse
    <3> QED  BY <1>1, <1>7, <2>2, <3>1, <3>3
          DEF HoldingsInv, Resting, Requesting, Releasing, Terminating
  <2>3. CASE op = "set_up"
    <3>1. at = "rx_requested" /\ ring[0] # 0 /\ ring[1] # 0
            /\ freed = (1 .. last) \ {ring[0], ring[1]}
      BY <1>2, <2>3 DEF HoldingsInv, CallInv, TypeInv, Resting, Requesting, Releasing, Terminating
    <3> QED  BY <1>1, <2>3, <3>1 DEF HoldingsInv, Terminating
  <2> QED  BY <1>4, <2>1, <2>2, <2>3
<1>15. ASSUME "answer" \notin mishaps'
       PROVE  InStep' /\ TerminateInv' /\ RunsInv' /\ op' # "undo"
  <2>1. InStep /\ TerminateInv /\ RunsInv /\ op # "undo"
    BY <1>1, <1>15 DEF IInv, StepInv
  <2>2. hwq = << >> /\ pending = {} /\ hw[waiting.ch] = After(waiting)
    BY <1>1, <2>1 DEF InStep
  <2>3. InStep'
    BY <1>1, <2>2 DEF InStep
  <2>4. TerminateInv'
    <3> SUFFICES ASSUME op = "terminate"  PROVE TerminateInv'
      BY <1>1 DEF TerminateInv
    <3>1. /\ Works(Restart) /\ Sent(Restart) \in 1 .. 6 /\ Done(Restart) = Sent(Restart) - 1
          /\ \A ch \in Chan :
              /\ Sent(Restart) = 3 + ch <=> (waiting.name = "RESET" /\ waiting.ch = ch)
              /\ Sent(Restart) = 5 + ch <=> (waiting.name = "START" /\ waiting.ch = ch)
      BY <1>1, <2>1, RestartAt
    <3>2. Works(Restart)' /\ Done(Restart)' = Sent(Restart) /\ Sent(Restart)' = Sent(Restart)
      BY <1>1, <3>1 DEF Works, Sent, Done
    <3>3. ASSUME NEW ch \in Chan
          PROVE /\ Sent(Restart) >= 1 + ch =>
                    pm'[ch] = IF Sent(Restart) >= 5 + ch THEN "ACTIVE" ELSE "PREPARE_TERMINATE"
                /\ Sent(Restart) >= 3 + ch => hwRing'[ch] = ring'[ch]
      <4>1. /\ Sent(Restart) >= 1 + ch =>
                 pm[ch] = IF Sent(Restart) - 1 >= 5 + ch THEN "ACTIVE" ELSE "PREPARE_TERMINATE"
            /\ Sent(Restart) - 1 >= 3 + ch => hwRing[ch] = ring[ch]
        BY <2>1, <3>1 DEF TerminateInv
      <4>2. pm'[ch] = IF Sent(Restart) = 5 + ch THEN "ACTIVE" ELSE pm[ch]
        BY <1>5, <3>1
      <4>3. hwRing'[ch] = hwRing[ch] \/ hwRing'[ch] = ring[ch]
        BY <1>6
      <4>4. Sent(Restart) = 3 + ch => hwRing'[ch] = ring[ch]
        BY <1>6, <3>1
      <4> QED  BY <1>1, <3>1, <4>1, <4>2, <4>3, <4>4 DEF Chan
    <3> QED  BY <1>1, <3>2, <3>3 DEF TerminateInv
  <2>5. ASSUME NEW ch \in Chan
        PROVE  /\ pm'[ch] = "ACTIVE" => hw'[ch] = "STARTED" /\ hwRing'[ch] = ring'[ch]
               /\ (hw'[ch] = "STARTED" /\ hwRing'[ch] = ring'[ch]) =>
                    (pm'[ch] = "ACTIVE" \/ StopAhead(ch)' \/ waiting' = Cmd("START", ch))
               /\ hw'[ch] = "STARTED" => hwRing'[ch] \notin freed' /\ hwRing'[ch] # 0
    <3>1. /\ pm[ch] = "ACTIVE" => hw[ch] = "STARTED" /\ hwRing[ch] = ring[ch]
          /\ (hw[ch] = "STARTED" /\ hwRing[ch] = ring[ch]) =>
               (pm[ch] = "ACTIVE" \/ StopAhead(ch) \/ waiting = Cmd("START", ch))
          /\ hw[ch] = "STARTED" => hwRing[ch] \notin freed /\ hwRing[ch] # 0
      BY <2>1 DEF RunsInv
    <3>2. CASE waiting.ch # ch
      <4>1. pm'[ch] = pm[ch] /\ hwRing'[ch] = hwRing[ch]
        BY <1>5, <1>6, <3>2
      <4>2. waiting # Cmd("STOP", ch) /\ waiting # Cmd("START", ch)
        BY <3>2 DEF Cmd
      <4>3. StopAhead(ch) => StopAhead(ch)'
        BY <1>1, <4>2 DEF StopAhead
      <4> QED  BY <1>1, <3>1, <4>1, <4>2, <4>3
    <3>3. CASE waiting.ch = ch
      <4>1. pm[ch] # "ACTIVE"
        BY <1>1, <1>15, <3>3, WaitsForInactive
      <4>2. hw[ch] = "STARTED" => waiting.name = "START"
        BY <1>3, <2>2, <3>3, StatesOfCommands DEF After
      <4>3. waiting.name = "START" => /\ hw[ch] = "STARTED" /\ hwRing[ch] = ring[ch]
                                      /\ op \in {"set_up", "terminate"}
        <5>1. waiting.name = "START" => hw[ch] = "STARTED"
          BY <2>2, <3>3 DEF After, StateAfter
        <5>2. waiting.name = "START" => hwRing[ch] = ring[ch]
          BY <1>1, <1>15, <3>3, WaitsForInactive
        <5>3. waiting.name = "START" => op # "free"
          BY <1>1, <1>2 DEF CallInv
        <5>4. op # "free_events"
          <6>1. op = "free_events" => waiting.ch = Event
            BY <1>1, <1>2 DEF CallInv
          <6> QED  BY <3>3, <6>1 DEF Chan, Event
        <5> QED  BY <1>4, <2>1, <5>1, <5>2, <5>3, <5>4
      <4>4. waiting.name = "START" => hwRing'[ch] = hwRing[ch]
        BY <1>6
      <4> QED  BY <1>1, <1>5, <1>6, <3>1, <3>3, <4>1, <4>2, <4>3, <4>4
    <3> QED  BY <3>2, <3>3
  <2> QED  BY <1>1, <2>1, <2>3, <2>4, <2>5 DEF RunsInv
<1> QED  BY <1>10, <1>11, <1>12, <1>13, <1>14, <1>15 DEF IInv, SoftInv, StepInv

LEMMA UnansweredKeeps == ASSUME IInv, Unanswered  PROVE IInv'
<1>1. /\ waiting # NoCmd /\ waiting' = NoCmd
      /\ op' = IF op = "set_up" THEN "undo" ELSE op
      /\ todo' = CASE op = "set_up" -> Undo(waiting)
                   [] op = "terminate" /\ waiting.name # "STOP" -> << >>
                   [] OTHER -> todo
      /\ "answer" \in mishaps' /\ ("set_up" \in mishaps' <=> op = "set_up" \/ "set_up" \in mishaps)
      /\ UNCHANGED <<client, arg, completed, gpi_cmd, gchan, gpii, hardware, memory, faults>>
  BY DEF Unanswered
<1>2. TypeInv /\ RingInv /\ CallInv /\ SetUpInv /\ HoldingsInv
  BY DEF IInv, SoftInv
<1>3. op \in {"set_up", "undo", "terminate", "free", "free_events"}
  BY <1>1, <1>2 DEF TypeInv, CallInv, Idle
<1>4. op \notin {"set_up", "terminate"} => todo' = todo
  BY <1>1
<1>5. Undo(waiting) \in Seq(Commands)
  <2>1. waiting.ch \in Chan \cup {Event} /\ arg \in Chan
    BY <1>1, <1>2 DEF TypeInv, Commands
  <2>2. Cmd("DE_ALLOC", arg) \in Commands /\ Cmd("STOP", 0) \in Commands
          /\ Cmd("RESET", arg) \in Commands
    BY <2>1 DEF Cmd, Commands, Names, Chan
  <2>3. waiting.ch # Event => [i \in 1 .. waiting.ch |-> Cmd("DE_ALLOC", arg)] \in Seq(Commands)
    <3> SUFFICES ASSUME waiting.ch # Event
                 PROVE [i \in 1 .. waiting.ch |-> Cmd("DE_ALLOC", arg)] \in Seq(Commands)
      OBVIOUS
    <3>1. waiting.ch \in Nat
      BY <2>1 DEF Chan
    <3>2. [i \in 1 .. waiting.ch |-> Cmd("DE_ALLOC", arg)] \in [1 .. waiting.ch -> Commands]
      BY <2>2
    <3> QED  BY <3>1, <3>2, SeqDef
  <2>4. (IF waiting.ch = 1 THEN <<Cmd("STOP", 0), Cmd("RESET", arg)>> ELSE << >>)
          \o <<Cmd("DE_ALLOC", arg), Cmd("DE_ALLOC", arg)>> \in Seq(Commands)
    BY <2>2
  <2>5. << >> \in Seq(Commands)
    OBVIOUS
  <2>6. CASE waiting.ch = Event
    BY <2>5, <2>6, Zenon DEF Undo
  <2>7. CASE waiting.ch # Event /\ waiting.name = "ALLOCATE"
    BY <2>3, <2>7, Zenon DEF Undo
  <2>8. CASE waiting.ch # Event /\ waiting.name # "ALLOCATE"
    BY <2>4, <2>8, Zenon DEF Undo
  <2> QED  BY <2>6, <2>7, <2>8
<1>6. TypeInv'
  <2>1. todo' \in Seq(Commands)
    <3>1. todo \in Seq(Commands)
      BY <1>2 DEF TypeInv
    <3>2. << >> \in Seq(Commands)
      OBVIOUS
    <3> QED  BY <1>1, <1>5, <3>1, <3>2
  <2> QED  BY <1>1, <1>2, <1>3, <2>1 DEF TypeInv
<1>7. RingInv'
  BY <1>1, <1>2 DEF RingInv
<1>8. CallInv'
  <2>1. op = "free_events" => \A i \in 1 .. Len(todo') : todo'[i].ch = Event
    BY <1>2, <1>4 DEF CallInv
  <2>2. op = "free" => /\ \A i \in 1 .. Len(todo') : todo'[i].ch = arg /\ todo'[i].name # "START"
                       /\ pm[arg] = "PREPARE_TERMINATE"
    BY <1>2, <1>4 DEF CallInv
  <2> QED  BY <1>1, <1>2, <1>3, <2>1, <2>2 DEF CallInv, Resting, Requesting, Releasing, Terminating
<1>9. SetUpInv'
  BY <1>1 DEF SetUpInv
<1>10. HoldingsInv'
  BY <1>1, <1>2 DEF HoldingsInv, Nothing, TxOnly, InUse, RxGone, TxGoes, TxGone
<1> QED  BY <1>1, <1>6, <1>7, <1>8, <1>9, <1>10 DEF IInv, SoftInv, StepInv

-----------------------------------------------------------------------------
(* gpi_alloc_chan_resources.                                               *)

LEMMA AtRest ==
  ASSUME IInv, Idle
  PROVE  /\ waiting = NoCmd /\ todo = << >>
         /\ \A ch \in Chan : ~StopAhead(ch) /\ waiting # Cmd("START", ch)
         /\ "answer" \notin mishaps =>
              /\ hwq = << >> /\ pending = {}
              /\ \A ch \in Chan : (hw[ch] = "STARTED" /\ hwRing[ch] = ring[ch]) => pm[ch] = "ACTIVE"
<1>1. waiting = NoCmd /\ todo = << >>
  BY DEF Idle
<1>2. \A name \in Names, ch \in Chan : waiting # Cmd(name, ch)
  BY <1>1 DEF NoCmd, Cmd, Names
<1>3. \A ch \in Chan : waiting # Cmd("START", ch) /\ waiting # Cmd("STOP", ch)
  BY <1>2 DEF Names
<1>4. \A ch \in Chan : ~StopAhead(ch)
  BY <1>1, <1>3 DEF StopAhead
<1>5. "answer" \notin mishaps => InStep /\ RunsInv
  BY DEF IInv, StepInv
<1>6. "answer" \notin mishaps => hwq = << >> /\ pending = {}
  BY <1>1, <1>5 DEF InStep
<1>7. "answer" \notin mishaps =>
        \A ch \in Chan : (hw[ch] = "STARTED" /\ hwRing[ch] = ring[ch]) => pm[ch] = "ACTIVE"
  BY <1>3, <1>4, <1>5 DEF RunsInv
<1> QED  BY <1>1, <1>3, <1>4, <1>6, <1>7

LEMMA RequestKeeps ==
  ASSUME IInv, NEW ch \in Chan, Request(ch),
         ch = 0 => at = "none" /\ at' = "tx_requested",
         ch = 1 => at = "tx" /\ at' = "rx_requested"
  PROVE  IInv'
<1>1. op = "none" /\ arg' = ch /\ UNCHANGED <<sent, hardware>>
  BY DEF Request
<1>2. TypeInv /\ RingInv /\ CallInv /\ SetUpInv /\ HoldingsInv
  BY DEF IInv, SoftInv
<1>3. Idle /\ waiting = NoCmd /\ todo = << >>
  BY <1>1, <1>2 DEF CallInv, Idle
<1>4. \/ ch = 0 /\ at = "none" /\ at' = "tx_requested"
      \/ ch = 1 /\ at = "tx" /\ at' = "rx_requested" /\ ring[0] # 0
  BY <1>2 DEF Chan, CallInv
<1>5. "set_up" \notin mishaps => /\ freed = (1 .. last) \ {ring[0], ring[1]}
                                 /\ ch = 0 => Nothing
                                 /\ ch = 1 => TxOnly
  BY <1>2, <1>4 DEF HoldingsInv
<1>6. CASE RequestRefused(ch)
  <2>1. op' = "failed" /\ UNCHANGED <<todo, gchan, gpii, memory, mishaps>>
    BY <1>6 DEF RequestRefused
  <2>2. TypeInv'
    BY <1>1, <1>2, <1>4, <2>1 DEF TypeInv, Requesting
  <2>3. RingInv'
    BY <1>1, <1>2, <2>1 DEF RingInv
  <2>4. CallInv' /\ SetUpInv'
    BY <1>1, <1>3, <1>4, <2>1
       DEF CallInv, SetUpInv, Idle, Resting, Requesting, Releasing, Terminating
  <2>5. HoldingsInv'
    BY <1>1, <1>4, <1>5, <2>1 DEF HoldingsInv, Nothing, TxOnly, Terminating
  <2>6. StepInv'
    BY <1>1, <1>3, <2>1 DEF IInv, StepInv, InStep, TerminateInv, RunsInv, StopAhead
  <2> QED  BY <2>2, <2>3, <2>4, <2>5, <2>6 DEF IInv, SoftInv
<1>7. CASE RequestTaken(ch)
  <2>1. /\ last' = last + 1 /\ ring' = [ring EXCEPT ![ch] = last + 1] /\ freed' = freed
        /\ pm' = [pm EXCEPT ![ch] = "CONFIG"]
    BY <1>7 DEF RequestTaken, AllocatesRing
  <2>2. \/ /\ ~BothConfigured(ch) /\ op' = "done"
           /\ UNCHANGED <<todo, gpm, evRing, irq, mishaps>>
        \/ /\ BothConfigured(ch) /\ op' = "set_up" /\ todo' = SetUp /\ evRing' /\ irq'
           /\ gpm' = "PREPARE_HARDWARE" /\ UNCHANGED mishaps
        \/ /\ op' = "failed" /\ "set_up" \in mishaps' /\ mishaps \subseteq mishaps'
           /\ gpm' \in {gpm, "PREPARE_HARDWARE"} /\ UNCHANGED <<todo, evRing, irq>>
    BY <1>7 DEF RequestTaken, PreparesEvents, PreparesNoEvents
  <2>3. /\ last \in Nat /\ ring \in [Chan -> 0 .. last] /\ hwRing \in [Chan -> 0 .. last]
        /\ freed \subseteq 0 .. last /\ pm \in [Chan -> PmStates]
    BY <1>2 DEF TypeInv
  <2>4. /\ ring'[ch] = last + 1 /\ ring'[1 - ch] = ring[1 - ch] /\ ring'[ch] # 0
        /\ pm'[ch] = "CONFIG" /\ pm'[1 - ch] = pm[1 - ch] /\ 1 - ch \in Chan
    BY <2>1, <2>3 DEF Chan
  <2>5. TypeInv'
    <3>1. todo' \in Seq(Commands) /\ evRing' \in BOOLEAN /\ irq' \in BOOLEAN
      <4>1. SetUp \in Seq(Commands) /\ todo \in Seq(Commands)
        BY <1>2, ListFacts DEF TypeInv
      <4>2. todo' \in {todo, SetUp}
        BY <2>2
      <4>3. evRing' \in BOOLEAN /\ irq' \in BOOLEAN
        <5>1. evRing \in BOOLEAN /\ irq \in BOOLEAN
          BY <1>2 DEF TypeInv
        <5> QED  BY <2>2, <5>1
      <4> QED  BY <4>1, <4>2, <4>3
    <3>2. gpm' \in {"DISABLE", "PREPARE_HARDWARE", "ACTIVE", "PREPARE_TERMINATE"}
      BY <1>2, <2>2 DEF TypeInv
    <3>3. last' \in Nat /\ ring' \in [Chan -> 0 .. last'] /\ hwRing' \in [Chan -> 0 .. last']
            /\ freed' \subseteq 0 .. last' /\ pm' \in [Chan -> PmStates]
      BY <1>1, <2>1, <2>3 DEF PmStates
    <3>4. at' \in Requesting /\ op' \in {"done", "set_up", "failed"}
      BY <1>4, <2>2 DEF Requesting
    <3> QED  BY <1>1, <1>2, <3>1, <3>2, <3>3, <3>4 DEF TypeInv
  <2>6. RingInv'
    BY <1>1, <1>2, <2>1, <2>3, <2>4 DEF RingInv, Chan
  <2>7. CallInv'
    <3>1. op' # "set_up" => todo' = << >>
      BY <1>3, <2>2
    <3>2. op' \in {"done", "set_up", "failed"}
      BY <2>2
    <3>3. (ch = 0 => ring'[0] # 0) /\ (ch = 1 => ring'[0] # 0 /\ ring'[1] # 0)
      BY <1>4, <2>4
    <3> QED  BY <1>1, <1>3, <1>4, <3>1, <3>2, <3>3
          DEF CallInv, Idle, Resting, Requesting, Releasing, Terminating
  <2>8. SetUpInv'
    <3> SUFFICES ASSUME op' = "set_up"  PROVE SetUpInv'
      BY DEF SetUpInv
    <3>1. BothConfigured(ch) /\ todo' = SetUp /\ evRing' /\ irq' /\ gpm' = "PREPARE_HARDWARE"
      BY <2>2
    <3>2. waiting' = NoCmd
      BY <1>1, <1>3
    <3>3. Works(SetUp)' /\ Done(SetUp)' = 0
      BY <3>1, <3>2, ListFacts DEF Works, Sent, Done
    <3>4. \A x \in Chan : pm'[x] = "CONFIG"
      BY <2>4, <3>1 DEF BothConfigured, Chan
    <3> QED  BY <3>1, <3>3, <3>4 DEF SetUpInv, Chan
  <2>9. HoldingsInv'
    <3> SUFFICES ASSUME "set_up" \notin mishaps'  PROVE HoldingsInv'
      BY DEF HoldingsInv
    <3>1. "set_up" \notin mishaps /\ op' # "failed"
      BY <2>2
    <3>2. freed' = (1 .. last') \ {ring'[0], ring'[1]}
      <4>1. freed = (1 .. last) \ {ring[0], ring[1]} /\ ring[ch] = 0
        BY <1>4, <1>5, <3>1 DEF Nothing, TxOnly
      <4>2. freed = (1 .. last) \ {ring[1 - ch]}
        BY <2>3, <4>1 DEF Chan
      <4>3. {ring'[0], ring'[1]} = {last + 1, ring[1 - ch]}
        BY <2>4 DEF Chan
      <4>4. (1 .. last) \ {ring[1 - ch]} = (1 .. last + 1) \ {last + 1, ring[1 - ch]}
        BY <2>3
      <4> QED  BY <2>1, <4>2, <4>3, <4>4
    <3>3. CASE ch = 0
      <4>1. Nothing /\ pm[1] = "DISABLE"
        BY <1>5, <3>1, <3>3 DEF Nothing
      <4>2. op' = "done" /\ UNCHANGED <<gpm, evRing, irq>>
        BY <2>2, <3>1, <3>3, <4>1 DEF BothConfigured
      <4>3. TxOnly'
        BY <2>4, <3>3, <4>1, <4>2 DEF Nothing, TxOnly
      <4> QED  BY <1>4, <3>2, <3>3, <4>2, <4>3 DEF HoldingsInv, Terminating
    <3>4. CASE ch = 1
      <4>1. pm[0] = "CONFIG"
        BY <1>5, <3>1, <3>4 DEF TxOnly
      <4>2. op' = "set_up"
        BY <2>2, <3>1, <3>4, <4>1 DEF BothConfigured
      <4>3. ring'[0] # 0 /\ ring'[1] # 0
        BY <1>4, <2>4, <3>4
      <4> QED  BY <1>4, <3>2, <3>4, <4>2, <4>3 DEF HoldingsInv, Terminating
    <3> QED  BY <3>3, <3>4 DEF Chan
  <2>10. StepInv'
    <3> SUFFICES ASSUME "answer" \notin mishaps'
                 PROVE  op' # "undo" /\ InStep' /\ TerminateInv' /\ RunsInv'
      BY DEF StepInv
    <3>1. "answer" \notin mishaps /\ op' \notin {"undo", "terminate"}
      BY <2>2
    <3>2. hwq = << >> /\ pending = {} /\ RunsInv
            /\ \A x \in Chan : (hw[x] = "STARTED" /\ hwRing[x] = ring[x]) => pm[x] = "ACTIVE"
      BY <1>3, <3>1, AtRest DEF IInv, StepInv
    <3>3. InStep' /\ TerminateInv'
      BY <1>1, <1>3, <3>1, <3>2 DEF InStep, TerminateInv
    <3>4. ASSUME NEW x \in Chan
          PROVE  /\ pm'[x] = "ACTIVE" => hw'[x] = "STARTED" /\ hwRing'[x] = ring'[x]
                 /\ (hw'[x] = "STARTED" /\ hwRing'[x] = ring'[x]) => pm'[x] = "ACTIVE"
                 /\ hw'[x] = "STARTED" => hwRing'[x] \notin freed' /\ hwRing'[x] # 0
      <4>1. /\ pm[x] = "ACTIVE" => hw[x] = "STARTED" /\ hwRing[x] = ring[x]
            /\ (hw[x] = "STARTED" /\ hwRing[x] = ring[x]) => pm[x] = "ACTIVE"
            /\ hw[x] = "STARTED" => hwRing[x] \notin freed /\ hwRing[x] # 0
        BY <3>2 DEF RunsInv
      <4>2. x = ch \/ x = 1 - ch
        BY DEF Chan
      <4> QED  BY <1>1, <2>1, <2>3, <2>4, <4>1, <4>2
    <3> QED  BY <3>1, <3>3, <3>4 DEF RunsInv
  <2> QED  BY <2>5, <2>6, <2>7, <2>8, <2>9, <2>10 DEF IInv, SoftInv
<1> QED  BY <1>6, <1>7 DEF Request

LEMMA SetUpEndsKeeps == ASSUME IInv, SetUpEnds  PROVE IInv'
<1>1. /\ op \in {"set_up", "undo"} /\ Idle /\ op' = IF op = "set_up" THEN "done" ELSE "failed"
      /\ IF op = "undo" THEN irq' = FALSE /\ evRing' = FALSE ELSE UNCHANGED <<irq, evRing>>
      /\ UNCHANGED <<client, arg, todo, sent, gchan, gpm, evState, hardware, memory, faults, mishaps>>
  BY DEF SetUpEnds, EventsGone
<1>2. TypeInv /\ RingInv /\ CallInv /\ SetUpInv /\ HoldingsInv
  BY DEF IInv, SoftInv
<1>3. at \in Requesting
  BY <1>1, <1>2 DEF CallInv, TypeInv
<1>4. TypeInv'
  <2>1. evRing' \in BOOLEAN /\ irq' \in BOOLEAN
    <3>1. evRing \in BOOLEAN /\ irq \in BOOLEAN
      BY <1>2 DEF TypeInv
    <3> QED  BY <1>1, <3>1
  <2> QED  BY <1>1, <1>2, <2>1 DEF TypeInv
<1>5. RingInv'
  BY <1>1, <1>2 DEF RingInv
<1>6. CallInv' /\ SetUpInv'
  BY <1>1, <1>2, <1>3
     DEF CallInv, SetUpInv, Idle, Resting, Requesting, Releasing, Terminating
<1>7. HoldingsInv'
  <2> SUFFICES ASSUME "set_up" \notin mishaps  PROVE HoldingsInv'
    BY <1>1 DEF HoldingsInv
  <2>1. at = "rx_requested" /\ op = "set_up" /\ ring[0] # 0 /\ ring[1] # 0
          /\ freed = (1 .. last) \ {ring[0], ring[1]}
    BY <1>1, <1>2, <1>3 DEF HoldingsInv, Requesting
  <2>2. Done(SetUp) = 5
    BY <1>1, <1>2, <2>1, ListFacts, WhereItIs DEF SetUpInv
  <2>3. evRing /\ irq /\ gpm = "ACTIVE" /\ \A ch \in Chan : pm[ch] = "ACTIVE"
    BY <1>2, <2>1, <2>2 DEF SetUpInv, Chan
  <2>4. InUse'
    BY <1>1, <2>1, <2>3 DEF InUse
  <2> QED  BY <1>1, <2>1, <2>4 DEF HoldingsInv, Terminating
<1>8. StepInv'
  BY <1>1 DEF IInv, StepInv, InStep, TerminateInv, RunsInv, StopAhead
<1> QED  BY <1>4, <1>5, <1>6, <1>7, <1>8 DEF IInv, SoftInv

-----------------------------------------------------------------------------
(* gpi_terminate_all.                                                      *)

LEMMA TerminateKeeps ==
  ASSUME IInv, NEW ch \in Chan, Terminate(ch),
         ch = 0 => at = "both" /\ at' = "tx_terminated",
         ch = 1 => at = "tx_idle" /\ at' = "rx_terminated"
  PROVE  IInv'
<1>1. /\ op = "none" /\ op' = "terminate" /\ arg' = ch /\ todo' = Restart
      /\ UNCHANGED <<sent, gchan, gpii, hardware, memory, faults, mishaps>>
  BY DEF Terminate
<1>2. TypeInv /\ RingInv /\ CallInv /\ SetUpInv /\ HoldingsInv
  BY DEF IInv, SoftInv
<1>3. Idle /\ waiting = NoCmd /\ todo = << >>
  BY <1>1, <1>2 DEF CallInv, Idle
<1>4. \/ ch = 0 /\ at = "both" /\ at' = "tx_terminated"
      \/ ch = 1 /\ at = "tx_idle" /\ at' = "rx_terminated"
  BY DEF Chan
<1>5. ring[0] # 0 /\ ring[1] # 0
  BY <1>2, <1>4 DEF CallInv
<1>6. TypeInv'
  <2>1. todo' \in Seq(Commands)
    BY <1>1, ListFacts
  <2> QED  BY <1>1, <1>2, <1>4, <2>1 DEF TypeInv, Terminating
<1>7. RingInv'
  BY <1>1, <1>2 DEF RingInv
<1>8. CallInv' /\ SetUpInv'
  BY <1>1, <1>4, <1>5
     DEF CallInv, SetUpInv, Resting, Requesting, Releasing, Terminating
<1>9. HoldingsInv'
  <2> SUFFICES ASSUME "set_up" \notin mishaps  PROVE HoldingsInv'
    BY <1>1 DEF HoldingsInv
  <2>1. InUse /\ freed = (1 .. last) \ {ring[0], ring[1]}
    BY <1>2, <1>4 DEF HoldingsInv
  <2>2. InUse'
    BY <1>1, <2>1 DEF InUse
  <2> QED  BY <1>1, <1>4, <2>1, <2>2 DEF HoldingsInv, Terminating
<1>10. StepInv'
  <2> SUFFICES ASSUME "answer" \notin mishaps
               PROVE  InStep' /\ TerminateInv' /\ RunsInv'
    BY <1>1 DEF StepInv
  <2>1. RunsInv /\ InStep
    BY DEF IInv, StepInv
  <2>2. InStep'
    BY <1>1, <1>3, <2>1 DEF InStep
  <2>3. Works(Restart)' /\ Sent(Restart)' = 0 /\ Done(Restart)' = 0
    BY <1>1, <1>3, ListFacts DEF Works, Sent, Done
  <2>4. TerminateInv'
    BY <1>1, <2>3 DEF TerminateInv, Chan
  <2>5. \A x \in Chan : (hw[x] = "STARTED" /\ hwRing[x] = ring[x]) => pm[x] = "ACTIVE"
    BY <1>3, AtRest
  <2>6. RunsInv'
    BY <1>1, <2>1, <2>5 DEF RunsInv
  <2> QED  BY <2>2, <2>4, <2>6
<1> QED  BY <1>6, <1>7, <1>8, <1>9, <1>10 DEF IInv, SoftInv

LEMMA TerminateEndsKeeps == ASSUME IInv, TerminateEnds  PROVE IInv'
<1>1. /\ op = "terminate" /\ Idle /\ op' = "done"
      /\ UNCHANGED <<client, arg, todo, sent, gchan, gpii, hardware, memory, faults, mishaps>>
  BY DEF TerminateEnds
<1>2. TypeInv /\ RingInv /\ CallInv /\ SetUpInv /\ HoldingsInv
  BY DEF IInv, SoftInv
<1>3. at \in Terminating
  BY <1>1, <1>2 DEF CallInv, TypeInv
<1>4. TypeInv' /\ RingInv'
  BY <1>1, <1>2 DEF TypeInv, RingInv
<1>5. CallInv' /\ SetUpInv'
  BY <1>1, <1>2, <1>3
     DEF CallInv, SetUpInv, Idle, Resting, Requesting, Releasing, Terminating
<1>6. HoldingsInv'
  <2> SUFFICES ASSUME "set_up" \notin mishaps  PROVE HoldingsInv'
    BY <1>1 DEF HoldingsInv
  <2>1. InUse /\ freed = (1 .. last) \ {ring[0], ring[1]}
    BY <1>2, <1>3 DEF HoldingsInv
  <2>2. InUse'
    BY <1>1, <2>1 DEF InUse
  <2> QED  BY <1>1, <1>3, <2>1, <2>2 DEF HoldingsInv, Terminating
<1>7. StepInv'
  BY <1>1 DEF IInv, StepInv, InStep, TerminateInv, RunsInv, StopAhead
<1> QED  BY <1>4, <1>5, <1>6, <1>7 DEF IInv, SoftInv

-----------------------------------------------------------------------------
(* gpi_free_chan_resources.                                                *)

LEMMA ReleaseKeeps ==
  ASSUME IInv, NEW ch \in Chan, Release(ch),
         ch = 0 => at \in {"rx_refused", "rx_gone"} /\ at' = "tx_released",
         ch = 1 => at = "both" /\ at' = "rx_released"
  PROVE  IInv'
<1>1. /\ op = "none" /\ op' = "free" /\ arg' = ch /\ todo' = ShutDown(ch)
      /\ pm' = [pm EXCEPT ![ch] = "PREPARE_TERMINATE"]
      /\ UNCHANGED <<sent, state, gpii, hardware, memory, faults, mishaps>>
  BY DEF Release
<1>2. TypeInv /\ RingInv /\ CallInv /\ SetUpInv /\ HoldingsInv
  BY DEF IInv, SoftInv
<1>3. Idle /\ waiting = NoCmd /\ todo = << >>
  BY <1>1, <1>2 DEF CallInv, Idle
<1>4. \/ ch = 0 /\ at \in {"rx_refused", "rx_gone"} /\ at' = "tx_released"
      \/ ch = 1 /\ at = "both" /\ at' = "rx_released"
  BY DEF Chan
<1>5. /\ pm \in [Chan -> PmStates] /\ pm' \in [Chan -> PmStates] /\ pm'[ch] = "PREPARE_TERMINATE"
      /\ \A x \in Chan : x # ch => pm'[x] = pm[x]
  BY <1>1, <1>2 DEF TypeInv, PmStates
<1>6. /\ todo' \in Seq(Commands)
      /\ \A i \in 1 .. Len(todo') : todo'[i].ch = ch /\ todo'[i].name # "START"
      /\ pm[ch] = "ACTIVE" => 1 \in 1 .. Len(todo') /\ todo'[1] = Cmd("STOP", ch)
  <2>1. Cmd("STOP", ch) \in Commands /\ Cmd("RESET", ch) \in Commands
          /\ Cmd("DE_ALLOC", ch) \in Commands
    BY DEF Cmd, Commands, Names
  <2>2. CASE pm[ch] = "ACTIVE"
    <3>1. todo' = <<Cmd("STOP", ch), Cmd("RESET", ch), Cmd("DE_ALLOC", ch)>>
      BY <1>1, <2>2 DEF ShutDown
    <3>2. todo' \in Seq(Commands) /\ Len(todo') = 3 /\ todo'[1] = Cmd("STOP", ch)
            /\ todo'[2] = Cmd("RESET", ch) /\ todo'[3] = Cmd("DE_ALLOC", ch)
      BY <2>1, <3>1
    <3>3. \A i \in 1 .. 3 : i = 1 \/ i = 2 \/ i = 3
      OBVIOUS
    <3>4. \A i \in 1 .. 3 : todo'[i].ch = ch /\ todo'[i].name # "START"
      BY <3>2, <3>3 DEF Cmd
    <3> QED  BY <3>2, <3>4
  <2>3. CASE pm[ch] # "ACTIVE"
    BY <1>1, <2>3 DEF ShutDown
  <2> QED  BY <2>2, <2>3
<1>7. TypeInv'
  BY <1>1, <1>2, <1>4, <1>5, <1>6 DEF TypeInv, Releasing
<1>8. RingInv'
  BY <1>1, <1>2, <1>5 DEF RingInv
<1>9. CallInv' /\ SetUpInv'
  BY <1>1, <1>3, <1>4, <1>5, <1>6
     DEF CallInv, SetUpInv, Resting, Requesting, Releasing, Terminating
<1>10. HoldingsInv'
  <2> SUFFICES ASSUME "set_up" \notin mishaps  PROVE HoldingsInv'
    BY <1>1 DEF HoldingsInv
  <2>1. freed = (1 .. last) \ {ring[0], ring[1]}
    BY <1>2 DEF HoldingsInv
  <2>2. CASE ch = 0
    <3>1. TxOnly \/ RxGone
      BY <1>2, <1>4, <2>2 DEF HoldingsInv
    <3>2. TxGoes'
      BY <1>1, <1>5, <2>2, <3>1 DEF TxOnly, RxGone, TxGoes, Chan
    <3> QED  BY <1>1, <1>4, <2>1, <2>2, <3>2 DEF HoldingsInv, Terminating
  <2>3. CASE ch = 1
    <3>1. InUse
      BY <1>2, <1>4, <2>3 DEF HoldingsInv
    <3>2. InUse'
      BY <1>1, <1>5, <2>3, <3>1 DEF InUse, Chan
    <3> QED  BY <1>1, <1>4, <2>1, <2>3, <3>2 DEF HoldingsInv, Terminating
  <2> QED  BY <2>2, <2>3 DEF Chan
<1>11. StepInv'
  <2> SUFFICES ASSUME "answer" \notin mishaps
               PROVE  InStep' /\ TerminateInv' /\ RunsInv'
    BY <1>1 DEF StepInv
  <2>1. RunsInv /\ InStep
    BY DEF IInv, StepInv
  <2>2. InStep' /\ TerminateInv'
    BY <1>1, <1>3, <2>1 DEF InStep, TerminateInv
  <2>3. \A x \in Chan : (hw[x] = "STARTED" /\ hwRing[x] = ring[x]) => pm[x] = "ACTIVE"
    BY <1>3, AtRest
  <2>4. pm[ch] = "ACTIVE" => StopAhead(ch)'
    BY <1>6 DEF StopAhead
  <2>5. RunsInv'
    BY <1>1, <1>5, <2>1, <2>3, <2>4 DEF RunsInv
  <2> QED  BY <2>2, <2>5
<1> QED  BY <1>7, <1>8, <1>9, <1>10, <1>11 DEF IInv, SoftInv

LEMMA FreesKeeps == ASSUME IInv, Frees  PROVE IInv'
<1>1. /\ op = "free" /\ Idle /\ freed' = freed \cup {ring[arg]} /\ ring' = [ring EXCEPT ![arg] = 0]
      /\ last' = last /\ pm' = [pm EXCEPT ![arg] = "DISABLE"]
      /\ UNCHANGED <<client, arg, sent, state, evState, evRing, irq, hardware, faults, mishaps>>
  BY DEF Frees, FreesRing
<1>2. \/ /\ ring[1 - arg] = 0 /\ gpm' = "PREPARE_TERMINATE"
         /\ gpm = "ACTIVE" /\ op' = "free_events" /\ todo' = <<Cmd("DE_ALLOC", Event)>>
      \/ /\ ring[1 - arg] = 0 /\ gpm' = "PREPARE_TERMINATE"
         /\ gpm # "ACTIVE" /\ op' = "free_ring" /\ todo' = todo
      \/ ring[1 - arg] # 0 /\ op' = "done" /\ gpm' = gpm /\ todo' = todo
  BY DEF Frees, LastRing
<1>3. TypeInv /\ RingInv /\ CallInv /\ SetUpInv /\ HoldingsInv
  BY DEF IInv, SoftInv
<1>4. waiting = NoCmd /\ todo = << >> /\ at \in Releasing /\ arg \in Chan /\ 1 - arg \in Chan
        /\ pm[arg] = "PREPARE_TERMINATE"
  BY <1>1, <1>3 DEF CallInv, TypeInv, Idle, Chan
<1>5. /\ ring \in [Chan -> 0 .. last] /\ last \in Nat /\ hwRing \in [Chan -> 0 .. last]
      /\ freed \subseteq 0 .. last /\ pm \in [Chan -> PmStates]
  BY <1>3 DEF TypeInv
<1>6. /\ ring'[arg] = 0 /\ ring'[1 - arg] = ring[1 - arg]
      /\ pm'[arg] = "DISABLE" /\ pm'[1 - arg] = pm[1 - arg]
      /\ \A ch \in Chan : ch = arg \/ ch = 1 - arg
  BY <1>1, <1>4, <1>5 DEF Chan
<1>7. TypeInv'
  <2>1. todo' \in Seq(Commands)
    <3>1. todo \in Seq(Commands)
      BY <1>3 DEF TypeInv
    <3>2. Cmd("DE_ALLOC", Event) \in Commands
      BY DEF Cmd, Commands, Names
    <3>3. <<Cmd("DE_ALLOC", Event)>> \in Seq(Commands)
      BY <3>2
    <3> QED  BY <1>2, <3>1, <3>3
  <2>2. pm' \in [Chan -> PmStates] /\ ring' \in [Chan -> 0 .. last] /\ freed' \subseteq 0 .. last
    <3>1. pm' \in [Chan -> PmStates]
      BY <1>1, <1>5 DEF PmStates
    <3>2. ring' \in [Chan -> 0 .. last]
      <4>1. 0 \in 0 .. last
        BY <1>5
      <4> QED  BY <1>1, <1>5, <4>1
    <3>3. ring[arg] \in 0 .. last
      BY <1>4, <1>5
    <3> QED  BY <1>1, <1>5, <3>1, <3>2, <3>3
  <2>3. gpm' \in {"DISABLE", "PREPARE_HARDWARE", "ACTIVE", "PREPARE_TERMINATE"}
    BY <1>2, <1>3 DEF TypeInv
  <2>4. op' \in {"free_events", "free_ring", "done"}
    BY <1>2
  <2> QED  BY <1>1, <1>3, <2>1, <2>2, <2>3, <2>4 DEF TypeInv
<1>8. RingInv'
  <2>1. ASSUME NEW ch \in Chan
        PROVE /\ hwRing'[ch] = ring'[1 - ch] => hwRing'[ch] = 0
              /\ ring'[ch] \in freed' => ring'[ch] = 0
              /\ pm'[ch] \in {"CONFIG", "ACTIVE"} => ring'[ch] # 0
    <3>1. /\ hwRing[ch] = ring[1 - ch] => hwRing[ch] = 0
          /\ ring[ch] \in freed => ring[ch] = 0
          /\ pm[ch] \in {"CONFIG", "ACTIVE"} => ring[ch] # 0
      BY <1>3 DEF RingInv
    <3>2. ring[0] = ring[1] => ring[0] = 0
      BY <1>3 DEF RingInv
    <3>3. CASE ch = arg
      BY <1>1, <1>6, <3>1, <3>3
    <3>4. CASE ch = 1 - arg
      <4>1. 1 - ch = arg
        BY <1>4, <3>4 DEF Chan
      <4>2. ring[ch] = ring[arg] => ring[ch] = 0
        BY <1>4, <3>2, <3>4 DEF Chan
      <4> QED  BY <1>1, <1>6, <3>1, <3>4, <4>1, <4>2
    <3> QED  BY <1>6, <3>3, <3>4
  <2>2. ring'[0] = ring'[1] => ring'[0] = 0
    BY <1>4, <1>6 DEF Chan
  <2> QED  BY <2>1, <2>2 DEF RingInv
<1>9. CallInv' /\ SetUpInv'
  <2>1. op' \in {"free_events", "free_ring", "done"} /\ (op' # "free_events" => todo' = << >>)
    BY <1>2, <1>4
  <2>2. op' = "free_events" => \A i \in 1 .. Len(todo') : todo'[i].ch = Event
    <3>1. op' = "free_events" => todo' = <<Cmd("DE_ALLOC", Event)>>
      BY <1>2
    <3>2. Cmd("DE_ALLOC", Event).ch = Event
      BY DEF Cmd
    <3> SUFFICES ASSUME op' = "free_events", NEW i \in 1 .. Len(todo')  PROVE todo'[i].ch = Event
      OBVIOUS
    <3>3. todo' = <<Cmd("DE_ALLOC", Event)>>
      BY <3>1
    <3>4. i = 1 /\ todo'[1] = Cmd("DE_ALLOC", Event)
      BY <3>3
    <3> QED  BY <3>2, <3>4
  <2>3. /\ at' = "tx_released" => arg' = 0
        /\ at' = "rx_released" => arg' = 1
    BY <1>1, <1>3 DEF CallInv
  <2> QED  BY <1>1, <1>4, <2>1, <2>2, <2>3
        DEF CallInv, SetUpInv, Idle, Resting, Requesting, Releasing, Terminating
<1>10. HoldingsInv'
  <2> SUFFICES ASSUME "set_up" \notin mishaps  PROVE HoldingsInv'
    BY <1>1 DEF HoldingsInv
  <2>1. freed = (1 .. last) \ {ring[0], ring[1]}
    BY <1>3 DEF HoldingsInv
  <2>2. freed' = (1 .. last') \ {ring'[0], ring'[1]}
    <3>1. ring[arg] # 0
      BY <1>1, <1>3, <1>4 DEF HoldingsInv, CallInv, Releasing, InUse, TxGoes
    <3>2. freed = (1 .. last) \ {ring[arg], ring[1 - arg]} /\ ring[arg] \in 1 .. last
      BY <1>4, <1>5, <2>1, <3>1 DEF Chan
    <3>3. ring[arg] # ring[1 - arg]
      BY <1>3, <1>4, <3>1 DEF RingInv, Chan
    <3>4. {ring'[0], ring'[1]} = {0, ring[1 - arg]}
      BY <1>4, <1>6 DEF Chan
    <3>5. freed' = (1 .. last) \ {0, ring[1 - arg]}
      BY <1>1, <1>5, <3>2, <3>3
    <3> QED  BY <1>1, <3>4, <3>5
  <2>3. CASE at = "rx_released"
    <3>1. InUse /\ arg = 1
      BY <1>1, <1>3, <2>3 DEF HoldingsInv, CallInv
    <3>2. op' = "done" /\ gpm' = gpm
      BY <1>2, <3>1 DEF InUse
    <3>3. RxGone'
      BY <1>1, <1>6, <3>1, <3>2 DEF InUse, RxGone, Chan
    <3> QED  BY <1>1, <2>2, <2>3, <3>2, <3>3 DEF HoldingsInv, Terminating
  <2>4. CASE at = "tx_released"
    <3>1. TxGoes /\ arg = 0
      BY <1>1, <1>3, <2>4 DEF HoldingsInv, CallInv
    <3>2. op' \in {"free_events", "free_ring"} /\ (op' = "free_ring" => gpm # "ACTIVE")
      BY <1>2, <3>1 DEF TxGoes
    <3>3. TxGone'
      BY <1>1, <1>6, <3>1, <3>2 DEF TxGoes, TxGone
    <3> QED  BY <1>1, <2>2, <2>4, <3>2, <3>3 DEF HoldingsInv, Terminating
  <2> QED  BY <1>4, <2>3, <2>4 DEF Releasing
<1>11. StepInv'
  <2> SUFFICES ASSUME "answer" \notin mishaps
               PROVE  InStep' /\ TerminateInv' /\ RunsInv' /\ op' # "undo"
    BY <1>1 DEF StepInv
  <2>1. RunsInv /\ InStep
    BY DEF IInv, StepInv
  <2>2. op' \in {"free_events", "free_ring", "done"}
    BY <1>2
  <2>3. InStep' /\ TerminateInv'
    BY <1>1, <1>4, <2>1, <2>2 DEF InStep, TerminateInv
  <2>4. \A x \in Chan : (hw[x] = "STARTED" /\ hwRing[x] = ring[x]) => pm[x] = "ACTIVE"
    BY <1>1, AtRest
  <2>5. ASSUME NEW x \in Chan
        PROVE  /\ pm'[x] = "ACTIVE" => hw'[x] = "STARTED" /\ hwRing'[x] = ring'[x]
               /\ (hw'[x] = "STARTED" /\ hwRing'[x] = ring'[x]) => pm'[x] = "ACTIVE"
               /\ hw'[x] = "STARTED" => hwRing'[x] \notin freed' /\ hwRing'[x] # 0
    <3>1. /\ pm[x] = "ACTIVE" => hw[x] = "STARTED" /\ hwRing[x] = ring[x]
          /\ (hw[x] = "STARTED" /\ hwRing[x] = ring[x]) => pm[x] = "ACTIVE"
          /\ hw[x] = "STARTED" => hwRing[x] \notin freed /\ hwRing[x] # 0
      BY <2>1, <2>4 DEF RunsInv
    <3>2. hwRing[x] = ring[1 - x] => hwRing[x] = 0
      BY <1>3 DEF RingInv
    <3>3. CASE x = arg
      BY <1>1, <1>4, <1>6, <3>1, <3>3
    <3>4. CASE x = 1 - arg
      <4>1. 1 - x = arg
        BY <1>4, <3>4 DEF Chan
      <4> QED  BY <1>1, <1>6, <3>1, <3>2, <3>4, <4>1
    <3> QED  BY <1>6, <3>3, <3>4
  <2> QED  BY <2>2, <2>3, <2>5 DEF RunsInv
<1> QED  BY <1>7, <1>8, <1>9, <1>10, <1>11 DEF IInv, SoftInv

LEMMA FreesEventsKeeps == ASSUME IInv, FreesEvents  PROVE IInv'
<1>1. /\ op \in {"free_events", "free_ring"} /\ Idle /\ op' = "done" /\ evRing' = FALSE
      /\ irq' = (irq /\ op = "free_ring") /\ gpm' = "DISABLE"
      /\ UNCHANGED <<client, arg, todo, sent, gchan, evState, hardware, memory, faults, mishaps>>
  BY DEF FreesEvents
<1>2. TypeInv /\ RingInv /\ CallInv /\ SetUpInv /\ HoldingsInv
  BY DEF IInv, SoftInv
<1>3. at \in Releasing
  BY <1>1, <1>2 DEF CallInv, TypeInv
<1>4. TypeInv' /\ RingInv'
  <2>1. irq' \in BOOLEAN
    BY <1>1
  <2> QED  BY <1>1, <1>2, <2>1 DEF TypeInv, RingInv
<1>5. CallInv' /\ SetUpInv'
  BY <1>1, <1>2, <1>3
     DEF CallInv, SetUpInv, Idle, Resting, Requesting, Releasing, Terminating
<1>6. HoldingsInv'
  <2> SUFFICES ASSUME "set_up" \notin mishaps  PROVE HoldingsInv'
    BY <1>1 DEF HoldingsInv
  <2>1. at = "tx_released" /\ TxGone /\ freed = (1 .. last) \ {ring[0], ring[1]}
    BY <1>1, <1>2, <1>3 DEF HoldingsInv, Releasing
  <2>2. Nothing'
    BY <1>1, <2>1 DEF TxGone, Nothing
  <2> QED  BY <1>1, <2>1, <2>2 DEF HoldingsInv, Terminating
<1>7. StepInv'
  BY <1>1 DEF IInv, StepInv, InStep, TerminateInv, RunsInv, StopAhead
<1> QED  BY <1>4, <1>5, <1>6, <1>7 DEF IInv, SoftInv

LEMMA ReturnsKeeps == ASSUME IInv, Returns  PROVE IInv'
<1>1. /\ op \in {"done", "failed"} /\ op' = "none"
      /\ at' = IF op = "done" THEN AfterDone[at]
               ELSE IF at = "tx_requested" THEN "none" ELSE "rx_refused"
      /\ UNCHANGED <<requests, arg, todo, sent, gchan, gpii, hardware, memory, faults, mishaps>>
  BY DEF Returns
<1>2. TypeInv /\ RingInv /\ CallInv /\ SetUpInv /\ HoldingsInv
  BY DEF IInv, SoftInv
<1>3. \/ at = "tx_requested" /\ op = "done" /\ at' = "tx"
      \/ at = "rx_requested" /\ op = "done" /\ at' = "both"
      \/ at = "rx_released" /\ op = "done" /\ at' = "rx_gone"
      \/ at = "tx_released" /\ op = "done" /\ at' = "none"
      \/ at = "tx_terminated" /\ op = "done" /\ at' = "tx_idle"
      \/ at = "rx_terminated" /\ op = "done" /\ at' = "both"
      \/ at = "tx_requested" /\ op = "failed" /\ at' = "none"
      \/ at = "rx_requested" /\ op = "failed" /\ at' = "rx_refused"
  BY <1>1, <1>2 DEF CallInv, TypeInv, AfterDone, Requesting, Releasing, Terminating
<1>4. TypeInv'
  BY <1>1, <1>2, <1>3 DEF TypeInv, Resting
<1>5. RingInv'
  BY <1>1, <1>2 DEF RingInv
<1>6. CallInv' /\ SetUpInv'
  BY <1>1, <1>2, <1>3
     DEF CallInv, SetUpInv, Idle, Resting, Requesting, Releasing, Terminating
<1>7. HoldingsInv'
  <2> SUFFICES ASSUME "set_up" \notin mishaps  PROVE HoldingsInv'
    BY <1>1 DEF HoldingsInv
  <2>1. freed = (1 .. last) \ {ring[0], ring[1]}
    BY <1>2 DEF HoldingsInv
  <2>2. /\ at' \in {"tx", "rx_refused"} => TxOnly
        /\ at' \in {"both", "tx_idle"} => InUse
        /\ at' = "rx_gone" => RxGone
        /\ at' = "none" => Nothing
    BY <1>2, <1>3 DEF HoldingsInv, Terminating
  <2>3. (TxOnly' <=> TxOnly) /\ (InUse' <=> InUse) /\ (RxGone' <=> RxGone) /\ (Nothing' <=> Nothing)
    BY <1>1 DEF TxOnly, InUse, RxGone, Nothing
  <2> QED  BY <1>1, <1>3, <2>1, <2>2, <2>3 DEF HoldingsInv, Terminating
<1>8. StepInv'
  BY <1>1 DEF IInv, StepInv, InStep, TerminateInv, RunsInv, StopAhead
<1> QED  BY <1>4, <1>5, <1>6, <1>7, <1>8 DEF IInv, SoftInv

-----------------------------------------------------------------------------
(* The invariant, and what it says of the channels.                        *)

LEMMA CallsKeep == ASSUME IInv, Calls  PROVE IInv'
<1> USE DEF Starts, Follows
<1>1. 0 \in Chan /\ 1 \in Chan
  BY DEF Chan
<1>2. CASE Grabs
  BY <1>1, <1>2, RequestKeeps DEF Grabs
<1>3. CASE GrabsRx
  BY <1>1, <1>3, RequestKeeps DEF GrabsRx
<1>4. CASE GivesUp
  BY <1>1, <1>4, ReleaseKeeps DEF GivesUp
<1>5. CASE Drops
  BY <1>1, <1>5, ReleaseKeeps DEF Drops
<1>6. CASE DropsTx
  BY <1>1, <1>6, ReleaseKeeps DEF DropsTx
<1>7. CASE TimesOut
  BY <1>1, <1>7, TerminateKeeps DEF TimesOut
<1>8. CASE TimesOutRx
  BY <1>1, <1>8, TerminateKeeps DEF TimesOutRx
<1> QED  BY <1>2, <1>3, <1>4, <1>5, <1>6, <1>7, <1>8 DEF Calls

LEMMA NextKeeps == ASSUME IInv, [Next]_vars  PROVE IInv'
<1>1. CASE Next
  BY <1>1, CallsKeep, SendKeeps, AnsweredKeeps, UnansweredKeeps, SetUpEndsKeeps,
     TerminateEndsKeeps, FreesKeeps, FreesEventsKeeps, ReturnsKeeps, HwExecutesKeeps,
     InterruptKeeps, Zenon DEF Next, Runs
<1>2. CASE UNCHANGED vars
  <2>1. TypeInv' /\ RingInv' /\ CallInv'
    BY <1>2 DEF vars, IInv, SoftInv, TypeInv, RingInv, CallInv, Idle
  <2>2. SetUpInv' /\ HoldingsInv'
    BY <1>2 DEF vars, IInv, SoftInv, SetUpInv, Works, Sent, Done, HoldingsInv,
                Nothing, TxOnly, InUse, RxGone, TxGoes, TxGone
  <2>3. StepInv'
    BY <1>2 DEF vars, IInv, StepInv, InStep, TerminateInv, RunsInv, StopAhead, Works, Sent, Done,
                After
  <2> QED  BY <2>1, <2>2, <2>3 DEF IInv, SoftInv
<1> QED  BY <1>1, <1>2

(* The driver's book of its channels, and while every command is answered  *)
(* its agreement with the hardware, for any number of calls, late commands *)
(* and faults.                                                             *)
THEOREM Invariant == Spec => []IInv
<1> QED  BY InitHolds, NextKeeps, PTL DEF Spec

LEMMA EventsServed ==
  ASSUME IInv, NEW ch \in Chan, pm[ch] = "ACTIVE", "set_up" \notin mishaps
  PROVE  evRing /\ irq /\ gpm = "ACTIVE"
<1>1. TypeInv /\ CallInv /\ SetUpInv /\ HoldingsInv
  BY DEF IInv, SoftInv
<1>2. CASE op = "set_up"
  <2>1. evRing /\ irq /\ Done(SetUp) >= 4 + ch
    BY <1>1, <1>2 DEF SetUpInv
  <2>2. Done(SetUp) \in Int
    BY <1>1, <1>2, ListFacts, WhereItIs DEF SetUpInv
  <2>3. gpm = "ACTIVE"
    BY <1>1, <1>2, <2>1, <2>2 DEF SetUpInv, Chan
  <2> QED  BY <2>1, <2>3
<1>3. CASE op # "set_up"
  <2>1. ~Nothing /\ ~TxOnly /\ ~TxGoes /\ ~TxGone
    BY DEF Nothing, TxOnly, TxGoes, TxGone, Chan
  <2>2. InUse \/ RxGone
    BY <1>1, <1>3, <2>1
       DEF HoldingsInv, CallInv, TypeInv, Resting, Requesting, Releasing, Terminating
  <2> QED  BY <2>2 DEF InUse, RxGone
<1> QED  BY <1>2, <1>3

(* "ACTIVE_STATE: channels are fully operational": as long as no command   *)
(* has been left without an answer, the hardware runs the channel from the *)
(* ring that gpi_alloc_chan or gpi_terminate_all gave it; and whether or   *)
(* not, its events are served unless a set-up has failed.  The first half  *)
(* is false with unanswered commands when three or more of them can still  *)
(* be on their way: a late STOP then undoes a newer START.                 *)
THEOREM ActiveRuns ==
  Spec => []( /\ "answer" \notin mishaps => ActiveIsOperational
              /\ "set_up" \notin mishaps =>
                   \A ch \in Chan : pm[ch] = "ACTIVE" => evRing /\ irq /\ gpm = "ACTIVE")
<1>1. ASSUME IInv, "answer" \notin mishaps, NEW ch \in Chan, pm[ch] = "ACTIVE"
      PROVE  hw[ch] = "STARTED" /\ hwRing[ch] = ring[ch] /\ ring[ch] # 0
  BY <1>1 DEF IInv, SoftInv, StepInv, RunsInv, RingInv
<1>2. ASSUME IInv, "answer" \notin mishaps  PROVE ActiveIsOperational
  BY <1>1, <1>2, EventsServed DEF ActiveIsOperational
<1>3. IInv => /\ "answer" \notin mishaps => ActiveIsOperational
              /\ "set_up" \notin mishaps =>
                   \A ch \in Chan : pm[ch] = "ACTIVE" => evRing /\ irq /\ gpm = "ACTIVE"
  BY <1>2, EventsServed
<1> QED  BY <1>3, Invariant, PTL

(* gpi_free_ring never frees the memory of a ring that the hardware still  *)
(* runs: a channel is stopped and reset before its ring goes, unless the   *)
(* hardware has left a command unanswered.                                 *)
THEOREM FreedRingsAreNotRun == Spec => []NoFreedRing
<1>1. IInv => NoFreedRing
  BY DEF IInv, StepInv, RunsInv, NoFreedRing
<1> QED  BY <1>1, Invariant, PTL

-----------------------------------------------------------------------------
(* After set-ups that failed half-way.  The RX ring stays when the set-up  *)
(* of an RX request fails, and then every later set-up is made good or     *)
(* fails again; but a client that has both channels has them served, and   *)
(* gives everything back.                                                  *)

Serving == evRing /\ irq /\ gpm = "ACTIVE"
NoEvents == ~evRing /\ ~irq /\ gpm = "DISABLE"

LeftInv ==
  /\ op \in {"set_up", "undo"} => ring[1] # 0
  /\ (at \in {"none", "tx_requested"} /\ ring[1] = 0) => pm[1] = "DISABLE"
  /\ (at = "none" /\ ring[1] = 0) => Nothing
  /\ (at = "tx_requested" /\ ring[1] = 0) =>
       \/ op = "done" /\ TxOnly
       \/ op = "failed" /\ Nothing
  /\ (at = "tx_requested" /\ op = "done") => (pm[0] = "CONFIG" \/ Serving)
  /\ at = "tx" => (pm[0] = "CONFIG" \/ Serving)
  /\ (at = "tx" /\ ring[1] = 0) => TxOnly
  /\ (at = "rx_requested" /\ op = "failed" /\ ring[1] = 0) => TxOnly
  /\ (at = "rx_requested" /\ op = "done") => Serving
  /\ (at = "rx_refused" /\ ring[1] = 0) => TxOnly
  /\ at \in {"both", "tx_idle"} \cup Terminating => Serving
  /\ at = "rx_released" => (op \in {"free", "done"} /\ Serving /\ ring[0] # 0)
  /\ (at = "rx_released" /\ op = "done") => (ring[1] = 0 /\ pm[1] = "DISABLE")
  /\ at = "rx_gone" => (Serving /\ ring[0] # 0 /\ ring[1] = 0 /\ pm[1] = "DISABLE")
  /\ (at = "tx_released" /\ op = "free" /\ ring[1] = 0) =>
       (pm[1] = "DISABLE" /\ (Serving \/ NoEvents))
  /\ (at = "tx_released" /\ op \in {"free_events", "free_ring"}) => TxGone
  /\ (at = "tx_released" /\ op = "done" /\ ring[1] = 0) => Nothing

LEMMA SetUpServes ==
  ASSUME IInv, op = "set_up", Idle
  PROVE  Serving
<1>1. TypeInv /\ SetUpInv
  BY DEF IInv, SoftInv
<1>2. Len(todo) = 0 /\ waiting = NoCmd
  BY DEF Idle
<1>3. Done(SetUp) = 5
  BY <1>2, ListFacts DEF Done, Sent
<1> QED  BY <1>1, <1>3 DEF SetUpInv, Serving

(* A request allocates a ring, and sets the events up when it finds both   *)
(* channels configured.                                                    *)
LEMMA LeftRequest ==
  ASSUME IInv, LeftInv, NEW ch \in Chan, Request(ch),
         ch = 0 => at = "none" /\ at' = "tx_requested",
         ch = 1 => at = "tx" /\ at' = "rx_requested"
  PROVE  LeftInv'
<1>1. TypeInv /\ CallInv /\ ring \in [Chan -> 0 .. last] /\ pm \in [Chan -> PmStates] /\ last \in Nat
  BY DEF IInv, SoftInv, TypeInv
<1>2. CASE RequestRefused(ch)
  <2>1. op' = "failed" /\ UNCHANGED <<ring, pm, evRing, irq, gpm>>
    BY <1>2 DEF RequestRefused
  <2> QED  BY <2>1 DEF LeftInv, Nothing, TxOnly, Chan, Terminating
<1>3. CASE RequestTaken(ch)
  <2>1. /\ ring' = [ring EXCEPT ![ch] = last + 1] /\ pm' = [pm EXCEPT ![ch] = "CONFIG"]
    BY <1>3 DEF RequestTaken, AllocatesRing
  <2>2. /\ ring'[ch] = last + 1 /\ ring'[1 - ch] = ring[1 - ch] /\ ring'[ch] # 0
        /\ pm'[ch] = "CONFIG" /\ pm'[1 - ch] = pm[1 - ch]
    BY <1>1, <2>1 DEF Chan
  <2>3. \/ pm[1 - ch] # "CONFIG" /\ op' = "done" /\ UNCHANGED <<gpm, evRing, irq>>
        \/ pm[1 - ch] = "CONFIG" /\ op' \in {"set_up", "failed"}
    BY <1>3 DEF RequestTaken, BothConfigured
  <2>4. CASE ch = 0
    <3>1. pm'[0] = "CONFIG" /\ pm'[1] = pm[1] /\ ring'[1] = ring[1] /\ ring'[0] # 0
      BY <2>2, <2>4
    <3>2. ring[1] = 0 => (Nothing /\ op' = "done" /\ UNCHANGED <<gpm, evRing, irq>>)
      BY <2>3, <2>4 DEF LeftInv, Nothing
    <3>3. op' \in {"set_up", "failed", "done"}
      BY <2>3
    <3>4. ring'[1] = 0 => (op' = "done" /\ TxOnly' /\ pm'[1] = "DISABLE")
      BY <3>1, <3>2 DEF Nothing, TxOnly
    <3> QED  BY <2>4, <3>1, <3>2, <3>3, <3>4 DEF LeftInv, Terminating
  <2>5. CASE ch = 1
    <3>1. pm[0] = "CONFIG" \/ Serving
      BY <2>2, <2>5 DEF LeftInv
    <3>2. op' = "done" => Serving'
      BY <2>3, <2>5, <3>1 DEF LeftInv, Serving
    <3>3. ring'[1] # 0 /\ op' \in {"set_up", "failed", "done"}
      BY <2>2, <2>3, <2>5
    <3> QED  BY <2>5, <3>2, <3>3 DEF LeftInv, Terminating
  <2> QED  BY <2>4, <2>5 DEF Chan
<1> QED  BY <1>2, <1>3 DEF Request

LEMMA LeftRelease ==
  ASSUME IInv, LeftInv, NEW ch \in Chan, Release(ch),
         ch = 0 => at \in {"rx_refused", "rx_gone"} /\ at' = "tx_released",
         ch = 1 => at = "both" /\ at' = "rx_released"
  PROVE  LeftInv'
<1>1. /\ op' = "free" /\ pm' = [pm EXCEPT ![ch] = "PREPARE_TERMINATE"]
      /\ UNCHANGED <<ring, evRing, irq, gpm>>
  BY DEF Release
<1>2. pm \in [Chan -> PmStates] /\ CallInv
  BY DEF IInv, SoftInv, TypeInv
<1>3. CASE ch = 0
  <2>1. pm'[1] = pm[1]
    BY <1>1, <1>2, <1>3 DEF Chan
  <2>2. ring[1] = 0 => (pm[1] = "DISABLE" /\ (Serving \/ NoEvents))
    BY <1>3 DEF LeftInv, TxOnly, NoEvents
  <2> QED  BY <1>1, <1>3, <2>1, <2>2 DEF LeftInv, Serving, NoEvents, Terminating
<1>4. CASE ch = 1
  <2>1. Serving /\ ring[0] # 0
    BY <1>2, <1>4 DEF LeftInv, CallInv
  <2> QED  BY <1>1, <1>4, <2>1 DEF LeftInv, Serving, Terminating
<1> QED  BY <1>3, <1>4 DEF Chan

LEMMA LeftFrees ==
  ASSUME IInv, LeftInv, Frees
  PROVE  LeftInv'
<1>1. /\ ring \in [Chan -> 0 .. last] /\ pm \in [Chan -> PmStates] /\ CallInv /\ arg \in Chan
      /\ at \in Resting \cup Requesting \cup Releasing \cup Terminating
  BY DEF IInv, SoftInv, TypeInv
<1>2. /\ op = "free" /\ ring' = [ring EXCEPT ![arg] = 0] /\ pm' = [pm EXCEPT ![arg] = "DISABLE"]
      /\ UNCHANGED <<at, evRing, irq>>
  BY DEF Frees, FreesRing
<1>3. at \in Releasing
  BY <1>1, <1>2 DEF CallInv, Resting, Requesting, Releasing, Terminating
<1>4. CASE at = "rx_released"
  <2>1. arg = 1 /\ ring[0] # 0 /\ Serving
    BY <1>1, <1>4 DEF CallInv, LeftInv
  <2>2. op' = "done" /\ UNCHANGED gpm
    BY <2>1 DEF Frees, LastRing
  <2>3. ring'[1] = 0 /\ ring'[0] # 0 /\ pm'[1] = "DISABLE"
    BY <1>1, <1>2, <2>1 DEF Chan
  <2> QED  BY <1>2, <1>4, <2>1, <2>2, <2>3 DEF LeftInv, Serving, Terminating
<1>5. CASE at = "tx_released"
  <2>1. arg = 0
    BY <1>1, <1>5 DEF CallInv
  <2>2. ring'[0] = 0 /\ ring'[1] = ring[1] /\ pm'[0] = "DISABLE" /\ pm'[1] = pm[1]
    BY <1>1, <1>2, <2>1 DEF Chan
  <2>3. CASE ring[1] # 0
    <3>1. op' = "done"
      BY <2>1, <2>3 DEF Frees, LastRing
    <3> QED  BY <1>2, <1>5, <2>2, <2>3, <3>1 DEF LeftInv, Terminating
  <2>4. CASE ring[1] = 0
    <3>1. pm[1] = "DISABLE" /\ (Serving \/ NoEvents)
      BY <1>2, <1>5, <2>4 DEF LeftInv
    <3>2. op' = IF gpm = "ACTIVE" THEN "free_events" ELSE "free_ring"
      BY <2>1, <2>4 DEF Frees, LastRing
    <3>3. TxGone' /\ op' \in {"free_events", "free_ring"}
      BY <1>2, <2>2, <2>4, <3>1, <3>2 DEF TxGone, Serving, NoEvents
    <3> QED  BY <1>2, <1>5, <3>3 DEF LeftInv, Terminating
  <2> QED  BY <2>3, <2>4
<1> QED  BY <1>3, <1>4, <1>5 DEF Releasing

(* What the commands of a call do to its channels and to the events.       *)
LEMMA LeftAnswered ==
  ASSUME IInv, LeftInv, Answered \/ Unanswered \/ Send \/ SetUpEnds
  PROVE  LeftInv'
<1>1. /\ CallInv /\ SetUpInv /\ waiting \in Commands \cup {NoCmd}
      /\ at \in Resting \cup Requesting \cup Releasing \cup Terminating
      /\ pm \in [Chan -> PmStates] /\ todo \in Seq(Commands)
  BY DEF IInv, SoftInv, TypeInv
<1>2. UNCHANGED <<at, ring>>
  BY DEF Answered, Unanswered, Send, SetUpEnds
<1>3. CASE SetUpEnds
  <2>1. /\ op \in {"set_up", "undo"} /\ Idle /\ UNCHANGED <<pm, gpm>> /\ ring[1] # 0
        /\ at \in Requesting
    BY <1>1, <1>3 DEF SetUpEnds, LeftInv, CallInv, Resting, Requesting, Releasing, Terminating
  <2>2. CASE op = "set_up"
    <3>1. Serving /\ op' = "done" /\ UNCHANGED <<irq, evRing>>
      BY <1>3, <2>1, <2>2, SetUpServes DEF SetUpEnds
    <3> QED  BY <1>2, <2>1, <3>1 DEF LeftInv, Serving, Requesting, Terminating
  <2>3. CASE op = "undo"
    <3>1. op' = "failed"
      BY <1>3, <2>3 DEF SetUpEnds
    <3> QED  BY <1>2, <2>1, <3>1 DEF LeftInv, Requesting, Terminating
  <2> QED  BY <2>1, <2>2, <2>3
<1>4. CASE op \in {"set_up", "undo"} /\ ~SetUpEnds
  <2>1. op' \in {"set_up", "undo"} /\ ring'[1] # 0 /\ at' \in Requesting
    BY <1>1, <1>2, <1>4 DEF Answered, Unanswered, Send, LeftInv, CallInv, Resting,
       Requesting, Releasing, Terminating
  <2> QED  BY <2>1 DEF LeftInv, Requesting, Terminating
<1>5. CASE op \notin {"set_up", "undo", "terminate"} /\ ~SetUpEnds
  <2>1. UNCHANGED <<op, pm, gpm, evRing, irq>>
    BY <1>5 DEF Answered, Unanswered, Send
  <2> QED  BY <1>2, <2>1 DEF LeftInv, Nothing, TxOnly, TxGone, Serving, NoEvents
<1>6. CASE op = "terminate" /\ ~SetUpEnds
  <2>1. at \in Terminating
    BY <1>1, <1>6 DEF CallInv, Resting, Requesting, Releasing, Terminating
  <2>2. op' = "terminate" /\ UNCHANGED <<evRing, irq>>
    BY <1>6 DEF Answered, Unanswered, Send
  <2>3. gpm = "ACTIVE"
    BY <2>1 DEF LeftInv, Serving
  <2>4. gpm' = "ACTIVE"
    BY <1>6, <2>3 DEF Answered, EventsActive, Unanswered, Send
  <2> QED  BY <1>2, <2>1, <2>2, <2>3, <2>4 DEF LeftInv, Serving, Terminating
<1> QED  BY <1>3, <1>4, <1>5, <1>6

LEMMA LeftReturns ==
  ASSUME IInv, LeftInv, Returns \/ TerminateEnds \/ FreesEvents \/ HwExecutes \/ Interrupt
                          \/ UNCHANGED vars
  PROVE  LeftInv'
<1>1. /\ CallInv /\ at \in Resting \cup Requesting \cup Releasing \cup Terminating
  BY DEF IInv, SoftInv, TypeInv
<1>2. CASE Returns
  <2>1. op \in {"done", "failed"} /\ op' = "none" /\ UNCHANGED <<ring, pm, evRing, irq, gpm>>
    BY <1>2 DEF Returns
  <2>2. /\ op = "failed" => at \in Requesting
        /\ at \in Requesting \cup Releasing \cup Terminating
    BY <1>1, <2>1 DEF CallInv, Resting, Requesting, Releasing, Terminating
  <2>3. CASE op = "failed"
    <3>1. \/ at = "tx_requested" /\ at' = "none"
          \/ at = "rx_requested" /\ at' = "rx_refused"
      BY <1>2, <2>2, <2>3 DEF Returns, Requesting
    <3> QED  BY <2>1, <2>3, <3>1 DEF LeftInv, Nothing, TxOnly, Terminating
  <2>4. CASE op = "done"
    <3>1. \/ at = "tx_requested" /\ at' = "tx"
          \/ at = "rx_requested" /\ at' = "both"
          \/ at = "rx_released" /\ at' = "rx_gone"
          \/ at = "tx_released" /\ at' = "none"
          \/ at = "tx_terminated" /\ at' = "tx_idle"
          \/ at = "rx_terminated" /\ at' = "both"
      BY <1>2, <2>2, <2>4 DEF Returns, AfterDone, Requesting, Releasing, Terminating
    <3> QED  BY <2>1, <2>4, <3>1 DEF LeftInv, Nothing, TxOnly, Serving, Terminating
  <2> QED  BY <2>1, <2>3, <2>4
<1>3. CASE TerminateEnds
  <2>1. op = "terminate" /\ op' = "done" /\ UNCHANGED <<at, ring, pm, evRing, irq, gpm>>
    BY <1>3 DEF TerminateEnds
  <2>2. at \in Terminating
    BY <1>1, <2>1 DEF CallInv, Resting, Requesting, Releasing, Terminating
  <2> QED  BY <2>1, <2>2 DEF LeftInv, Serving, Terminating
<1>4. CASE FreesEvents
  <2>1. /\ op \in {"free_events", "free_ring"} /\ op' = "done" /\ ~evRing' /\ gpm' = "DISABLE"
        /\ irq' = (irq /\ op = "free_ring") /\ UNCHANGED <<at, ring, pm>>
    BY <1>4 DEF FreesEvents
  <2>2. at = "tx_released" \/ at = "rx_released"
    BY <1>1, <2>1 DEF CallInv, Resting, Requesting, Releasing, Terminating
  <2>3. at # "rx_released"
    BY <2>1 DEF LeftInv
  <2>4. TxGone
    BY <2>1, <2>2, <2>3 DEF LeftInv
  <2> QED  BY <2>1, <2>2, <2>3, <2>4 DEF LeftInv, TxGone, Nothing, Terminating
<1>5. CASE HwExecutes \/ Interrupt \/ UNCHANGED vars
  <2>1. UNCHANGED <<at, op, ring, pm, evRing, irq, gpm>>
    BY <1>5 DEF HwExecutes, Interrupt, vars
  <2> QED  BY <2>1 DEF LeftInv, Nothing, TxOnly, TxGone, Serving, NoEvents
<1> QED  BY <1>2, <1>3, <1>4, <1>5

LEMMA LeftCalls ==
  ASSUME IInv, LeftInv, Calls
  PROVE  LeftInv'
<1> USE DEF Starts, Follows
<1>1. 0 \in Chan /\ 1 \in Chan
  BY DEF Chan
<1>2. CASE Grabs \/ GrabsRx
  BY <1>1, <1>2, LeftRequest DEF Grabs, GrabsRx
<1>3. CASE GivesUp \/ Drops \/ DropsTx
  BY <1>1, <1>3, LeftRelease DEF GivesUp, Drops, DropsTx
<1>4. CASE TimesOut \/ TimesOutRx
  <2>1. /\ at \in {"both", "tx_idle"} /\ at' \in Terminating /\ op' = "terminate"
        /\ UNCHANGED <<ring, pm, evRing, irq, gpm>>
    BY <1>4 DEF TimesOut, TimesOutRx, Terminate, Terminating
  <2> QED  BY <2>1 DEF LeftInv, Serving, Terminating
<1> QED  BY <1>2, <1>3, <1>4 DEF Calls

THEOREM WhatIsLeft == Spec => []LeftInv
<1>1. Init => LeftInv
  BY DEF Init, LeftInv, Nothing, Chan, Terminating
<1>2. IInv /\ LeftInv /\ [Next]_vars => LeftInv'
  BY LeftCalls, LeftFrees, LeftAnswered, LeftReturns, Zenon DEF Next, Runs
<1> QED  BY <1>1, <1>2, Invariant, PTL DEF Spec

(* What gpi_alloc_chan_resources takes gpi_free_chan_resources gives back, *)
(* whatever commands were left unanswered.  While no set-up has failed     *)
(* that is every ring that was ever allocated, the event ring and the      *)
(* interrupt; afterwards too neither a ring of the channels nor the event  *)
(* ring nor the interrupt is left, once the RX ring is given back: memory  *)
(* of earlier rings may be lost, but nothing that is used stays.           *)
THEOREM ReleasesEverything == Spec => []ReleasedIsClean
<1>1. ASSUME IInv, LeftInv  PROVE ReleasedIsClean
  <2>1. ring \in [Chan -> 0 .. last] /\ pm \in [Chan -> PmStates] /\ last \in Nat
    BY <1>1 DEF IInv, SoftInv, TypeInv
  <2>2. Nothing => /\ ring[0] = 0 /\ ~evRing /\ ~irq /\ gpm = "DISABLE"
                   /\ pm = [ch \in Chan |-> "DISABLE"]
    BY <2>1 DEF Nothing, Chan
  <2>3. ASSUME at = "none", "set_up" \notin mishaps
        PROVE  ring[1] = 0 /\ freed = 1 .. last
    <3>1. Nothing /\ freed = (1 .. last) \ {ring[0], ring[1]}
      BY <1>1, <2>3 DEF IInv, SoftInv, HoldingsInv
    <3> QED  BY <2>1, <3>1 DEF Nothing
  <2> QED  BY <1>1, <2>2, <2>3 DEF ReleasedIsClean, LeftInv
<1>2. IInv /\ LeftInv => ReleasedIsClean
  BY <1>1
<1> QED  BY <1>2, Invariant, WhatIsLeft, PTL
=============================================================================

----------------------------- MODULE GpiChannel -----------------------------
(***************************************************************************)
(* The life of the two channels of a GPII in gpi.c: what                   *)
(* gpi_alloc_chan_resources, gpi_terminate_all and gpi_free_chan_resources *)
(* do for their client, spi_geni_grab_gpi_chan, handle_gpi_timeout and     *)
(* spi_geni_release_dma_chan of spi-geni-qcom.c.  Each of them sends the   *)
(* hardware a list of commands under ctrl_lock and waits for each with a   *)
(* timeout.  The hardware works them off in order, late ones too, or loses *)
(* one; its interrupt says which channel changed, not which command is     *)
(* done.  Transfers, events and deferred completions are GpiQspi's.        *)
(***************************************************************************)
EXTENDS Integers, Sequences, FiniteSets

CONSTANTS
  MaxRequests,   (* bounds: calls of the client, commands in the hardware, *)
  MaxLate,
  MaxFaults      (* allocations that fail and commands that are lost       *)

ASSUME BoundAssumption == MaxRequests \in Nat /\ MaxLate \in Nat /\ MaxFaults \in Nat

Chan  == {0, 1}   \* GPI_TX_CHAN, GPI_RX_CHAN
Event == 2        \* the event ring, where a channel is meant otherwise

VARIABLES
  at, requests,        (* the client: where, and calls so far              *)
  op, arg, todo,       (* the call: which, its channel, commands to send   *)
  waiting, completed,  (* gpi_send_cmd: gpi_cmd, cmd_completion            *)
  gpi_cmd,
  pm, state, ring,     (* gchan[]: pm_state, ch_state, ch_ring (0: none)   *)
  gpm, evState,        (* gpii: pm_state, ev_state                         *)
  evRing, irq,         (* ev_ring.configured, configured_irq               *)
  hwq, hw, hwRing,     (* hardware: commands, states, rings it is given    *)
  pending,             (* interrupts of channels                           *)
  last, freed,         (* rings: the last one allocated, those freed       *)
  faults, mishaps      (* so far; what went wrong: a set-up, an answer     *)

client == <<at, requests>>
call   == <<op, arg, todo>>
sent   == <<waiting, completed, gpi_cmd>>
gchan  == <<pm, state>>
gpii   == <<gpm, evState, evRing, irq>>
hardware == <<hwq, hw, hwRing, pending>>
memory == <<ring, last, freed>>
vars == <<client, call, sent, gchan, gpii, hardware, memory, faults, mishaps>>

Cmd(name, ch) == [name |-> name, ch |-> ch]
NoCmd == Cmd("none", 0)

(* gpi_cmd_info: the state each command leads to.                          *)
StateAfter == [ALLOCATE |-> "ALLOCATED", START |-> "STARTED", STOP |-> "STOPPED",
               RESET |-> "ALLOCATED", DE_ALLOC |-> "NOT_ALLOCATED"]

Init ==
  /\ at = "none" /\ requests = 0
  /\ op = "none" /\ arg = 0 /\ todo = << >>
  /\ waiting = NoCmd /\ completed = FALSE /\ gpi_cmd = NoCmd
  /\ pm = [ch \in Chan |-> "DISABLE"] /\ state = [ch \in Chan |-> "NOT_ALLOCATED"]
  /\ gpm = "DISABLE" /\ evState = "NOT_ALLOCATED" /\ evRing = FALSE /\ irq = FALSE
  /\ hwq = << >> /\ hw = [x \in Chan \cup {Event} |-> "NOT_ALLOCATED"]
  /\ hwRing = [ch \in Chan |-> 0] /\ pending = {}
  /\ ring = [ch \in Chan |-> 0] /\ last = 0 /\ freed = {}
  /\ faults = 0 /\ mishaps = {}

-----------------------------------------------------------------------------
(* The hardware.                                                           *)

(* Which commands a state allows; the others are ignored.  DE_ALLOC does   *)
(* not change the status.                                                  *)
Allowed(c) ==
  LET s == hw[c.ch] IN
  CASE c.name = "ALLOCATE" -> s \in {"NOT_ALLOCATED", "ALLOCATED"}
    [] c.name = "START"    -> s \in {"ALLOCATED", "STOPPED"}
    [] c.name = "STOP"     -> s \in {"STARTED", "STOP_IN_PROC"}
    [] c.name = "RESET"    -> s \in {"ALLOCATED", "STOPPED"}
    [] c.name = "DE_ALLOC" -> s = "ALLOCATED"

(* A stop may be reported twice: in process, and done.                     *)
HwExecutes ==
  /\ hwq # << >>
  /\ LET c == Head(hwq) IN
     IF ~Allowed(c) THEN hwq' = Tail(hwq) /\ UNCHANGED <<hw, pending>>
     ELSE /\ \/ /\ hwq' = Tail(hwq)
                /\ hw' = [hw EXCEPT ![c.ch] = IF c.name = "DE_ALLOC" THEN @
                                              ELSE StateAfter[c.name]]
             \/ /\ c.name = "STOP" /\ hw[c.ch] = "STARTED"
                /\ hw' = [hw EXCEPT ![c.ch] = "STOP_IN_PROC"] /\ hwq' = hwq
          /\ pending' = pending \cup {c.ch}
  /\ UNCHANGED <<client, call, sent, gchan, gpii, hwRing, memory, faults, mishaps>>

-----------------------------------------------------------------------------
(* gpi_handle_irq with gpi_process_ch_ctrl_irq: the new states, whatever   *)
(* command they are of; a stop in process is not waited for.               *)

Dealloc(x) == gpi_cmd.name = "DE_ALLOC" /\ (gpi_cmd.ch = Event <=> x = Event)
StateRead(x) == IF Dealloc(x) THEN "NOT_ALLOCATED" ELSE hw[x]

Interrupt ==
  /\ irq /\ gpm \notin {"DISABLE", "CONFIG"} /\ pending # {}
  /\ pending' = {}
  /\ state' = [ch \in Chan |-> IF ch \in pending THEN StateRead(ch) ELSE state[ch]]
  /\ evState' = IF Event \in pending THEN StateRead(Event) ELSE evState
  /\ completed' = (completed \/ \E x \in pending : StateRead(x) # "STOP_IN_PROC")
  /\ UNCHANGED <<client, call, waiting, gpi_cmd, pm, gpm, evRing, irq, hwq, hw, hwRing,
                 memory, faults, mishaps>>

-----------------------------------------------------------------------------
(* gpi_send_cmd.                                                           *)

(* gpi_terminate_all marks a channel before it stops it.                   *)
Send ==
  /\ waiting = NoCmd /\ todo # << >>
  /\ LET c == Head(todo) IN
     /\ waiting' = c /\ gpi_cmd' = c /\ completed' = FALSE /\ todo' = Tail(todo)
     /\ \/ Len(hwq) < MaxLate /\ hwq' = Append(hwq, c) /\ UNCHANGED faults
        \/ faults < MaxFaults /\ faults' = faults + 1 /\ hwq' = hwq
        \/ Len(hwq) = MaxLate /\ UNCHANGED <<hwq, faults>>
     /\ pm' = IF op = "terminate" /\ c.name = "STOP"
                THEN [pm EXCEPT ![c.ch] = "PREPARE_TERMINATE"] ELSE pm
  /\ UNCHANGED <<client, op, arg, state, gpii, hw, hwRing, pending, memory, mishaps>>

(* Mutant: the state of the channel is not confirmed.                      *)
ConfirmedNot == completed

Confirmed ==
  /\ completed
  /\ StateAfter[waiting.name] = IF waiting.ch = Event THEN evState ELSE state[waiting.ch]

(* gpi_start_chan, gpi_alloc_ev_chan and gpi_alloc_chan after the command. *)
Started(c) == pm' = IF c.name = "START" THEN [pm EXCEPT ![c.ch] = "ACTIVE"] ELSE pm
EventsActive(c) == gpm' = IF c = Cmd("ALLOCATE", Event) THEN "ACTIVE" ELSE gpm

(* gpi_terminate_all writes the channel context again after a RESET.       *)
Programmed(c) ==
  hwRing' = IF c.ch # Event /\ (c.name = "ALLOCATE" \/ (op = "terminate" /\ c.name = "RESET"))
              THEN [hwRing EXCEPT ![c.ch] = ring[c.ch]] ELSE hwRing

(* The error labels of gpi_ch_init: what is sent to a channel beside STOP  *)
(* goes to the one of the call, as often as there are channels to undo.    *)
Undo(c) ==
  CASE c.ch = Event -> << >>
    [] c.ch # Event /\ c.name = "ALLOCATE" -> [i \in 1 .. c.ch |-> Cmd("DE_ALLOC", arg)]
    [] OTHER -> (IF c.ch = 1 THEN <<Cmd("STOP", 0), Cmd("RESET", arg)>> ELSE << >>)
                  \o <<Cmd("DE_ALLOC", arg), Cmd("DE_ALLOC", arg)>>

Lapsed == ~Confirmed

Idle == todo = << >> /\ waiting = NoCmd

(* The command is answered or has timed out.  A set-up is undone, a        *)
(* terminate ends at the first command that fails after the stops; a       *)
(* release and an undoing go on.                                           *)
Answered ==
  /\ waiting # NoCmd /\ Confirmed
  /\ waiting' = NoCmd
  /\ IF op \in {"set_up", "terminate"} THEN Started(waiting) /\ EventsActive(waiting) /\ Programmed(waiting)
     ELSE UNCHANGED <<pm, gpm, hwRing>>
  /\ UNCHANGED <<client, call, completed, gpi_cmd, state, evState, evRing, irq, hwq, hw,
                 pending, memory, faults, mishaps>>

Unanswered ==
  /\ waiting # NoCmd /\ Lapsed
  /\ waiting' = NoCmd
  /\ op' = IF op = "set_up" THEN "undo" ELSE op
  /\ todo' = CASE op = "set_up" -> Undo(waiting)
               [] op = "terminate" /\ waiting.name # "STOP" -> << >>
               [] OTHER -> todo
  /\ mishaps' = mishaps \cup {"answer"} \cup (IF op = "set_up" THEN {"set_up"} ELSE {})
  /\ UNCHANGED <<client, arg, completed, gpi_cmd, gchan, gpii, hardware, memory, faults>>

-----------------------------------------------------------------------------
(* gpi_alloc_chan_resources.                                               *)

(* Mutant: the other channel's client is not waited for.                   *)
BothConfiguredNot(ch) == TRUE

BothConfigured(ch) == pm[1 - ch] = "CONFIG"

SetUp == <<Cmd("ALLOCATE", Event), Cmd("ALLOCATE", 0), Cmd("ALLOCATE", 1),
           Cmd("START", 0), Cmd("START", 1)>>

(* No memory for the ring.                                                 *)
RequestRefused(ch) ==
  /\ faults < MaxFaults /\ faults' = faults + 1
  /\ op' = "failed"
  /\ UNCHANGED <<todo, gchan, gpii, memory, mishaps>>

(* gpi_alloc_ring and gpi_free_ring.                                       *)
AllocatesRing(ch) == last' = last + 1 /\ ring' = [ring EXCEPT ![ch] = last'] /\ freed' = freed
FreesRing(ch) == freed' = freed \cup {ring[ch]} /\ ring' = [ring EXCEPT ![ch] = 0] /\ last' = last

(* gpi_alloc_ring of the event ring and gpi_config_interrupts; either may  *)
(* fail, which frees the event ring again.                                 *)
PreparesEvents ==
  /\ evRing' = TRUE /\ irq' = TRUE /\ gpm' = "PREPARE_HARDWARE" /\ UNCHANGED <<faults, mishaps>>
PreparesNoEvents ==
  /\ faults < MaxFaults /\ faults' = faults + 1
  /\ mishaps' = mishaps \cup {"set_up"}
  /\ gpm' \in {gpm, "PREPARE_HARDWARE"} /\ UNCHANGED <<evRing, irq>>

(* The ring is allocated; with the other channel configured, gpi_ch_init   *)
(* prepares the events and sends the commands.                             *)
RequestTaken(ch) ==
  /\ AllocatesRing(ch)
  /\ pm' = [pm EXCEPT ![ch] = "CONFIG"] /\ UNCHANGED <<state, evState>>
  /\ \/ /\ ~BothConfigured(ch) /\ op' = "done"
        /\ UNCHANGED <<todo, gpm, evRing, irq, faults, mishaps>>
     \/ BothConfigured(ch) /\ op' = "set_up" /\ todo' = SetUp /\ PreparesEvents
     \/ BothConfigured(ch) /\ op' = "failed" /\ PreparesNoEvents /\ UNCHANGED todo

Request(ch) ==
  /\ op = "none" /\ arg' = ch
  /\ RequestRefused(ch) \/ RequestTaken(ch)
  /\ UNCHANGED <<sent, hardware>>

(* gpi_disable_interrupts and gpi_free_ring of the event ring.             *)
EventsGone == irq' = FALSE /\ evRing' = FALSE

SetUpEnds ==
  /\ op \in {"set_up", "undo"} /\ Idle
  /\ op' = IF op = "set_up" THEN "done" ELSE "failed"
  /\ IF op = "undo" THEN EventsGone ELSE UNCHANGED <<irq, evRing>>
  /\ UNCHANGED <<client, arg, todo, sent, gchan, gpm, evState, hardware, memory, faults,
                 mishaps>>

-----------------------------------------------------------------------------
(* gpi_terminate_all: both channels, in lockstep.                          *)

Restart == <<Cmd("STOP", 0), Cmd("STOP", 1), Cmd("RESET", 0), Cmd("RESET", 1),
             Cmd("START", 0), Cmd("START", 1)>>

Terminate(ch) ==
  /\ op = "none" /\ op' = "terminate" /\ arg' = ch /\ todo' = Restart
  /\ UNCHANGED <<sent, gchan, gpii, hardware, memory, faults, mishaps>>

TerminateEnds ==
  /\ op = "terminate" /\ Idle /\ op' = "done"
  /\ UNCHANGED <<client, arg, todo, sent, gchan, gpii, hardware, memory, faults, mishaps>>

-----------------------------------------------------------------------------
(* gpi_free_chan_resources.                                                *)

(* Mutant: an active channel is not shut down.                             *)
ShutDownNot(ch) == << >>

ShutDown(ch) ==
  IF pm[ch] = "ACTIVE" THEN <<Cmd("STOP", ch), Cmd("RESET", ch), Cmd("DE_ALLOC", ch)>>
  ELSE << >>

Release(ch) ==
  /\ op = "none" /\ op' = "free" /\ arg' = ch /\ todo' = ShutDown(ch)
  /\ pm' = [pm EXCEPT ![ch] = "PREPARE_TERMINATE"]
  /\ UNCHANGED <<sent, state, gpii, hardware, memory, faults, mishaps>>

LastRing == ring[1 - arg] = 0

(* The ring is freed; without another one the event ring goes too, by a    *)
(* command if the GPII was active.                                         *)
Frees ==
  /\ op = "free" /\ Idle
  /\ FreesRing(arg)
  /\ pm' = [pm EXCEPT ![arg] = "DISABLE"]
  /\ IF LastRing
       THEN /\ gpm' = "PREPARE_TERMINATE"
            /\ IF gpm = "ACTIVE" THEN op' = "free_events" /\ todo' = <<Cmd("DE_ALLOC", Event)>>
               ELSE op' = "free_ring" /\ todo' = todo
       ELSE op' = "done" /\ UNCHANGED <<gpm, todo>>
  /\ UNCHANGED <<client, arg, sent, state, evState, evRing, irq, hardware, faults, mishaps>>

FreesEvents ==
  /\ op \in {"free_events", "free_ring"} /\ Idle
  /\ op' = "done" /\ evRing' = FALSE
  /\ irq' = (irq /\ op = "free_ring") /\ gpm' = "DISABLE"
  /\ UNCHANGED <<client, arg, todo, sent, gchan, evState, hardware, memory, faults, mishaps>>

-----------------------------------------------------------------------------
(* The client: spi_geni_grab_gpi_chan takes TX, then RX, and gives TX back *)
(* when RX is refused; spi_geni_release_dma_chan gives back RX, then TX;   *)
(* handle_gpi_timeout terminates TX, then RX.                              *)

Starts(from, to) == at = from /\ at' = to /\ requests' = requests + 1
Follows(from, to) == at = from /\ at' = to /\ UNCHANGED requests

Grabs == /\ requests < MaxRequests /\ Starts("none", "tx_requested") /\ Request(0)
GrabsRx == Follows("tx", "rx_requested") /\ Request(1)
GivesUp == Follows("rx_refused", "tx_released") /\ Release(0)
Drops == /\ requests < MaxRequests /\ Starts("both", "rx_released") /\ Release(1)
DropsTx == Follows("rx_gone", "tx_released") /\ Release(0)
TimesOut == /\ requests < MaxRequests /\ Starts("both", "tx_terminated") /\ Terminate(0)
TimesOutRx == Follows("tx_idle", "rx_terminated") /\ Terminate(1)

AfterDone == [x \in {"tx_requested", "rx_requested", "rx_released", "tx_released",
                     "tx_terminated", "rx_terminated"} |->
  CASE x = "tx_requested" -> "tx" [] x = "rx_requested" -> "both"
    [] x = "rx_released" -> "rx_gone" [] x = "tx_released" -> "none"
    [] x = "tx_terminated" -> "tx_idle" [] x = "rx_terminated" -> "both"]

Returns ==
  /\ op \in {"done", "failed"} /\ op' = "none"
  /\ at' = IF op = "done" THEN AfterDone[at]
           ELSE IF at = "tx_requested" THEN "none" ELSE "rx_refused"
  /\ UNCHANGED <<requests, arg, todo, sent, gchan, gpii, hardware, memory, faults, mishaps>>

Calls == Grabs \/ GrabsRx \/ GivesUp \/ Drops \/ DropsTx \/ TimesOut \/ TimesOutRx
Runs == Send \/ Answered \/ Unanswered \/ SetUpEnds \/ TerminateEnds \/ Frees \/ FreesEvents
          \/ Returns

Next == Calls \/ Runs \/ HwExecutes \/ Interrupt

Spec == Init /\ [][Next]_vars

-----------------------------------------------------------------------------
(* "ACTIVE_STATE: channels are fully operational": the hardware runs the   *)
(* channel, from the ring the driver queues to; unless a set-up has failed *)
(* before, its events are served too, as the event ring is there and the   *)
(* interrupt requested.                                                    *)
(* With commands unanswered the first clause needs MaxLate <= 2: a STOP    *)
(* still on its way when the START after next is answered undoes it.       *)
ActiveIsOperational ==
  \A ch \in Chan : pm[ch] = "ACTIVE" =>
    /\ op = "none" /\ at = "both" =>
         hw[ch] = "STARTED" /\ hwRing[ch] = ring[ch] /\ ring[ch] # 0
    /\ "set_up" \notin mishaps => evRing /\ irq /\ gpm = "ACTIVE"

(* The hardware never runs a ring whose memory has been freed.             *)
NoFreedRing ==
  "answer" \notin mishaps => \A ch \in Chan : hw[ch] = "STARTED" => hwRing[ch] \notin freed

(* Between uses nothing is left, and what a set-up that failed half-way    *)
(* leaves behind the next use takes with it: while the RX ring is gone,    *)
(* so are the TX ring, the event ring and the interrupt.  Only the memory  *)
(* of a ring may then be lost.                                             *)
ReleasedIsClean ==
  at = "none" /\ op = "none" =>
     /\ ring[1] = 0 => /\ ring[0] = 0 /\ ~evRing /\ ~irq /\ gpm = "DISABLE"
                       /\ pm = [ch \in Chan |-> "DISABLE"]
     /\ "set_up" \notin mishaps => ring[1] = 0 /\ freed = 1 .. last
=============================================================================

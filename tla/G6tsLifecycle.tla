--------------------------- MODULE G6tsLifecycle ---------------------------
(***************************************************************************)
(* The life of the MSHW0485 touch client (mshw0485_touch.c): the hard      *)
(* interrupt that counts falling edges of GPIO51, the interrupt thread     *)
(* that drains HID-SPI responses, the delayed work that re-initializes the *)
(* panel, and the suspend, resume and remove callbacks.  They share one    *)
(* mutex, io_lock, and several flags that are also written without it.     *)
(*                                                                         *)
(* The panel is the environment: it queues packets, resets on its own,     *)
(* answers requests or stays silent.  A packet is one of Packets; what a   *)
(* packet says is abstracted to what the driver's control tells apart.     *)
(* interrupt_edges and handled_interrupt_edges are only ever compared, so  *)
(* edge_unseen stands for interrupt_edges > handled_interrupt_edges.       *)
(***************************************************************************)
EXTENDS Naturals, Sequences

CONSTANTS
  ResetRecoveryV2,     (* module parameter reset_recovery_v2               *)
  ResetStormBreaker,   (* module parameter reset_storm_breaker             *)
  HostFaultRecovery,   (* module parameter host_fault_recovery             *)
  ReadyQuiesce,        (* module parameter ready_quiesce                   *)
  WindowsInitParity,   (* module parameter windows_init_parity             *)
  WindowsReadCadence,  (* module parameter windows_read_cadence            *)
  RecoveryLimit,       (* G6TS_RECOVERY_LIMIT, 3 in the code               *)
  ResetStormLimit,     (* G6TS_RESET_STORM_LIMIT, 3 in the code            *)
  IrqDrainLimit,       (* G6TS_IRQ_DRAIN_LIMIT, 128 in the code            *)
  ResponseLimit,       (* G6TS_FEATURE_RESPONSE_LIMIT, 64 in the code      *)
  U8,                  (* 256: the two streak counters are u8              *)
  Exchanges,           (* request/response pairs of one initialization     *)
  PanelQueue           (* bound: unsolicited packets the panel holds       *)

(* The combinations of parameters that g6ts_probe accepts.                 *)
ASSUME ProfileAssumption ==
  /\ {ResetRecoveryV2, ResetStormBreaker, HostFaultRecovery, ReadyQuiesce,
      WindowsInitParity, WindowsReadCadence} \subseteq BOOLEAN
  /\ ResetStormBreaker => ResetRecoveryV2
  /\ ReadyQuiesce => HostFaultRecovery
  /\ WindowsReadCadence => WindowsInitParity

ASSUME LimitAssumption ==
  /\ {RecoveryLimit, ResetStormLimit, IrqDrainLimit, ResponseLimit, Exchanges,
      PanelQueue} \subseteq Nat \ {0}
  /\ U8 \in Nat /\ U8 > RecoveryLimit /\ U8 > ResetStormLimit

VARIABLES
  fifo,                   (* packets the panel holds for the host          *)
  tail,                   (* GPIO51 still asserted after the last read     *)
  latched,                (* falling edge pending in the interrupt chip    *)
  irq_disabled,           (* disable_irq depth of the line                 *)
  irq_wake,               (* the interrupt thread was asked to run         *)
  edge_unseen,            (* interrupt_edges > handled_interrupt_edges     *)
  mode_enabled, awaiting_ready_heat,
  contacts,               (* Linux input holds a contact or BTN_TOUCH      *)
  recovery_path, recovery_fail_streak, rapid_reset_streak,
  fatal_transport_error,
  parity_boundary,        (* any of the five parity_*_required flags       *)
  stopping,
  work_pending,           (* recovery_work is queued or its timer runs     *)
  cancelling,             (* cancel_delayed_work_sync keeps it unqueued    *)
  io_lock,                (* who holds io_lock: "free", "irq" or "work"    *)
  pcT, drained,           (* interrupt thread and its loop index           *)
  pcW, path, left, responses, (* worker, its path, exchanges to do, replies*)
  pcP                     (* driver core: bound, suspending, removing, ... *)

panelVars  == <<fifo, tail, latched>>
irqVars    == <<irq_disabled, irq_wake, edge_unseen>>
gateVars   == <<mode_enabled, awaiting_ready_heat, contacts>>
policyVars == <<recovery_path, recovery_fail_streak, rapid_reset_streak,
                fatal_transport_error, parity_boundary>>
workVars   == <<work_pending, cancelling>>
threadVars == <<pcT, drained>>
workerVars == <<pcW, path, left, responses>>
coreVars   == <<pcP, stopping>>
vars == <<panelVars, irqVars, gateVars, policyVars, workVars, io_lock,
          threadVars, workerVars, coreVars>>

Packets   == {"reset", "heat", "touch", "reply"}
Streaming == Packets \ {"reply"}   \* what the panel sends unasked
Reports   == {"heat", "touch"}     \* what may reach Linux input
Paths     == {"hardware", "software"}

(* The panel has power in every state but these.                           *)
Unpowered == {"suspended", "resume_failed", "removed", "freeing", "releasing",
              "unbound"}

Level     == fifo # <<>> \/ tail
HasUnread == Level \/ edge_unseen

(* schedule_delayed_work: nothing happens when the work is already queued  *)
(* or is being cancelled.                                                  *)
Schedule == work_pending' = (work_pending \/ ~cancelling)

(* g6ts_probe has powered the panel and scheduled the first recovery.      *)
Init ==
  /\ fifo \in {<<>>, <<"reset">>} /\ tail = FALSE /\ latched = (fifo # <<>>)
  /\ irq_disabled = FALSE /\ irq_wake = FALSE /\ edge_unseen = FALSE
  /\ mode_enabled = FALSE /\ awaiting_ready_heat = FALSE /\ contacts = FALSE
  /\ recovery_path = "hardware"
  /\ recovery_fail_streak = 0 /\ rapid_reset_streak = 0
  /\ fatal_transport_error = FALSE /\ parity_boundary = FALSE
  /\ work_pending = TRUE /\ cancelling = FALSE
  /\ io_lock = "free"
  /\ pcT = "idle" /\ drained = 0
  /\ pcW = "idle" /\ path = "hardware" /\ left = 0 /\ responses = 0
  /\ pcP = "bound" /\ stopping = FALSE

-----------------------------------------------------------------------------
(* The panel and the interrupt chip.                                       *)

(* A packet queued behind an asserted line need not make a second edge.    *)
PanelSend(p) ==
  /\ pcP \notin Unpowered
  /\ Len(fifo) < PanelQueue
  /\ fifo' = Append(fifo, p)
  /\ tail' = FALSE
  /\ IF Level THEN latched' \in {latched, TRUE} ELSE latched' = TRUE
  /\ UNCHANGED <<irqVars, gateVars, policyVars, workVars, io_lock,
                 threadVars, workerVars, coreVars>>

(* The line deasserts once the panel has retired the last read.            *)
TailEnds ==
  /\ tail /\ tail' = FALSE
  /\ UNCHANGED <<fifo, latched, irqVars, gateVars, policyVars, workVars,
                 io_lock, threadVars, workerVars, coreVars>>

(* g6ts_interrupt_edge: count the edge and wake the thread.                *)
InterruptEdge ==
  /\ latched /\ ~irq_disabled
  /\ latched' = FALSE /\ edge_unseen' = TRUE /\ irq_wake' = TRUE
  /\ UNCHANGED <<fifo, tail, irq_disabled, gateVars, policyVars, workVars,
                 io_lock, threadVars, workerVars, coreVars>>

(* One complete HID-SPI read takes the head packet.  The line may stay up  *)
(* for a moment, and the next packet may or may not pull it down again.    *)
TakePacket ==
  /\ fifo # <<>>
  /\ fifo' = Tail(fifo)
  /\ IF fifo' = <<>>
       THEN tail' \in BOOLEAN /\ latched' = latched
       ELSE tail' = FALSE /\ latched' \in {latched, TRUE}

-----------------------------------------------------------------------------
(* What a response does to the input gate.                                 *)

(* Mutant: a panel reset gates input without releasing the contacts.       *)
NotePanelResetKeepingContacts ==
  /\ mode_enabled' = FALSE /\ awaiting_ready_heat' = FALSE
  /\ UNCHANGED <<contacts, rapid_reset_streak>>
  /\ recovery_path' = IF ResetRecoveryV2 THEN "software" ELSE "hardware"

(* Mutant: the storm breaker compares with > instead of >=.                *)
NotePanelResetLateStorm ==
  /\ mode_enabled' = FALSE /\ awaiting_ready_heat' = FALSE /\ contacts' = FALSE
  /\ rapid_reset_streak' \in {(rapid_reset_streak + 1) % U8, 1}
  /\ recovery_path' =
       IF ResetRecoveryV2 /\ rapid_reset_streak' <= ResetStormLimit
         THEN "software" ELSE "hardware"

(* g6ts_note_panel_reset_locked, up to its schedule.  rapid: the reset     *)
(* came a nonzero number of milliseconds, at most the storm window, after  *)
(* the one before.                                                         *)
NotePanelReset ==
  /\ mode_enabled' = FALSE
  /\ awaiting_ready_heat' = FALSE
  /\ contacts' = FALSE
  /\ \E rapid \in BOOLEAN :
       LET streak == IF rapid THEN (rapid_reset_streak + 1) % U8 ELSE 1
           storm  == ResetStormBreaker /\ streak >= ResetStormLimit
       IN /\ rapid_reset_streak' =
               IF ResetStormBreaker THEN streak ELSE rapid_reset_streak
          /\ recovery_path' =
               IF ResetRecoveryV2 /\ ~storm THEN "software" ELSE "hardware"

(* g6ts_note_host_fault_locked, up to its schedule; fatal says whether the *)
(* read itself failed on the bus, which sets fatal_transport_error first.  *)
NoteHostFault(fatal) ==
  IF HostFaultRecovery
    THEN /\ fatal_transport_error' = FALSE
         /\ mode_enabled' = FALSE
         /\ awaiting_ready_heat' = FALSE
         /\ contacts' = FALSE
         /\ recovery_path' = "hardware"
         /\ rapid_reset_streak' = 0
    ELSE /\ fatal_transport_error' = (fatal_transport_error \/ fatal)
         /\ UNCHANGED <<gateVars, recovery_path, rapid_reset_streak>>

(* Mutant: every report is passed on while the first Heat is awaited.      *)
HandleDataUngated(p) ==
  contacts' \in BOOLEAN /\ UNCHANGED <<mode_enabled, awaiting_ready_heat>>

(* g6ts_handle_data_report: it looks at awaiting_ready_heat, which only    *)
(* the holder of io_lock writes, and no more at mode_enabled.  A Heat      *)
(* frame is valid or malformed; a valid one may leave any or no contact    *)
(* down.                                                                   *)
HandleData(p) ==
  \/ /\ p = "heat"
     /\ \E valid \in BOOLEAN :
          /\ awaiting_ready_heat' = (awaiting_ready_heat /\ ~valid)
          /\ IF valid THEN contacts' \in BOOLEAN ELSE contacts' = FALSE
     /\ UNCHANGED mode_enabled
  \/ /\ p = "touch" /\ ~awaiting_ready_heat
     /\ contacts' \in BOOLEAN
     /\ UNCHANGED <<mode_enabled, awaiting_ready_heat>>
  \/ /\ p = "touch" /\ awaiting_ready_heat
     /\ UNCHANGED gateVars

-----------------------------------------------------------------------------
(* g6ts_interrupt_thread.                                                  *)

IrqUnlock == io_lock' = "free" /\ pcT' = "idle" /\ drained' = 0

(* The last test of stopping comes before the work is queued, still under  *)
(* io_lock; the core may set stopping in between.                          *)
IrqNoted ==
  IF stopping THEN IrqUnlock
              ELSE pcT' = "schedule" /\ UNCHANGED <<io_lock, drained>>

(* mode_enabled is tested without io_lock and never again.                 *)
IrqEnter ==
  /\ pcT = "idle" /\ irq_wake
  /\ irq_wake' = FALSE
  /\ pcT' = IF mode_enabled THEN "lock" ELSE "idle"
  /\ UNCHANGED <<panelVars, irq_disabled, edge_unseen, gateVars, policyVars,
                 workVars, io_lock, drained, workerVars, coreVars>>

IrqLock ==
  /\ pcT = "lock" /\ io_lock = "free"
  /\ io_lock' = "irq" /\ pcT' = "drain" /\ drained' = 0
  /\ UNCHANGED <<panelVars, irqVars, gateVars, policyVars, workVars,
                 workerVars, coreVars>>

(* Mutant: the loop runs once too often.                                   *)
IrqReadingOffByOne == pcT = "drain" /\ drained <= IrqDrainLimit /\ HasUnread

IrqReading == pcT = "drain" /\ drained < IrqDrainLimit /\ HasUnread

IrqDrained ==
  /\ pcT = "drain" /\ ~HasUnread
  /\ IrqUnlock
  /\ UNCHANGED <<panelVars, irqVars, gateVars, policyVars, workVars,
                 workerVars, coreVars>>

(* Mutant: the thread just returns when the drain limit is reached.        *)
IrqOverflowIgnored ==
  /\ pcT = "drain" /\ drained = IrqDrainLimit /\ HasUnread
  /\ IrqUnlock
  /\ UNCHANGED <<panelVars, irqVars, gateVars, policyVars, workVars,
                 workerVars, coreVars>>

IrqOverflow ==
  /\ pcT = "drain" /\ drained = IrqDrainLimit /\ HasUnread
  /\ NoteHostFault(FALSE)
  /\ IF HostFaultRecovery THEN IrqNoted ELSE IrqUnlock
  /\ UNCHANGED <<panelVars, irqVars, recovery_fail_streak, parity_boundary,
                 workVars, workerVars, coreVars>>

(* A bus error, or a header or frame the driver refuses, which may be gone *)
(* from the panel.  With ready_quiesce a refused header counts only while  *)
(* the line is asserted.                                                   *)
IrqReadFault ==
  /\ IrqReading
  /\ TakePacket \/ UNCHANGED panelVars
  /\ edge_unseen' = FALSE
  /\ \E fatal \in BOOLEAN :
       /\ fatal \/ ~ReadyQuiesce \/ Level
       /\ NoteHostFault(fatal)
  /\ IF HostFaultRecovery THEN IrqNoted ELSE IrqUnlock
  /\ UNCHANGED <<irq_disabled, irq_wake, recovery_fail_streak,
                 parity_boundary, workVars, workerVars, coreVars>>

(* ready_quiesce: nothing was there to read and the line is seen released. *)
IrqQuiesced ==
  /\ IrqReading /\ ReadyQuiesce /\ fifo = <<>>
  /\ edge_unseen' = FALSE /\ tail' = FALSE
  /\ IrqUnlock
  /\ UNCHANGED <<fifo, latched, irq_disabled, irq_wake, gateVars, policyVars,
                 workVars, workerVars, coreVars>>

IrqReadReset ==
  /\ IrqReading /\ TakePacket /\ Head(fifo) = "reset"
  /\ edge_unseen' = FALSE
  /\ NotePanelReset
  /\ IrqNoted
  /\ UNCHANGED <<irq_disabled, irq_wake, recovery_fail_streak,
                 fatal_transport_error, parity_boundary, workVars,
                 workerVars, coreVars>>

(* windows_read_cadence services one response per interrupt.               *)
IrqServiced ==
  IF WindowsReadCadence
    THEN IrqUnlock
    ELSE drained' = drained + 1 /\ pcT' = "drain" /\ UNCHANGED io_lock

(* The last line of g6ts_dma_read_response tests mode_enabled, which a     *)
(* suspend or remove may clear at any time after.  A report that passed    *)
(* the test is in the hands of the thread: pcT says which.                 *)
IrqReadReport ==
  /\ IrqReading /\ TakePacket /\ Head(fifo) # "reset"
  /\ edge_unseen' = FALSE
  /\ IF mode_enabled /\ Head(fifo) # "reply"
       THEN pcT' = Head(fifo) /\ UNCHANGED <<io_lock, drained>>
       ELSE IrqServiced
  /\ UNCHANGED <<irq_disabled, irq_wake, gateVars, policyVars, workVars,
                 workerVars, coreVars>>

(* The report, whatever has become of mode_enabled.                        *)
IrqReport ==
  /\ pcT \in Reports
  /\ HandleData(pcT)
  /\ IrqServiced
  /\ UNCHANGED <<panelVars, irqVars, policyVars, workVars, workerVars, coreVars>>

IrqSchedule ==
  /\ pcT = "schedule"
  /\ Schedule /\ IrqUnlock
  /\ UNCHANGED <<panelVars, irqVars, gateVars, policyVars, cancelling,
                 workerVars, coreVars>>

IrqThread ==
  \/ IrqEnter \/ IrqLock \/ IrqDrained \/ IrqOverflow \/ IrqReadFault
  \/ IrqQuiesced \/ IrqReadReset \/ IrqReadReport \/ IrqReport
  \/ IrqSchedule

-----------------------------------------------------------------------------
(* g6ts_recovery_work and, inside it, g6ts_full_reinitialize_locked.       *)

WorkerTo(pc) == pcW' = pc /\ UNCHANGED <<path, left, responses>>

WkStart ==
  /\ work_pending /\ pcW = "idle" /\ pcP # "unbound"
  /\ work_pending' = FALSE /\ WorkerTo("lock")
  /\ UNCHANGED <<panelVars, irqVars, gateVars, policyVars, cancelling, io_lock,
                 threadVars, coreVars>>

(* Work that is still queued, or waits for io_lock, when devm has released *)
(* ts uses freed memory: there is no stopping to be read any more.  What   *)
(* happens then is undefined, and the model ends.                          *)
WkStray ==
  /\ pcP = "unbound"
  /\ \/ work_pending /\ pcW = "idle"
     \/ pcW = "lock"
  /\ work_pending' = FALSE /\ WorkerTo("stray")
  /\ UNCHANGED <<panelVars, irqVars, gateVars, policyVars, cancelling, io_lock,
                 threadVars, coreVars>>

(* A worker that finds the driver stopping leaves at once.                 *)
WkRefused ==
  /\ pcW = "lock" /\ io_lock = "free" /\ stopping /\ pcP # "unbound"
  /\ WorkerTo("idle")
  /\ UNCHANGED <<panelVars, irqVars, gateVars, policyVars, workVars, io_lock,
                 threadVars, coreVars>>

(* Mutant: the worker does not look at stopping once it holds io_lock.     *)
WkBeginUnchecked ==
  /\ pcW = "lock" /\ io_lock = "free"
  /\ io_lock' = "work"
  /\ mode_enabled' = FALSE /\ awaiting_ready_heat' = FALSE /\ contacts' = FALSE
  /\ parity_boundary' = FALSE
  /\ path' = recovery_path /\ left' = Exchanges /\ responses' = 0
  /\ pcW' = IF recovery_path = "hardware" THEN "cycle" ELSE "send"
  /\ UNCHANGED <<panelVars, irqVars, recovery_path, recovery_fail_streak,
                 rapid_reset_streak, fatal_transport_error, workVars,
                 threadVars, coreVars>>

WkBegin ==
  /\ pcW = "lock" /\ io_lock = "free" /\ ~stopping
  /\ io_lock' = "work"
  /\ mode_enabled' = FALSE /\ awaiting_ready_heat' = FALSE /\ contacts' = FALSE
  /\ parity_boundary' = FALSE
  /\ path' = recovery_path /\ left' = Exchanges /\ responses' = 0
  /\ pcW' = IF recovery_path = "hardware" THEN "cycle" ELSE "send"
  /\ UNCHANGED <<panelVars, irqVars, recovery_path, recovery_fail_streak,
                 rapid_reset_streak, fatal_transport_error, workVars,
                 threadVars, coreVars>>

(* Power off, which may fail, and on again, which may fail too.  The panel *)
(* then announces itself, or does not.                                     *)
WkPowerCycle ==
  /\ pcW = "cycle"
  /\ \/ WorkerTo("fail") /\ UNCHANGED panelVars
     \/ WorkerTo("fail") /\ fifo' = <<>> /\ tail' = FALSE /\ UNCHANGED latched
     \/ /\ fifo' \in {<<>>, <<"reset">>} /\ tail' = FALSE
        /\ latched' = (latched \/ fifo' # <<>>)
        /\ WorkerTo("reset")
  /\ UNCHANGED <<irqVars, gateVars, policyVars, workVars, io_lock, threadVars,
                 coreVars>>

(* No response within a second, a bus error, or a refused frame.           *)
WkReadFails ==
  /\ pcW \in {"reset", "await"}
  /\ \/ /\ ~HasUnread
        /\ UNCHANGED <<panelVars, edge_unseen, fatal_transport_error>>
     \/ /\ HasUnread /\ edge_unseen' = FALSE
        /\ TakePacket \/ UNCHANGED panelVars
        /\ fatal_transport_error' \in {fatal_transport_error, TRUE}
  /\ WorkerTo("fail")
  /\ UNCHANGED <<irq_disabled, irq_wake, gateVars, recovery_path,
                 recovery_fail_streak, rapid_reset_streak, parity_boundary,
                 workVars, io_lock, threadVars, coreVars>>

(* The first response after a power cycle has to be RESET_RESPONSE.        *)
WkReadReset ==
  /\ pcW = "reset" /\ TakePacket
  /\ edge_unseen' = FALSE
  /\ IF Head(fifo) = "reset" THEN WorkerTo("send") ELSE WorkerTo("fail")
  /\ UNCHANGED <<irq_disabled, irq_wake, gateVars, policyVars, workVars,
                 io_lock, threadVars, coreVars>>

(* One request.  A failed output is fatal, except for the feedback and CFU *)
(* outputs of the parity profile.                                          *)
WkSend ==
  /\ pcW = "send"
  /\ \/ /\ fatal_transport_error' \in
             {TRUE} \cup (IF WindowsInitParity THEN {fatal_transport_error}
                                               ELSE {})
        /\ WorkerTo("fail") /\ UNCHANGED panelVars
     \/ /\ \/ UNCHANGED panelVars
           \/ /\ fifo' = Append(fifo, "reply") /\ tail' = FALSE
              /\ IF Level THEN latched' \in {latched, TRUE} ELSE latched' = TRUE
        /\ pcW' = "await" /\ responses' = 0
        /\ UNCHANGED <<path, left, fatal_transport_error>>
  /\ UNCHANGED <<irqVars, gateVars, recovery_path, recovery_fail_streak,
                 rapid_reset_streak, parity_boundary, workVars, io_lock,
                 threadVars, coreVars>>

(* g6ts_dma_feature_exchange and g6ts_recovery_read_expected skip streamed *)
(* data, up to a limit, and end the attempt on a reset or a wrong reply.   *)
WkReadReply ==
  /\ pcW = "await" /\ TakePacket
  /\ edge_unseen' = FALSE
  /\ \/ /\ Head(fifo) = "reply"
        /\ \/ WorkerTo("fail")
           \/ /\ pcW' = IF left = 1 THEN "finish" ELSE "send"
              /\ left' = left - 1
              /\ UNCHANGED <<path, responses>>
     \/ /\ Head(fifo) \in {"heat", "touch"}
        /\ IF responses + 1 < ResponseLimit
             THEN responses' = responses + 1 /\ UNCHANGED <<pcW, path, left>>
             ELSE WorkerTo("fail")
  /\ UNCHANGED <<irq_disabled, irq_wake, gateVars, policyVars, workVars,
                 io_lock, threadVars, coreVars>>

(* Mutant: the attempt goes on after a panel reset (no -EPIPE).            *)
WkReadPanelResetIgnored ==
  /\ pcW = "await" /\ TakePacket /\ Head(fifo) = "reset"
  /\ edge_unseen' = FALSE
  /\ NotePanelReset
  /\ WorkerTo("send")
  /\ UNCHANGED <<irq_disabled, irq_wake, recovery_fail_streak,
                 fatal_transport_error, parity_boundary, workVars, io_lock,
                 threadVars, coreVars>>

(* A panel that resets itself while a reply is awaited ends the attempt.   *)
WkReadPanelReset ==
  /\ pcW = "await" /\ TakePacket /\ Head(fifo) = "reset"
  /\ edge_unseen' = FALSE
  /\ NotePanelReset
  /\ WorkerTo("fail")
  /\ UNCHANGED <<irq_disabled, irq_wake, recovery_fail_streak,
                 fatal_transport_error, parity_boundary, workVars, io_lock,
                 threadVars, coreVars>>

(* The parity profile refuses the software path (-EOPNOTSUPP).             *)
WkFinishRefused ==
  /\ pcW = "finish" /\ WindowsInitParity /\ path = "software"
  /\ WorkerTo("fail")
  /\ UNCHANGED <<panelVars, irqVars, gateVars, policyVars, workVars, io_lock,
                 threadVars, coreVars>>

(* Success.  The parity profile may stop at a boundary with input closed.  *)
WkFinish ==
  /\ pcW = "finish" /\ ~(WindowsInitParity /\ path = "software")
  /\ parity_boundary' \in (IF WindowsInitParity THEN BOOLEAN ELSE {FALSE})
  /\ mode_enabled' = ~parity_boundary'
  /\ awaiting_ready_heat' =
       ((ResetRecoveryV2 \/ WindowsInitParity) /\ ~parity_boundary')
  /\ recovery_fail_streak' = 0
  /\ rapid_reset_streak' = IF path = "hardware" THEN 0 ELSE rapid_reset_streak
  /\ recovery_path' = "hardware"
  /\ io_lock' = "free"
  /\ WorkerTo("idle")
  /\ UNCHANGED <<panelVars, irqVars, contacts, fatal_transport_error, workVars,
                 threadVars, coreVars>>

(* Mutant: failed attempts are repeated without a limit.                   *)
WkFailForever ==
  /\ pcW = "fail"
  /\ recovery_path' = "hardware"
  /\ WorkerTo("resched")
  /\ io_lock' = "free"
  /\ UNCHANGED <<panelVars, irqVars, gateVars, recovery_fail_streak,
                 rapid_reset_streak, fatal_transport_error, parity_boundary,
                 workVars, threadVars, coreVars>>

(* Failure: a software attempt always falls back to hardware, a hardware   *)
(* attempt is repeated below the limit, and a fatal bus error ends it all. *)
WkFail ==
  /\ pcW = "fail"
  /\ recovery_fail_streak' = (recovery_fail_streak + 1) % U8
  /\ LET fallback == path = "software" /\ ~fatal_transport_error
         again    == ~fatal_transport_error /\ recovery_fail_streak' < RecoveryLimit
     IN /\ recovery_path' = IF fallback THEN "hardware" ELSE recovery_path
        /\ WorkerTo(IF fallback \/ again THEN "resched" ELSE "idle")
  /\ io_lock' = "free"
  /\ UNCHANGED <<panelVars, irqVars, gateVars, rapid_reset_streak,
                 fatal_transport_error, parity_boundary, workVars, threadVars,
                 coreVars>>

(* The retry is queued after io_lock is released.                          *)
WkReschedule ==
  /\ pcW = "resched"
  /\ IF stopping THEN UNCHANGED work_pending ELSE Schedule
  /\ WorkerTo("idle")
  /\ UNCHANGED <<panelVars, irqVars, gateVars, policyVars, cancelling, io_lock,
                 threadVars, coreVars>>

Worker ==
  \/ WkStart \/ WkStray \/ WkRefused \/ WkBegin \/ WkPowerCycle \/ WkReadFails
  \/ WkReadReset \/ WkSend \/ WkReadReply \/ WkReadPanelReset
  \/ WkFinishRefused \/ WkFinish \/ WkFail \/ WkReschedule

-----------------------------------------------------------------------------
(* The driver core: g6ts_suspend, g6ts_resume, g6ts_remove and the release *)
(* of the interrupt line and then of ts itself that devm makes after it.   *)

CoreTo(pc) == pcP' = pc /\ UNCHANGED stopping

(* disable_irq and free_irq wait for a handler and a thread in flight.     *)
ThreadQuiet == pcT = "idle" /\ ~irq_wake

(* mode_enabled is cleared without io_lock.                                *)
SuspendStart ==
  /\ pcP = "bound"
  /\ mode_enabled' = FALSE
  /\ CoreTo("disable")
  /\ UNCHANGED <<panelVars, irqVars, awaiting_ready_heat, contacts, policyVars,
                 workVars, io_lock, threadVars, workerVars>>

(* disable_irq stops new edges at once and then waits.                     *)
SuspendDisableIrq ==
  /\ pcP \in {"disable", "removed"}
  /\ irq_disabled' = TRUE
  /\ CoreTo(IF pcP = "disable" THEN "drain" ELSE "freeing")
  /\ UNCHANGED <<panelVars, irq_wake, edge_unseen, gateVars, policyVars,
                 workVars, io_lock, threadVars, workerVars>>

(* Mutant: the line is disabled without waiting for the thread.            *)
SynchronizeIrqNot ==
  /\ pcP \in {"drain", "freeing"}
  /\ CoreTo(IF pcP = "drain" THEN "cancel" ELSE "releasing")
  /\ UNCHANGED <<panelVars, irqVars, gateVars, policyVars, workVars, io_lock,
                 threadVars, workerVars>>

SynchronizeIrq ==
  /\ pcP \in {"drain", "freeing"} /\ ThreadQuiet
  /\ CoreTo(IF pcP = "drain" THEN "cancel" ELSE "releasing")
  /\ UNCHANGED <<panelVars, irqVars, gateVars, policyVars, workVars, io_lock,
                 threadVars, workerVars>>

(* cancel_delayed_work_sync: unqueue, refuse new queueing, await the worker.*)
CancelWork ==
  /\ pcP \in {"cancel", "rcancel"}
  /\ work_pending' = FALSE /\ cancelling' = TRUE
  /\ CoreTo(IF pcP = "cancel" THEN "await" ELSE "rawait")
  /\ UNCHANGED <<panelVars, irqVars, gateVars, policyVars, io_lock, threadVars,
                 workerVars>>

CancelWorkDone ==
  /\ pcP \in {"await", "rawait"} /\ pcW = "idle"
  /\ cancelling' = FALSE
  /\ CoreTo(IF pcP = "await" THEN "poweroff" ELSE "rrelease")
  /\ UNCHANGED <<panelVars, irqVars, gateVars, policyVars, work_pending,
                 io_lock, threadVars, workerVars>>

(* Under io_lock: release contacts and power off; _PS3 may fail.           *)
SuspendPowerOff ==
  /\ pcP = "poweroff" /\ io_lock = "free"
  /\ contacts' = FALSE
  /\ \/ fifo' = <<>> /\ tail' = FALSE /\ CoreTo("suspended")
     \/ UNCHANGED <<fifo, tail>> /\ CoreTo("abort")
  /\ UNCHANGED <<latched, irqVars, mode_enabled, awaiting_ready_heat,
                 policyVars, workVars, io_lock, threadVars, workerVars>>

(* Suspend failed, or resume has power: the interrupt comes back first.    *)
EnableIrq ==
  /\ pcP \in {"abort", "resumed"}
  /\ irq_disabled' = FALSE
  /\ CoreTo(IF pcP = "abort" THEN "requeue" ELSE "queue")
  /\ UNCHANGED <<panelVars, irq_wake, edge_unseen, gateVars, policyVars,
                 workVars, io_lock, threadVars, workerVars>>

(* Mutant: a suspend that fails does not queue the recovery again.         *)
CoreScheduleForgotten ==
  /\ pcP \in {"requeue", "queue"}
  /\ recovery_path' = "hardware"
  /\ IF pcP = "queue" THEN Schedule ELSE UNCHANGED work_pending
  /\ CoreTo("bound")
  /\ UNCHANGED <<panelVars, irqVars, gateVars, recovery_fail_streak,
                 rapid_reset_streak, fatal_transport_error, parity_boundary,
                 cancelling, io_lock, threadVars, workerVars>>

(* Only the failed suspend writes recovery_path here, without io_lock.     *)
CoreSchedule ==
  /\ pcP \in {"requeue", "queue"}
  /\ recovery_path' = IF pcP = "requeue" THEN "hardware" ELSE recovery_path
  /\ Schedule
  /\ CoreTo("bound")
  /\ UNCHANGED <<panelVars, irqVars, gateVars, recovery_fail_streak,
                 rapid_reset_streak, fatal_transport_error, parity_boundary,
                 cancelling, io_lock, threadVars, workerVars>>

(* Under io_lock.  A panel that gets power announces itself, or does not.  *)
Resume ==
  /\ pcP = "suspended" /\ io_lock = "free"
  /\ fatal_transport_error' = FALSE /\ recovery_fail_streak' = 0
  /\ recovery_path' = "hardware"
  /\ \/ /\ fifo' \in {<<>>, <<"reset">>}
        /\ latched' = (latched \/ fifo' # <<>>)
        /\ CoreTo("resumed")
     \/ UNCHANGED <<fifo, latched>> /\ CoreTo("resume_failed")
  /\ UNCHANGED <<tail, irqVars, gateVars, rapid_reset_streak, parity_boundary,
                 workVars, io_lock, threadVars, workerVars>>

(* stopping and mode_enabled are written without io_lock.                  *)
RemoveStart ==
  /\ pcP \in {"bound", "resume_failed"}
  /\ stopping' = TRUE /\ mode_enabled' = FALSE
  /\ pcP' = "rcancel"
  /\ UNCHANGED <<panelVars, irqVars, awaiting_ready_heat, contacts, policyVars,
                 workVars, io_lock, threadVars, workerVars>>

RemoveRelease ==
  /\ pcP = "rrelease" /\ io_lock = "free"
  /\ contacts' = FALSE
  /\ CoreTo("rpoweroff")
  /\ UNCHANGED <<panelVars, irqVars, mode_enabled, awaiting_ready_heat,
                 policyVars, workVars, io_lock, threadVars, workerVars>>

(* Power goes without io_lock and whatever _PS3 returns.                   *)
RemovePowerOff ==
  /\ pcP = "rpoweroff"
  /\ fifo' = <<>> /\ tail' = FALSE
  /\ CoreTo("removed")
  /\ UNCHANGED <<latched, irqVars, gateVars, policyVars, workVars, io_lock,
                 threadVars, workerVars>>

(* devm releases ts, the first thing g6ts_probe allocated, last of all.    *)
(* Nothing looks whether recovery_work is queued again or about to run.    *)
ReleaseTs ==
  /\ pcP = "releasing"
  /\ CoreTo("unbound")
  /\ UNCHANGED <<panelVars, irqVars, gateVars, policyVars, workVars, io_lock,
                 threadVars, workerVars>>

(* The driver is gone: the system stops here.                              *)
Unbound == pcP = "unbound" /\ UNCHANGED vars

Core ==
  \/ SuspendStart \/ SuspendDisableIrq \/ SynchronizeIrq \/ CancelWork
  \/ CancelWorkDone \/ SuspendPowerOff \/ EnableIrq \/ CoreSchedule \/ Resume
  \/ RemoveStart \/ RemoveRelease \/ RemovePowerOff \/ ReleaseTs

Panel == TailEnds \/ \E p \in Streaming : PanelSend(p)

Next == Panel \/ InterruptEdge \/ IrqThread \/ Worker \/ Core \/ Unbound

(* The scheduler runs the interrupt, its thread and the worker; the panel  *)
(* and the user owe nothing, but a suspend or remove that began completes. *)
Fairness ==
  /\ WF_vars(InterruptEdge) /\ WF_vars(TailEnds)
  /\ WF_vars(IrqThread) /\ WF_vars(Worker)
  /\ WF_vars(Core /\ pcP \notin {"bound", "suspended", "resume_failed"})

Spec == Init /\ [][Next]_vars
FairSpec == Spec /\ Fairness

-----------------------------------------------------------------------------
FlagTypes ==
  /\ tail \in BOOLEAN /\ latched \in BOOLEAN
  /\ irq_disabled \in BOOLEAN /\ irq_wake \in BOOLEAN /\ edge_unseen \in BOOLEAN
  /\ mode_enabled \in BOOLEAN /\ awaiting_ready_heat \in BOOLEAN
  /\ contacts \in BOOLEAN
  /\ fatal_transport_error \in BOOLEAN /\ parity_boundary \in BOOLEAN
  /\ work_pending \in BOOLEAN /\ cancelling \in BOOLEAN
  /\ stopping \in BOOLEAN

DataTypes ==
  /\ fifo \in Seq(Packets)
  /\ recovery_path \in Paths /\ path \in Paths
  /\ recovery_fail_streak \in 0 .. U8 - 1
  /\ rapid_reset_streak \in 0 .. U8 - 1
  /\ drained \in 0 .. (IF pcT \in Reports THEN IrqDrainLimit - 1
                                       ELSE IrqDrainLimit)
  /\ left \in (IF pcW \in {"cycle", "reset", "send", "await"} THEN 1 ELSE 0)
               .. Exchanges
  /\ responses \in 0 .. ResponseLimit

ControlTypes ==
  /\ io_lock \in {"free", "irq", "work"}
  /\ pcT \in {"idle", "lock", "drain", "schedule"} \cup Reports
  /\ pcW \in {"idle", "lock", "cycle", "reset", "send", "await", "finish",
              "fail", "resched", "stray"}
  /\ pcP \in {"bound", "disable", "drain", "cancel", "await", "poweroff",
              "suspended", "abort", "requeue", "resumed", "queue",
              "resume_failed", "rcancel", "rawait", "rrelease", "rpoweroff",
              "removed", "freeing", "releasing", "unbound"}

(* Every variable keeps its type: the streaks and the loop counters their  *)
(* bounds (no streak leaves its u8, no loop runs past its limit).          *)
TypeOK == FlagTypes /\ DataTypes /\ ControlTypes

(* The worker holds io_lock while it re-initializes the panel.             *)
Attempting == pcW \in {"cycle", "reset", "send", "await", "finish", "fail"}

(* The two conditions under which g6ts_recovery_work does not retry.       *)
GaveUp == fatal_transport_error \/ recovery_fail_streak >= RecoveryLimit

(* A driver whose input is gated always has a recovery queued or running,  *)
(* has given up within the documented limits, or has stopped at a parity   *)
(* boundary: no interleaving of resets, faults, retries and a suspend that *)
(* fails loses the recovery and leaves the touchscreen silent.             *)
NoOrphanedGate ==
  pcP = "bound" =>
    mode_enabled \/ work_pending \/ pcW # "idle" \/ pcT = "schedule"
      \/ GaveUp \/ parity_boundary

(* Outside a suspend or remove in progress, closing the gate has released  *)
(* every contact: no finger stays down in Linux over a reset or recovery.  *)
GateReleasesContacts ==
  pcP \in {"bound", "suspended", "abort", "requeue", "resumed", "queue"}
    /\ ~mode_enabled => ~contacts

(* Until the first valid Heat frame nothing reaches Linux input.           *)
ReadyHeatGate == awaiting_ready_heat => ~contacts

(* A suspended driver has no thread, worker or queued work that could use  *)
(* the unpowered panel, and reports no contact.                            *)
SuspendedIsQuiet ==
  pcP = "suspended" =>
    pcT = "idle" /\ pcW = "idle" /\ ~work_pending /\ ~contacts

(* After remove has cancelled the work no recovery runs again for as long  *)
(* as ts exists, even if the interrupt thread tested stopping before and   *)
(* queued the work after.  That work is also all that can outlive ts: it   *)
(* is then still queued, waits for io_lock, or has become WkStray.         *)
NoAttemptAfterRemove ==
  /\ pcP \in {"rrelease", "rpoweroff", "removed", "freeing", "releasing"}
       => pcW \in {"idle", "lock"}
  /\ pcP = "unbound" => ThreadQuiet /\ pcW \in {"idle", "lock", "stray"}

(* With the storm breaker, a recovery is not begun on the software path    *)
(* once ResetStormLimit rapid resets were counted.                         *)
StormEscalates ==
  ResetStormBreaker /\ rapid_reset_streak >= ResetStormLimit
    => recovery_path = "hardware"

(* The interrupt thread leaves no packet behind a line that made no new    *)
(* edge, unless it has closed the gate (g6ts_interrupt_thread's comment).  *)
DrainLeavesNothing ==
  [][io_lock = "irq" /\ io_lock' = "free" /\ mode_enabled'
       => fifo' = <<>> \/ latched' \/ irq_wake']_vars

(* Once ResetStormLimit rapid resets were counted, input opens again only  *)
(* by a recovery on the hardware path: no software attempt that was under  *)
(* way when the last of them came, or was queued before, succeeds.         *)
StormEndsInHardware ==
  [][ResetStormBreaker /\ rapid_reset_streak >= ResetStormLimit
       /\ ~mode_enabled /\ mode_enabled' => path = "hardware"]_vars

(* A queued recovery ends: input opens, a boundary is reached, the driver  *)
(* gives up, or it is suspended or removed.                                *)
RecoveryResolves ==
  work_pending ~> \/ mode_enabled \/ parity_boundary \/ pcP # "bound"
                  \/ GaveUp /\ ~work_pending /\ pcW = "idle"

(* However much the panel streams, the interrupt thread gives io_lock up.  *)
DrainEnds == io_lock = "irq" ~> io_lock # "irq"

(* Neither the worker nor the interrupt thread keeps the device for ever.  *)
Progress == RecoveryResolves /\ DrainEnds

-----------------------------------------------------------------------------
(* The inductive invariant behind the safety properties above.             *)

(* Who holds io_lock, and what cannot change under it: the gate is closed  *)
(* while the worker holds it, and once the thread has noted a reset.       *)
LockInv ==
  /\ io_lock = "irq" <=> pcT \in {"drain", "schedule"} \cup Reports
  /\ io_lock = "work" <=> Attempting
  /\ Attempting => ~mode_enabled /\ ~awaiting_ready_heat /\ ~contacts
  /\ pcT = "schedule" => ~mode_enabled
  /\ pcT \in Reports => mode_enabled \/ pcP \in {"disable", "drain"} \/ stopping

(* What each step of a suspend or remove has established.  A report that   *)
(* is in hand while the gate is closed goes before the contacts do.        *)
CoreInv ==
  /\ cancelling <=> pcP \in {"await", "rawait"}
  /\ stopping <=> pcP \in {"rcancel", "rawait", "rrelease", "rpoweroff",
                           "removed", "freeing", "releasing", "unbound"}
  /\ pcP \in {"drain", "cancel", "await", "poweroff", "suspended", "freeing",
              "releasing", "unbound"} => irq_disabled
  /\ pcP \in {"cancel", "await", "poweroff", "suspended"} => ThreadQuiet
  /\ pcP \in {"await", "poweroff", "suspended"} => ~work_pending
  /\ pcP \in {"poweroff", "suspended"} => pcW = "idle"
  /\ pcP = "suspended" => ~contacts
  /\ pcP \in {"rpoweroff", "removed", "freeing", "releasing", "unbound"}
       /\ pcT \in Reports => mode_enabled
  /\ pcP \in {"releasing", "unbound"} => ThreadQuiet
  /\ pcW = "stray" => pcP = "unbound"

(* A software attempt that still may succeed has counted no storm.         *)
StormInv ==
  ResetStormBreaker /\ path = "software"
    /\ pcW \in {"cycle", "reset", "send", "await", "finish"}
    => rapid_reset_streak < ResetStormLimit

IInv ==
  /\ TypeOK /\ LockInv /\ CoreInv /\ StormInv
  /\ NoOrphanedGate /\ GateReleasesContacts /\ ReadyHeatGate
  /\ NoAttemptAfterRemove /\ StormEscalates

-----------------------------------------------------------------------------
(* What the documentation says and the code does not do.                   *)

(* "This avoids silently abandoning an edge-triggered stream": with input  *)
(* open and no one about to read, the panel holds no packet.               *)
NoStrandedPacket ==
  mode_enabled /\ pcP = "bound" /\ ThreadQuiet /\ ~latched /\ io_lock = "free"
    => fifo = <<>>
=============================================================================

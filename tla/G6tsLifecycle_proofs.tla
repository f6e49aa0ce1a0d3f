----------------------- MODULE G6tsLifecycle_proofs ------------------------
(***************************************************************************)
(* The safety properties of G6tsLifecycle, for every profile of module     *)
(* parameters that g6ts_probe accepts, every limit and every queue length. *)
(* All of them follow from the inductive invariant IInv; so does, at the   *)
(* end, that G6tsLifecycle implements TouchService.                        *)
(***************************************************************************)
EXTENDS G6tsService, SequenceTheorems, TLAPS

USE DEF panelVars, irqVars, gateVars, policyVars, workVars, threadVars,
        workerVars, coreVars

(* Boolean variables: a step types each of them or leaves it alone.  The   *)
(* set is a parameter, so that no prover splits thirteen Booleans.         *)
FlagsIn(S) ==
  /\ tail \in S
  /\ latched \in S
  /\ irq_disabled \in S
  /\ irq_wake \in S
  /\ edge_unseen \in S
  /\ mode_enabled \in S
  /\ awaiting_ready_heat \in S
  /\ contacts \in S
  /\ fatal_transport_error \in S
  /\ parity_boundary \in S
  /\ work_pending \in S
  /\ cancelling \in S
  /\ stopping \in S

LEMMA FlagsAre == FlagTypes <=> FlagsIn(BOOLEAN)
BY DEF FlagTypes, FlagsIn

LEMMA FlagsInKept ==
  ASSUME NEW S, FlagsIn(S),
         tail' = tail \/ tail' \in S,
         latched' = latched \/ latched' \in S,
         irq_disabled' = irq_disabled \/ irq_disabled' \in S,
         irq_wake' = irq_wake \/ irq_wake' \in S,
         edge_unseen' = edge_unseen \/ edge_unseen' \in S,
         mode_enabled' = mode_enabled \/ mode_enabled' \in S,
         awaiting_ready_heat' = awaiting_ready_heat \/ awaiting_ready_heat' \in S,
         contacts' = contacts \/ contacts' \in S,
         fatal_transport_error' = fatal_transport_error \/ fatal_transport_error' \in S,
         parity_boundary' = parity_boundary \/ parity_boundary' \in S,
         work_pending' = work_pending \/ work_pending' \in S,
         cancelling' = cancelling \/ cancelling' \in S,
         stopping' = stopping \/ stopping' \in S
  PROVE  FlagsIn(S)'
BY DEF FlagsIn

LEMMA FlagsKept ==
  ASSUME FlagTypes,
         tail' = tail \/ tail' \in BOOLEAN,
         latched' = latched \/ latched' \in BOOLEAN,
         irq_disabled' = irq_disabled \/ irq_disabled' \in BOOLEAN,
         irq_wake' = irq_wake \/ irq_wake' \in BOOLEAN,
         edge_unseen' = edge_unseen \/ edge_unseen' \in BOOLEAN,
         mode_enabled' = mode_enabled \/ mode_enabled' \in BOOLEAN,
         awaiting_ready_heat' = awaiting_ready_heat \/ awaiting_ready_heat' \in BOOLEAN,
         contacts' = contacts \/ contacts' \in BOOLEAN,
         fatal_transport_error' = fatal_transport_error \/ fatal_transport_error' \in BOOLEAN,
         parity_boundary' = parity_boundary \/ parity_boundary' \in BOOLEAN,
         work_pending' = work_pending \/ work_pending' \in BOOLEAN,
         cancelling' = cancelling \/ cancelling' \in BOOLEAN,
         stopping' = stopping \/ stopping' \in BOOLEAN
  PROVE  FlagTypes'
<1>1. FlagsIn(BOOLEAN)
  BY FlagsAre
<1>2. FlagsIn(BOOLEAN)'
  BY <1>1, FlagsInKept
<1> QED
  BY <1>2 DEF FlagTypes, FlagsIn

(* A read leaves a queue of packets and Boolean line states.               *)
LEMMA TakePacketType ==
  ASSUME TypeOK, TakePacket
  PROVE  /\ fifo' \in Seq(Packets) /\ tail' \in BOOLEAN /\ latched' \in BOOLEAN
         /\ Head(fifo) \in Packets
<1>1. fifo \in Seq(Packets) /\ fifo # <<>> /\ fifo' = Tail(fifo)
  BY DEF TakePacket, TypeOK, DataTypes
<1>2. Head(fifo) \in Packets /\ Tail(fifo) \in Seq(Packets)
  BY <1>1, HeadTailProperties
<1>3. tail' \in BOOLEAN /\ latched' \in BOOLEAN
  BY DEF TakePacket, TypeOK, FlagTypes
<1> QED
  BY <1>1, <1>2, <1>3

(* Streak arithmetic stays within the u8 counter.                          *)
LEMMA StreakType ==
  ASSUME NEW n \in 0 .. U8 - 1
  PROVE  (n + 1) % U8 \in 0 .. U8 - 1 /\ 1 \in 0 .. U8 - 1 /\ 0 \in 0 .. U8 - 1
BY LimitAssumption

(* What the panel can hold: nothing, its own reset, one packet more.       *)
LEMMA QueueType ==
  /\ <<>> \in Seq(Packets) /\ <<"reset">> \in Seq(Packets)
  /\ fifo \in Seq(Packets) =>
       \A p \in Packets : Append(fifo, p) \in Seq(Packets)
  /\ "reply" \in Packets
BY DEF Packets

LEMMA NotePanelResetType ==
  ASSUME TypeOK, NotePanelReset
  PROVE  /\ mode_enabled' = FALSE /\ awaiting_ready_heat' = FALSE
         /\ contacts' = FALSE /\ recovery_path' \in Paths
         /\ rapid_reset_streak' \in 0 .. U8 - 1
BY StreakType DEF TypeOK, DataTypes, NotePanelReset, Paths

LEMMA NoteHostFaultType ==
  ASSUME TypeOK, NEW fatal \in BOOLEAN, NoteHostFault(fatal)
  PROVE  /\ fatal_transport_error' \in BOOLEAN
         /\ mode_enabled' \in BOOLEAN /\ awaiting_ready_heat' \in BOOLEAN
         /\ contacts' \in BOOLEAN /\ recovery_path' \in Paths
         /\ rapid_reset_streak' \in 0 .. U8 - 1
BY StreakType DEF TypeOK, FlagTypes, DataTypes, NoteHostFault, Paths

LEMMA HandleDataType ==
  ASSUME TypeOK, NEW p \in Reports, HandleData(p)
  PROVE  /\ mode_enabled' \in BOOLEAN /\ awaiting_ready_heat' \in BOOLEAN
         /\ contacts' \in BOOLEAN
BY DEF TypeOK, FlagTypes, HandleData, Reports

LEMMA ScheduleType ==
  ASSUME TypeOK, Schedule
  PROVE  work_pending' \in BOOLEAN
BY DEF TypeOK, FlagTypes, Schedule

LEMMA TypeInit == Init => TypeOK
<1> SUFFICES ASSUME Init PROVE TypeOK
  OBVIOUS
<1>1. FlagTypes
  BY DEF Init, FlagTypes
<1>2. fifo \in Seq(Packets)
  BY QueueType DEF Init
<1>3. DataTypes
  BY <1>2, LimitAssumption DEF Init, DataTypes, Paths
<1>4. ControlTypes
  BY DEF Init, ControlTypes
<1> QED
  BY <1>1, <1>3, <1>4 DEF TypeOK

LEMMA TypeThread ==
  ASSUME TypeOK, IrqThread
  PROVE  TypeOK'
<1> USE LimitAssumption DEF Reports
<1>1. CASE IrqEnter
  <2>1. FlagTypes'
    BY <1>1, FlagsKept DEF TypeOK, IrqEnter
  <2>2. DataTypes'
    BY <1>1 DEF TypeOK, DataTypes, IrqEnter
  <2>3. ControlTypes'
    BY <1>1 DEF TypeOK, ControlTypes, IrqEnter
  <2> QED
    BY <2>1, <2>2, <2>3 DEF TypeOK
<1>2. CASE IrqLock
  <2>1. FlagTypes'
    BY <1>2, FlagsKept DEF TypeOK, IrqLock
  <2>2. DataTypes'
    BY <1>2 DEF TypeOK, DataTypes, IrqLock
  <2>3. ControlTypes'
    BY <1>2 DEF TypeOK, ControlTypes, IrqLock
  <2> QED
    BY <2>1, <2>2, <2>3 DEF TypeOK
<1>3. CASE IrqDrained
  <2>1. FlagTypes'
    BY <1>3, FlagsKept DEF TypeOK, IrqDrained, IrqUnlock
  <2>2. DataTypes'
    BY <1>3 DEF TypeOK, DataTypes, IrqDrained, IrqUnlock
  <2>3. ControlTypes'
    BY <1>3 DEF TypeOK, ControlTypes, IrqDrained, IrqUnlock
  <2> QED
    BY <2>1, <2>2, <2>3 DEF TypeOK
<1>4. CASE IrqOverflow
  <2>1. FlagTypes'
    BY <1>4, NoteHostFaultType, FlagsKept DEF TypeOK, IrqOverflow, IrqNoted, IrqUnlock
  <2>2. DataTypes'
    <3>1. /\ NoteHostFault(FALSE) /\ drained' \in {drained, 0}
          /\ pcT \notin Reports /\ pcT' \notin Reports
      BY <1>4 DEF IrqOverflow, IrqNoted, IrqUnlock
    <3>2. UNCHANGED <<fifo, recovery_fail_streak, pcW, path, left, responses>>
      BY <1>4 DEF IrqOverflow
    <3>3. recovery_path' \in Paths /\ rapid_reset_streak' \in 0 .. U8 - 1
      BY <3>1, NoteHostFaultType
    <3> QED
      BY <3>1, <3>2, <3>3 DEF TypeOK, DataTypes
  <2>3. ControlTypes'
    BY <1>4 DEF TypeOK, ControlTypes, IrqOverflow, IrqNoted, IrqUnlock
  <2> QED
    BY <2>1, <2>2, <2>3 DEF TypeOK
<1>5. CASE IrqReadFault
  <2> PICK fatal \in BOOLEAN : NoteHostFault(fatal)
    BY <1>5 DEF IrqReadFault
  <2>1. FlagTypes'
    <3>1. UNCHANGED <<irq_disabled, irq_wake, parity_boundary, work_pending,
                      cancelling, stopping>>
      BY <1>5 DEF IrqReadFault
    <3>2. /\ tail' \in BOOLEAN /\ latched' \in BOOLEAN
          /\ edge_unseen' \in BOOLEAN
      BY <1>5, TakePacketType DEF TypeOK, FlagTypes, IrqReadFault
    <3>3. /\ mode_enabled' \in BOOLEAN /\ awaiting_ready_heat' \in BOOLEAN
          /\ contacts' \in BOOLEAN /\ fatal_transport_error' \in BOOLEAN
      BY NoteHostFaultType
    <3> QED
      BY <3>1, <3>2, <3>3, FlagsKept DEF TypeOK
  <2>2. DataTypes'
    <3>1. /\ drained' \in {drained, 0}
          /\ pcT \notin Reports /\ pcT' \notin Reports
          /\ UNCHANGED <<recovery_fail_streak, pcW, path, left, responses>>
      BY <1>5 DEF IrqReadFault, IrqReading, IrqNoted, IrqUnlock
    <3>2. fifo' \in Seq(Packets)
      BY <1>5, TakePacketType DEF TypeOK, DataTypes, IrqReadFault
    <3>3. recovery_path' \in Paths /\ rapid_reset_streak' \in 0 .. U8 - 1
      BY NoteHostFaultType
    <3> QED
      BY <3>1, <3>2, <3>3 DEF TypeOK, DataTypes
  <2>3. ControlTypes'
    BY <1>5 DEF TypeOK, ControlTypes, IrqReadFault, IrqNoted, IrqUnlock
  <2> QED
    BY <2>1, <2>2, <2>3 DEF TypeOK
<1>6. CASE IrqQuiesced
  <2>1. FlagTypes'
    BY <1>6, FlagsKept DEF TypeOK, IrqQuiesced, IrqUnlock
  <2>2. DataTypes'
    BY <1>6 DEF TypeOK, DataTypes, IrqQuiesced, IrqUnlock
  <2>3. ControlTypes'
    BY <1>6 DEF TypeOK, ControlTypes, IrqQuiesced, IrqUnlock
  <2> QED
    BY <2>1, <2>2, <2>3 DEF TypeOK
<1>7. CASE IrqReadReset
  <2>1. FlagTypes'
    <3>1. UNCHANGED <<irq_disabled, irq_wake, fatal_transport_error,
                      parity_boundary, work_pending, cancelling, stopping>>
      BY <1>7 DEF IrqReadReset, IrqNoted, IrqUnlock
    <3>2. /\ tail' \in BOOLEAN /\ latched' \in BOOLEAN
          /\ edge_unseen' \in BOOLEAN /\ mode_enabled' \in BOOLEAN
          /\ awaiting_ready_heat' \in BOOLEAN /\ contacts' \in BOOLEAN
      BY <1>7, TakePacketType, NotePanelResetType DEF TypeOK, FlagTypes, IrqReadReset, IrqNoted, IrqUnlock
    <3> QED
      BY <3>1, <3>2, FlagsKept DEF TypeOK
  <2>2. DataTypes'
    <3>1. /\ TakePacket /\ NotePanelReset /\ drained' \in {drained, 0}
          /\ pcT \notin Reports /\ pcT' \notin Reports
      BY <1>7 DEF IrqReadReset, IrqReading, IrqNoted, IrqUnlock
    <3>2. UNCHANGED <<recovery_fail_streak, pcW, path, left, responses>>
      BY <1>7 DEF IrqReadReset
    <3>3. /\ fifo' \in Seq(Packets)
          /\ recovery_path' \in Paths /\ rapid_reset_streak' \in 0 .. U8 - 1
      BY <3>1, TakePacketType, NotePanelResetType
    <3> QED
      BY <3>1, <3>2, <3>3 DEF TypeOK, DataTypes
  <2>3. ControlTypes'
    BY <1>7 DEF TypeOK, ControlTypes, IrqReadReset, IrqNoted, IrqUnlock
  <2> QED
    BY <2>1, <2>2, <2>3 DEF TypeOK
<1>8. CASE IrqReadReport
  <2>1. FlagTypes'
    <3>1. UNCHANGED <<irq_disabled, irq_wake, mode_enabled,
                      awaiting_ready_heat, contacts, fatal_transport_error,
                      parity_boundary, work_pending, cancelling, stopping>>
      BY <1>8 DEF IrqReadReport
    <3>2. /\ tail' \in BOOLEAN /\ latched' \in BOOLEAN
          /\ edge_unseen' \in BOOLEAN
      BY <1>8, TakePacketType DEF TypeOK, FlagTypes, IrqReadReport
    <3> QED
      BY <3>1, <3>2, FlagsKept DEF TypeOK
  <2>2. DataTypes'
    <3>1. fifo' \in Seq(Packets)
      BY <1>8, TakePacketType DEF IrqReadReport
    <3>2. UNCHANGED <<recovery_path, recovery_fail_streak, rapid_reset_streak,
                      pcW, path, left, responses>>
      BY <1>8 DEF IrqReadReport
    <3>3. drained \in 0 .. IrqDrainLimit /\ drained < IrqDrainLimit
      BY <1>8 DEF IrqReadReport, IrqReading, TypeOK, DataTypes
    <3>4. \/ drained' = drained
          \/ drained' = 0 /\ pcT' = "idle"
          \/ drained' = drained + 1 /\ pcT' = "drain"
      BY <1>8 DEF IrqReadReport, IrqServiced, IrqUnlock
    <3>5. drained' \in 0 .. (IF pcT' \in Reports THEN IrqDrainLimit - 1
                                                 ELSE IrqDrainLimit)
      BY <3>3, <3>4
    <3> QED
      BY <3>1, <3>2, <3>5 DEF TypeOK, DataTypes
  <2>3. ControlTypes'
    <3>1. pcT' \in {"idle", "drain"} \cup Reports /\ io_lock' \in {io_lock, "free"}
      BY <1>8, TakePacketType
         DEF IrqReadReport, IrqServiced, IrqUnlock, Packets
    <3>2. UNCHANGED <<pcW, pcP>>
      BY <1>8 DEF IrqReadReport
    <3> QED
      BY <3>1, <3>2 DEF TypeOK, ControlTypes
  <2> QED
    BY <2>1, <2>2, <2>3 DEF TypeOK
<1>10. CASE IrqReport
  <2>1. FlagTypes'
    <3>1. UNCHANGED <<tail, latched, irq_disabled, irq_wake, edge_unseen,
                      fatal_transport_error, parity_boundary, work_pending,
                      cancelling, stopping>>
      BY <1>10 DEF IrqReport
    <3>2. /\ mode_enabled' \in BOOLEAN /\ awaiting_ready_heat' \in BOOLEAN
          /\ contacts' \in BOOLEAN
      BY <1>10, HandleDataType DEF IrqReport
    <3> QED
      BY <3>1, <3>2, FlagsKept DEF TypeOK
  <2>2. DataTypes'
    <3>1. UNCHANGED <<fifo, recovery_path, recovery_fail_streak,
                      rapid_reset_streak, pcW, path, left, responses>>
      BY <1>10 DEF IrqReport
    <3>2. drained \in 0 .. IrqDrainLimit - 1
      BY <1>10 DEF IrqReport, TypeOK, DataTypes
    <3>3. \/ drained' = 0 /\ pcT' = "idle"
          \/ drained' = drained + 1 /\ pcT' = "drain"
      BY <1>10 DEF IrqReport, IrqServiced, IrqUnlock
    <3>4. drained' \in 0 .. (IF pcT' \in Reports THEN IrqDrainLimit - 1
                                                 ELSE IrqDrainLimit)
      BY <3>2, <3>3
    <3> QED
      BY <3>1, <3>4 DEF TypeOK, DataTypes
  <2>3. ControlTypes'
    BY <1>10 DEF TypeOK, ControlTypes, IrqReport, IrqServiced, IrqUnlock
  <2> QED
    BY <2>1, <2>2, <2>3 DEF TypeOK
<1>9. CASE IrqSchedule
  <2>1. FlagTypes'
    BY <1>9, ScheduleType, FlagsKept DEF TypeOK, IrqSchedule, IrqUnlock
  <2>2. DataTypes'
    BY <1>9, ScheduleType DEF TypeOK, DataTypes, IrqSchedule, IrqUnlock
  <2>3. ControlTypes'
    BY <1>9 DEF TypeOK, ControlTypes, IrqSchedule, IrqUnlock
  <2> QED
    BY <2>1, <2>2, <2>3 DEF TypeOK
<1> QED
  BY <1>1, <1>2, <1>3, <1>4, <1>5, <1>6, <1>7, <1>8, <1>9, <1>10 DEF IrqThread

LEMMA TypeWorker ==
  ASSUME TypeOK, Worker
  PROVE  TypeOK'
<1> USE LimitAssumption
<1>1. CASE WkStart
  <2>1. FlagTypes'
    BY <1>1, FlagsKept DEF TypeOK, WkStart, WorkerTo
  <2>2. DataTypes'
    BY <1>1 DEF TypeOK, DataTypes, WkStart, WorkerTo
  <2>3. ControlTypes'
    BY <1>1 DEF TypeOK, ControlTypes, WkStart, WorkerTo
  <2> QED
    BY <2>1, <2>2, <2>3 DEF TypeOK
<1>2. CASE WkRefused
  <2>1. FlagTypes'
    BY <1>2, FlagsKept DEF TypeOK, WkRefused, WorkerTo
  <2>2. DataTypes'
    BY <1>2 DEF TypeOK, DataTypes, WkRefused, WorkerTo
  <2>3. ControlTypes'
    BY <1>2 DEF TypeOK, ControlTypes, WkRefused, WorkerTo
  <2> QED
    BY <2>1, <2>2, <2>3 DEF TypeOK
<1>3. CASE WkBegin
  <2>1. FlagTypes'
    BY <1>3, FlagsKept DEF TypeOK, WkBegin
  <2>2. DataTypes'
    BY <1>3 DEF TypeOK, DataTypes, WkBegin
  <2>3. ControlTypes'
    BY <1>3 DEF TypeOK, ControlTypes, WkBegin
  <2> QED
    BY <2>1, <2>2, <2>3 DEF TypeOK
<1>4. CASE WkPowerCycle
  <2>1. FlagTypes'
    <3>1. UNCHANGED <<irq_disabled, irq_wake, edge_unseen, mode_enabled,
                      awaiting_ready_heat, contacts, fatal_transport_error,
                      parity_boundary, work_pending, cancelling, stopping>>
      BY <1>4 DEF WkPowerCycle, WorkerTo
    <3>2. /\ tail' \in BOOLEAN /\ latched' \in BOOLEAN
      BY <1>4 DEF TypeOK, FlagTypes, WkPowerCycle, WorkerTo
    <3> QED
      BY <3>1, <3>2, FlagsKept DEF TypeOK
  <2>2. DataTypes'
    <3>1. fifo' \in Seq(Packets)
      BY <1>4, QueueType DEF TypeOK, DataTypes, WkPowerCycle
    <3>2. /\ pcW = "cycle"
          /\ UNCHANGED <<recovery_path, recovery_fail_streak,
                         rapid_reset_streak, pcT, drained, path, left, responses>>
      BY <1>4 DEF WkPowerCycle, WorkerTo
    <3> QED
      BY <3>1, <3>2 DEF TypeOK, DataTypes
  <2>3. ControlTypes'
    BY <1>4 DEF TypeOK, ControlTypes, WkPowerCycle, WorkerTo
  <2> QED
    BY <2>1, <2>2, <2>3 DEF TypeOK
<1>5. CASE WkReadFails
  <2>1. FlagTypes'
    <3>1. UNCHANGED <<irq_disabled, irq_wake, mode_enabled,
                      awaiting_ready_heat, contacts, parity_boundary,
                      work_pending, cancelling, stopping>>
      BY <1>5 DEF WkReadFails
    <3>2. /\ tail' \in BOOLEAN /\ latched' \in BOOLEAN
          /\ edge_unseen' \in BOOLEAN /\ fatal_transport_error' \in BOOLEAN
      BY <1>5, TakePacketType DEF TypeOK, FlagTypes, WkReadFails
    <3> QED
      BY <3>1, <3>2, FlagsKept DEF TypeOK
  <2>2. DataTypes'
    <3>1. fifo' \in Seq(Packets)
      BY <1>5, TakePacketType DEF TypeOK, DataTypes, WkReadFails
    <3>2. /\ pcW \in {"reset", "await"}
          /\ UNCHANGED <<recovery_path, recovery_fail_streak,
                         rapid_reset_streak, pcT, drained, path, left, responses>>
      BY <1>5 DEF WkReadFails, WorkerTo
    <3> QED
      BY <3>1, <3>2 DEF TypeOK, DataTypes
  <2>3. ControlTypes'
    BY <1>5 DEF TypeOK, ControlTypes, WkReadFails, WorkerTo
  <2> QED
    BY <2>1, <2>2, <2>3 DEF TypeOK
<1>6. CASE WkReadReset
  <2>1. FlagTypes'
    <3>1. UNCHANGED <<irq_disabled, irq_wake, mode_enabled,
                      awaiting_ready_heat, contacts, fatal_transport_error,
                      parity_boundary, work_pending, cancelling, stopping>>
      BY <1>6 DEF WkReadReset, WorkerTo
    <3>2. /\ tail' \in BOOLEAN /\ latched' \in BOOLEAN
          /\ edge_unseen' \in BOOLEAN
      BY <1>6, TakePacketType DEF TypeOK, FlagTypes, WkReadReset, WorkerTo
    <3> QED
      BY <3>1, <3>2, FlagsKept DEF TypeOK
  <2>2. DataTypes'
    BY <1>6, TakePacketType DEF TypeOK, DataTypes, WkReadReset, WorkerTo
  <2>3. ControlTypes'
    BY <1>6 DEF TypeOK, ControlTypes, WkReadReset, WorkerTo
  <2> QED
    BY <2>1, <2>2, <2>3 DEF TypeOK
<1>7. CASE WkSend
  <2>1. FlagTypes'
    <3>1. UNCHANGED <<irq_disabled, irq_wake, edge_unseen, mode_enabled,
                      awaiting_ready_heat, contacts, parity_boundary,
                      work_pending, cancelling, stopping>>
      BY <1>7 DEF WkSend, WorkerTo
    <3>2. /\ tail' \in BOOLEAN /\ latched' \in BOOLEAN
          /\ fatal_transport_error' \in BOOLEAN
      BY <1>7 DEF TypeOK, FlagTypes, WkSend, WorkerTo
    <3> QED
      BY <3>1, <3>2, FlagsKept DEF TypeOK
  <2>2. DataTypes'
    <3>1. fifo' \in Seq(Packets)
      BY <1>7, QueueType DEF TypeOK, DataTypes, WkSend
    <3>2. /\ pcW = "send" /\ responses' \in {responses, 0}
          /\ UNCHANGED <<recovery_path, recovery_fail_streak,
                         rapid_reset_streak, pcT, drained, path, left>>
      BY <1>7 DEF WkSend, WorkerTo
    <3> QED
      BY <3>1, <3>2 DEF TypeOK, DataTypes
  <2>3. ControlTypes'
    BY <1>7 DEF TypeOK, ControlTypes, WkSend, WorkerTo
  <2> QED
    BY <2>1, <2>2, <2>3 DEF TypeOK
<1>8. CASE WkReadReply
  <2>1. FlagTypes'
    <3>1. UNCHANGED <<irq_disabled, irq_wake, mode_enabled,
                      awaiting_ready_heat, contacts, fatal_transport_error,
                      parity_boundary, work_pending, cancelling, stopping>>
      BY <1>8 DEF WkReadReply, WorkerTo
    <3>2. /\ tail' \in BOOLEAN /\ latched' \in BOOLEAN
          /\ edge_unseen' \in BOOLEAN
      BY <1>8, TakePacketType DEF TypeOK, FlagTypes, WkReadReply, WorkerTo
    <3> QED
      BY <3>1, <3>2, FlagsKept DEF TypeOK
  <2>2. DataTypes'
    <3>1. fifo' \in Seq(Packets)
      BY <1>8, TakePacketType DEF WkReadReply
    <3>2. /\ pcW = "await" /\ responses' \in 0 .. ResponseLimit
          /\ UNCHANGED <<recovery_path, recovery_fail_streak,
                         rapid_reset_streak, pcT, drained, path>>
      <4>1. responses \in 0 .. ResponseLimit
        BY DEF TypeOK, DataTypes
      <4>2. \/ responses' = responses
            \/ responses + 1 < ResponseLimit /\ responses' = responses + 1
        BY <1>8 DEF WkReadReply, WorkerTo
      <4>3. /\ pcW = "await"
            /\ UNCHANGED <<recovery_path, recovery_fail_streak,
                           rapid_reset_streak, pcT, drained, path>>
        BY <1>8 DEF WkReadReply, WorkerTo
      <4>4. responses' \in 0 .. ResponseLimit
        BY <4>1, <4>2, LimitAssumption
      <4> QED
        BY <4>3, <4>4
    <3>3. left' \in (IF pcW' \in {"cycle", "reset", "send", "await"} THEN 1 ELSE 0)
                     .. Exchanges
      <4>1. left \in 1 .. Exchanges
        BY <3>2 DEF TypeOK, DataTypes
      <4>2. \/ left' = left
            \/ left' = left - 1 /\ pcW' = IF left = 1 THEN "finish" ELSE "send"
        BY <1>8 DEF WkReadReply, WorkerTo
      <4> QED
        <5>. PICK l \in 1 .. Exchanges : l = left
          BY <4>1
        <5>1. CASE left' = left
          BY <5>1
        <5>2. CASE left' = left - 1 /\ pcW' = IF left = 1 THEN "finish" ELSE "send"
          <6>1. CASE left = 1
            BY <5>2, <6>1, LimitAssumption
          <6>2. CASE left # 1
            BY <4>1, <5>2, <6>2, LimitAssumption
          <6> QED
            BY <6>1, <6>2
        <5> QED
          BY <4>2, <5>1, <5>2
    <3> QED
      BY <3>1, <3>2, <3>3 DEF TypeOK, DataTypes
  <2>3. ControlTypes'
    BY <1>8 DEF TypeOK, ControlTypes, WkReadReply, WorkerTo
  <2> QED
    BY <2>1, <2>2, <2>3 DEF TypeOK
<1>9. CASE WkReadPanelReset
  <2>1. FlagTypes'
    <3>1. UNCHANGED <<irq_disabled, irq_wake, fatal_transport_error,
                      parity_boundary, work_pending, cancelling, stopping>>
      BY <1>9 DEF WkReadPanelReset, WorkerTo
    <3>2. /\ tail' \in BOOLEAN /\ latched' \in BOOLEAN
          /\ edge_unseen' \in BOOLEAN /\ mode_enabled' \in BOOLEAN
          /\ awaiting_ready_heat' \in BOOLEAN /\ contacts' \in BOOLEAN
      BY <1>9, TakePacketType, NotePanelResetType DEF TypeOK, FlagTypes, WkReadPanelReset, WorkerTo
    <3> QED
      BY <3>1, <3>2, FlagsKept DEF TypeOK
  <2>2. DataTypes'
    <3>1. /\ fifo' \in Seq(Packets)
          /\ recovery_path' \in Paths /\ rapid_reset_streak' \in 0 .. U8 - 1
      BY <1>9, TakePacketType, NotePanelResetType DEF WkReadPanelReset
    <3>2. /\ pcW = "await" /\ pcW' = "fail"
          /\ UNCHANGED <<recovery_fail_streak, pcT, drained, path, left, responses>>
      BY <1>9 DEF WkReadPanelReset, WorkerTo
    <3> QED
      BY <3>1, <3>2 DEF TypeOK, DataTypes
  <2>3. ControlTypes'
    BY <1>9 DEF TypeOK, ControlTypes, WkReadPanelReset, WorkerTo
  <2> QED
    BY <2>1, <2>2, <2>3 DEF TypeOK
<1>10. CASE WkFinishRefused
  <2>1. FlagTypes'
    <3>1. UNCHANGED <<tail, latched, irq_disabled, irq_wake, edge_unseen,
                      mode_enabled, awaiting_ready_heat, contacts,
                      fatal_transport_error, parity_boundary, work_pending,
                      cancelling, stopping>>
      BY <1>10 DEF WkFinishRefused, WorkerTo
    <3> QED
      BY <3>1, FlagsKept DEF TypeOK
  <2>2. DataTypes'
    BY <1>10 DEF TypeOK, DataTypes, WkFinishRefused, WorkerTo
  <2>3. ControlTypes'
    BY <1>10 DEF TypeOK, ControlTypes, WkFinishRefused, WorkerTo
  <2> QED
    BY <2>1, <2>2, <2>3 DEF TypeOK
<1>11. CASE WkFinish
  <2>1. FlagTypes'
    BY <1>11, StreakType, FlagsKept DEF TypeOK, WkFinish, WorkerTo
  <2>2. DataTypes'
    BY <1>11, StreakType DEF TypeOK, DataTypes, WkFinish, WorkerTo, Paths
  <2>3. ControlTypes'
    BY <1>11 DEF TypeOK, ControlTypes, WkFinish, WorkerTo, Paths
  <2> QED
    BY <2>1, <2>2, <2>3 DEF TypeOK
<1>12. CASE WkFail
  <2>1. FlagTypes'
    <3>1. UNCHANGED <<tail, latched, irq_disabled, irq_wake, edge_unseen,
                      mode_enabled, awaiting_ready_heat, contacts,
                      fatal_transport_error, parity_boundary, work_pending,
                      cancelling, stopping>>
      BY <1>12 DEF WkFail, WorkerTo, Paths
    <3> QED
      BY <3>1, FlagsKept DEF TypeOK
  <2>2. DataTypes'
    BY <1>12, StreakType DEF TypeOK, DataTypes, WkFail, WorkerTo, Paths
  <2>3. ControlTypes'
    BY <1>12 DEF TypeOK, ControlTypes, WkFail, WorkerTo, Paths
  <2> QED
    BY <2>1, <2>2, <2>3 DEF TypeOK
<1>13. CASE WkReschedule
  <2>1. FlagTypes'
    <3>1. UNCHANGED <<tail, latched, irq_disabled, irq_wake, edge_unseen,
                      mode_enabled, awaiting_ready_heat, contacts,
                      fatal_transport_error, parity_boundary, cancelling,
                      stopping>>
      BY <1>13 DEF WkReschedule, WorkerTo
    <3>2. /\ work_pending' \in BOOLEAN
      BY <1>13, ScheduleType DEF TypeOK, FlagTypes, WkReschedule, WorkerTo
    <3> QED
      BY <3>1, <3>2, FlagsKept DEF TypeOK
  <2>2. DataTypes'
    BY <1>13, ScheduleType DEF TypeOK, DataTypes, WkReschedule, WorkerTo
  <2>3. ControlTypes'
    BY <1>13 DEF TypeOK, ControlTypes, WkReschedule, WorkerTo
  <2> QED
    BY <2>1, <2>2, <2>3 DEF TypeOK
<1>14. CASE WkStray
  <2>1. FlagTypes'
    BY <1>14, FlagsKept DEF TypeOK, WkStray, WorkerTo
  <2>2. DataTypes'
    BY <1>14 DEF TypeOK, DataTypes, WkStray, WorkerTo
  <2>3. ControlTypes'
    BY <1>14 DEF TypeOK, ControlTypes, WkStray, WorkerTo
  <2> QED
    BY <2>1, <2>2, <2>3 DEF TypeOK
<1> QED
  BY <1>1, <1>2, <1>3, <1>4, <1>5, <1>6, <1>7, <1>8, <1>9, <1>10, <1>11,
     <1>12, <1>13, <1>14 DEF Worker

LEMMA TypeCore ==
  ASSUME TypeOK, Core
  PROVE  TypeOK'
<1> USE LimitAssumption
<1>1. CASE SuspendStart
  <2>1. FlagTypes'
    BY <1>1, FlagsKept DEF TypeOK, SuspendStart, CoreTo
  <2>2. DataTypes'
    BY <1>1 DEF TypeOK, DataTypes, SuspendStart, CoreTo
  <2>3. ControlTypes'
    BY <1>1 DEF TypeOK, ControlTypes, SuspendStart, CoreTo
  <2> QED
    BY <2>1, <2>2, <2>3 DEF TypeOK
<1>2. CASE SuspendDisableIrq
  <2>1. FlagTypes'
    BY <1>2, FlagsKept DEF TypeOK, SuspendDisableIrq, CoreTo
  <2>2. DataTypes'
    BY <1>2 DEF TypeOK, DataTypes, SuspendDisableIrq, CoreTo
  <2>3. ControlTypes'
    BY <1>2 DEF TypeOK, ControlTypes, SuspendDisableIrq, CoreTo
  <2> QED
    BY <2>1, <2>2, <2>3 DEF TypeOK
<1>3. CASE SynchronizeIrq
  <2>1. FlagTypes'
    <3>1. UNCHANGED <<tail, latched, irq_disabled, irq_wake, edge_unseen,
                      mode_enabled, awaiting_ready_heat, contacts,
                      fatal_transport_error, parity_boundary, work_pending,
                      cancelling, stopping>>
      BY <1>3 DEF SynchronizeIrq, CoreTo
    <3> QED
      BY <3>1, FlagsKept DEF TypeOK
  <2>2. DataTypes'
    BY <1>3 DEF TypeOK, DataTypes, SynchronizeIrq, CoreTo
  <2>3. ControlTypes'
    BY <1>3 DEF TypeOK, ControlTypes, SynchronizeIrq, CoreTo
  <2> QED
    BY <2>1, <2>2, <2>3 DEF TypeOK
<1>4. CASE CancelWork
  <2>1. FlagTypes'
    BY <1>4, FlagsKept DEF TypeOK, CancelWork, CoreTo
  <2>2. DataTypes'
    BY <1>4 DEF TypeOK, DataTypes, CancelWork, CoreTo
  <2>3. ControlTypes'
    BY <1>4 DEF TypeOK, ControlTypes, CancelWork, CoreTo
  <2> QED
    BY <2>1, <2>2, <2>3 DEF TypeOK
<1>5. CASE CancelWorkDone
  <2>1. FlagTypes'
    BY <1>5, FlagsKept DEF TypeOK, CancelWorkDone, CoreTo
  <2>2. DataTypes'
    BY <1>5 DEF TypeOK, DataTypes, CancelWorkDone, CoreTo
  <2>3. ControlTypes'
    BY <1>5 DEF TypeOK, ControlTypes, CancelWorkDone, CoreTo
  <2> QED
    BY <2>1, <2>2, <2>3 DEF TypeOK
<1>6. CASE SuspendPowerOff
  <2>1. FlagTypes'
    <3>1. UNCHANGED <<latched, irq_disabled, irq_wake, edge_unseen,
                      mode_enabled, awaiting_ready_heat,
                      fatal_transport_error, parity_boundary, work_pending,
                      cancelling, stopping>>
      BY <1>6 DEF SuspendPowerOff, CoreTo
    <3>2. /\ tail' \in BOOLEAN /\ contacts' \in BOOLEAN
      BY <1>6 DEF TypeOK, FlagTypes, SuspendPowerOff, CoreTo
    <3> QED
      BY <3>1, <3>2, FlagsKept DEF TypeOK
  <2>2. DataTypes'
    BY QueueType, <1>6 DEF TypeOK, DataTypes, SuspendPowerOff, CoreTo
  <2>3. ControlTypes'
    BY <1>6 DEF TypeOK, ControlTypes, SuspendPowerOff, CoreTo
  <2> QED
    BY <2>1, <2>2, <2>3 DEF TypeOK
<1>7. CASE EnableIrq
  <2>1. FlagTypes'
    BY <1>7, FlagsKept DEF TypeOK, EnableIrq, CoreTo
  <2>2. DataTypes'
    BY <1>7 DEF TypeOK, DataTypes, EnableIrq, CoreTo
  <2>3. ControlTypes'
    BY <1>7 DEF TypeOK, ControlTypes, EnableIrq, CoreTo
  <2> QED
    BY <2>1, <2>2, <2>3 DEF TypeOK
<1>8. CASE CoreSchedule
  <2>1. FlagTypes'
    BY <1>8, ScheduleType, FlagsKept DEF TypeOK, CoreSchedule, CoreTo
  <2>2. DataTypes'
    BY <1>8, ScheduleType DEF TypeOK, DataTypes, CoreSchedule, CoreTo, Paths
  <2>3. ControlTypes'
    BY <1>8 DEF TypeOK, ControlTypes, CoreSchedule, CoreTo, Paths
  <2> QED
    BY <2>1, <2>2, <2>3 DEF TypeOK
<1>9. CASE Resume
  <2>1. FlagTypes'
    BY <1>9, FlagsKept DEF TypeOK, Resume, CoreTo
  <2>2. DataTypes'
    <3>1. fifo' \in Seq(Packets)
      BY <1>9, QueueType DEF TypeOK, DataTypes, Resume
    <3>2. /\ recovery_path' = "hardware" /\ recovery_fail_streak' = 0
          /\ UNCHANGED <<rapid_reset_streak, pcT, drained, pcW, path, left, responses>>
      BY <1>9 DEF Resume
    <3> QED
      BY <3>1, <3>2 DEF TypeOK, DataTypes, Paths
  <2>3. ControlTypes'
    BY <1>9 DEF TypeOK, ControlTypes, Resume, CoreTo, Paths
  <2> QED
    BY <2>1, <2>2, <2>3 DEF TypeOK
<1>10. CASE RemoveStart
  <2>1. FlagTypes'
    BY <1>10, FlagsKept DEF TypeOK, RemoveStart
  <2>2. DataTypes'
    BY <1>10 DEF TypeOK, DataTypes, RemoveStart
  <2>3. ControlTypes'
    BY <1>10 DEF TypeOK, ControlTypes, RemoveStart
  <2> QED
    BY <2>1, <2>2, <2>3 DEF TypeOK
<1>11. CASE RemoveRelease
  <2>1. FlagTypes'
    BY <1>11, FlagsKept DEF TypeOK, RemoveRelease, CoreTo
  <2>2. DataTypes'
    BY <1>11 DEF TypeOK, DataTypes, RemoveRelease, CoreTo
  <2>3. ControlTypes'
    BY <1>11 DEF TypeOK, ControlTypes, RemoveRelease, CoreTo
  <2> QED
    BY <2>1, <2>2, <2>3 DEF TypeOK
<1>12. CASE RemovePowerOff
  <2>1. FlagTypes'
    BY <1>12, FlagsKept DEF TypeOK, RemovePowerOff, CoreTo
  <2>2. DataTypes'
    BY QueueType, <1>12 DEF TypeOK, DataTypes, RemovePowerOff, CoreTo
  <2>3. ControlTypes'
    BY <1>12 DEF TypeOK, ControlTypes, RemovePowerOff, CoreTo
  <2> QED
    BY <2>1, <2>2, <2>3 DEF TypeOK
<1>13. CASE ReleaseTs
  <2>1. FlagTypes'
    BY <1>13, FlagsKept DEF TypeOK, ReleaseTs, CoreTo
  <2>2. DataTypes'
    BY <1>13 DEF TypeOK, DataTypes, ReleaseTs, CoreTo
  <2>3. ControlTypes'
    BY <1>13 DEF TypeOK, ControlTypes, ReleaseTs, CoreTo
  <2> QED
    BY <2>1, <2>2, <2>3 DEF TypeOK
<1> QED
  BY <1>1, <1>2, <1>3, <1>4, <1>5, <1>6, <1>7, <1>8, <1>9, <1>10, <1>11,
     <1>12, <1>13 DEF Core

LEMMA TypePanel ==
  ASSUME TypeOK, Panel \/ InterruptEdge
  PROVE  TypeOK'
<1>1. CASE TailEnds
  <2>1. FlagTypes'
    <3>1. UNCHANGED <<latched, irq_disabled, irq_wake, edge_unseen,
                      mode_enabled, awaiting_ready_heat, contacts,
                      fatal_transport_error, parity_boundary, work_pending,
                      cancelling, stopping>>
      BY <1>1 DEF TailEnds
    <3>2. /\ tail' \in BOOLEAN
      BY <1>1 DEF TypeOK, FlagTypes, TailEnds
    <3> QED
      BY <3>1, <3>2, FlagsKept DEF TypeOK
  <2>2. DataTypes' /\ ControlTypes'
    BY <1>1 DEF TypeOK, DataTypes, ControlTypes, TailEnds
  <2> QED
    BY <2>1, <2>2 DEF TypeOK
<1>2. ASSUME NEW p \in Streaming, PanelSend(p)
      PROVE  TypeOK'
  <2>1. FlagTypes'
    <3>1. UNCHANGED <<irq_disabled, irq_wake, edge_unseen, mode_enabled,
                      awaiting_ready_heat, contacts, fatal_transport_error,
                      parity_boundary, work_pending, cancelling, stopping>>
      BY <1>2 DEF PanelSend
    <3>2. /\ tail' \in BOOLEAN /\ latched' \in BOOLEAN
      BY <1>2 DEF TypeOK, FlagTypes, PanelSend
    <3> QED
      BY <3>1, <3>2, FlagsKept DEF TypeOK
  <2>2. DataTypes' /\ ControlTypes'
    BY <1>2, QueueType DEF TypeOK, DataTypes, ControlTypes, PanelSend, Streaming
  <2> QED
    BY <2>1, <2>2 DEF TypeOK
<1>3. CASE InterruptEdge
  <2>1. FlagTypes'
    <3>1. UNCHANGED <<tail, irq_disabled, mode_enabled, awaiting_ready_heat,
                      contacts, fatal_transport_error, parity_boundary,
                      work_pending, cancelling, stopping>>
      BY <1>3 DEF InterruptEdge
    <3>2. /\ latched' \in BOOLEAN /\ irq_wake' \in BOOLEAN
          /\ edge_unseen' \in BOOLEAN
      BY <1>3 DEF TypeOK, FlagTypes, InterruptEdge
    <3> QED
      BY <3>1, <3>2, FlagsKept DEF TypeOK
  <2>2. DataTypes' /\ ControlTypes'
    BY <1>3 DEF TypeOK, DataTypes, ControlTypes, InterruptEdge
  <2> QED
    BY <2>1, <2>2 DEF TypeOK
<1> QED
  BY <1>1, <1>2, <1>3 DEF Panel

LEMMA TypeStutter ==
  ASSUME TypeOK, UNCHANGED vars
  PROVE  TypeOK'
<1>1. FlagTypes'
  BY FlagsKept DEF TypeOK, vars
<1>2. DataTypes' /\ ControlTypes'
  BY DEF TypeOK, DataTypes, ControlTypes, vars
<1> QED
  BY <1>1, <1>2 DEF TypeOK

LEMMA TypeStep ==
  ASSUME TypeOK, [Next]_vars
  PROVE  TypeOK'
BY TypePanel, TypeThread, TypeWorker, TypeCore, TypeStutter DEF Next, Unbound

(* Every variable keeps its type, and the counters their width.            *)
THEOREM TypeCorrect == Spec => []TypeOK
BY TypeInit, TypeStep, PTL DEF Spec
-----------------------------------------------------------------------------
(* Frame lemmas: what each actor leaves alone.                             *)

LEMMA PanelFrame ==
  ASSUME Panel \/ InterruptEdge \/ UNCHANGED vars
  PROVE  /\ UNCHANGED <<irq_disabled, gateVars, policyVars, workVars, io_lock,
                        threadVars, workerVars, coreVars>>
         /\ irq_disabled => irq_wake' = irq_wake
BY DEF Panel, TailEnds, PanelSend, InterruptEdge, vars

LEMMA ThreadFrame ==
  ASSUME IrqThread
  PROVE  UNCHANGED <<irq_disabled, recovery_fail_streak, parity_boundary,
                     cancelling, workerVars, coreVars>>
BY DEF IrqThread, IrqEnter, IrqLock, IrqDrained, IrqOverflow, IrqReadFault,
    IrqQuiesced, IrqReadReset, IrqReadReport, IrqReport, IrqServiced,
    IrqSchedule, IrqUnlock, IrqNoted, NoteHostFault, IrqReading, NotePanelReset, HandleData, Schedule

LEMMA WorkerFrame ==
  ASSUME Worker
  PROVE  UNCHANGED <<irq_disabled, irq_wake, cancelling, threadVars, coreVars>>
BY DEF Worker, WkStart, WkStray, WkRefused, WkBegin, WkPowerCycle, WkReadFails,
    WkReadReset, WkSend, WkReadReply, WkReadPanelReset, WkFinishRefused,
    WkFinish, WkFail, WkReschedule, WorkerTo, NotePanelReset, Schedule

(* The core may close the gate and release contacts, and nothing else      *)
(* there.                                                                  *)
LEMMA CoreFrame ==
  ASSUME Core
  PROVE  /\ UNCHANGED <<irq_wake, awaiting_ready_heat, rapid_reset_streak,
                        parity_boundary, io_lock, threadVars, workerVars>>
         /\ mode_enabled' => mode_enabled
         /\ contacts' => contacts
BY DEF Core, SuspendStart, SuspendDisableIrq, SynchronizeIrq, CancelWork,
    CancelWorkDone, SuspendPowerOff, EnableIrq, CoreSchedule, Resume,
    RemoveStart, RemoveRelease, RemovePowerOff,
    ReleaseTs, CoreTo, Schedule

-----------------------------------------------------------------------------
(* io_lock: the thread and the worker exclude each other, and the gate     *)
(* stays closed while the worker has it.                                   *)
LEMMA LockThread ==
  ASSUME TypeOK, LockInv, IrqThread
  PROVE  LockInv'
<1> USE DEF Reports
<1>1. CASE IrqEnter
  BY <1>1 DEF LockInv, Attempting, IrqEnter
<1>2. CASE IrqLock
  BY <1>2 DEF LockInv, Attempting, IrqLock
<1>3. CASE IrqDrained
  BY <1>3 DEF LockInv, Attempting, IrqDrained, IrqUnlock
<1>4. CASE IrqOverflow
  BY <1>4 DEF LockInv, Attempting, IrqOverflow, IrqNoted, IrqUnlock,
     NoteHostFault
<1>5. CASE IrqReadFault
  BY <1>5 DEF LockInv, Attempting, IrqReadFault, IrqReading, IrqNoted,
     IrqUnlock, NoteHostFault
<1>6. CASE IrqQuiesced
  BY <1>6 DEF LockInv, Attempting, IrqQuiesced, IrqReading, IrqUnlock
<1>7. CASE IrqReadReset
  BY <1>7 DEF LockInv, Attempting, IrqReadReset, IrqReading, IrqNoted,
     IrqUnlock, NotePanelReset
<1>8. CASE IrqReadReport
  <2>1. mode_enabled /\ Head(fifo) # "reply" => Head(fifo) \in Reports
    BY <1>8, TakePacketType DEF IrqReadReport, Packets
  <2> QED
    BY <1>8, <2>1 DEF LockInv, Attempting, IrqReadReport, IrqReading,
       IrqServiced, IrqUnlock
<1>9. CASE IrqSchedule
  BY <1>9 DEF LockInv, Attempting, IrqSchedule, IrqUnlock, Schedule
<1>10. CASE IrqReport
  BY <1>10 DEF LockInv, Attempting, IrqReport, IrqServiced, IrqUnlock,
     HandleData
<1> QED
  BY <1>1, <1>2, <1>3, <1>4, <1>5, <1>6, <1>7, <1>8, <1>9, <1>10 DEF IrqThread

LEMMA LockWorker ==
  ASSUME LockInv, Worker
  PROVE  LockInv'
<1> USE DEF Reports
<1>1. CASE WkStart
  BY <1>1 DEF LockInv, Attempting, WkStart, WorkerTo
<1>2. CASE WkRefused
  BY <1>2 DEF LockInv, Attempting, WkRefused, WorkerTo
<1>3. CASE WkBegin
  BY <1>3 DEF LockInv, Attempting, WkBegin
<1>4. CASE WkPowerCycle
  BY <1>4 DEF LockInv, Attempting, WkPowerCycle, WorkerTo
<1>5. CASE WkReadFails
  BY <1>5 DEF LockInv, Attempting, WkReadFails, WorkerTo
<1>6. CASE WkReadReset
  BY <1>6 DEF LockInv, Attempting, WkReadReset, WorkerTo
<1>7. CASE WkSend
  BY <1>7 DEF LockInv, Attempting, WkSend, WorkerTo
<1>8. CASE WkReadReply
  BY <1>8 DEF LockInv, Attempting, WkReadReply, WorkerTo
<1>9. CASE WkReadPanelReset
  BY <1>9 DEF LockInv, Attempting, WkReadPanelReset, WorkerTo, NotePanelReset
<1>10. CASE WkFinishRefused
  BY <1>10 DEF LockInv, Attempting, WkFinishRefused, WorkerTo
<1>11. CASE WkFinish
  BY <1>11 DEF LockInv, Attempting, WkFinish, WorkerTo
<1>12. CASE WkFail
  BY <1>12 DEF LockInv, Attempting, WkFail, WorkerTo
<1>13. CASE WkReschedule
  BY <1>13 DEF LockInv, Attempting, WkReschedule, WorkerTo, Schedule
<1>14. CASE WkStray
  BY <1>14 DEF LockInv, Attempting, WkStray, WorkerTo
<1> QED
  BY <1>1, <1>2, <1>3, <1>4, <1>5, <1>6, <1>7, <1>8, <1>9, <1>10, <1>11,
     <1>12, <1>13, <1>14 DEF Worker

LEMMA LockCore ==
  ASSUME LockInv, CoreInv, Core
  PROVE  LockInv'
<1>1. /\ UNCHANGED <<io_lock, pcT, pcW, awaiting_ready_heat>>
      /\ mode_enabled' => mode_enabled
      /\ contacts' => contacts
      /\ stopping => stopping'
  BY CoreFrame DEF Core, SuspendStart, SuspendDisableIrq, SynchronizeIrq,
     CancelWork, CancelWorkDone, SuspendPowerOff, EnableIrq, CoreSchedule,
     Resume, RemoveStart, RemoveRelease, RemovePowerOff, ReleaseTs, CoreTo
<1>2. pcT \in Reports => mode_enabled' \/ pcP' \in {"disable", "drain"} \/ stopping'
  <2> SUFFICES ASSUME pcT \in Reports, ~stopping'
               PROVE  mode_enabled' \/ pcP' \in {"disable", "drain"}
    OBVIOUS
  <2>1. mode_enabled \/ pcP \in {"disable", "drain"}
    BY <1>1 DEF LockInv
  <2>2. ~ThreadQuiet /\ pcP # "removed"
    BY <1>1 DEF ThreadQuiet, Reports, CoreInv
  <2> QED
    BY <2>1, <2>2 DEF Core, SuspendStart, SuspendDisableIrq, SynchronizeIrq,
       CancelWork, CancelWorkDone, SuspendPowerOff, EnableIrq, CoreSchedule,
       Resume, RemoveStart, RemoveRelease, RemovePowerOff, ReleaseTs, CoreTo
<1> QED
  BY <1>1, <1>2 DEF LockInv, Attempting

LEMMA LockStep ==
  ASSUME TypeOK, LockInv, CoreInv, [Next]_vars
  PROVE  LockInv'
<1>1. CASE Panel \/ InterruptEdge \/ UNCHANGED vars
  BY <1>1, PanelFrame DEF LockInv, Attempting
<1> QED
  BY <1>1, LockThread, LockWorker, LockCore DEF Next, Unbound

-----------------------------------------------------------------------------
(* Suspend and remove: what each of their steps has established stays so.  *)
LEMMA CoreInvCore ==
  ASSUME LockInv, CoreInv, NoAttemptAfterRemove, Core
  PROVE  CoreInv'
<1> USE DEF Reports
<1>1. CASE SuspendStart
  BY <1>1 DEF CoreInv, ThreadQuiet, SuspendStart, CoreTo
<1>2. CASE SuspendDisableIrq
  BY <1>2 DEF CoreInv, ThreadQuiet, SuspendDisableIrq, CoreTo
<1>3. CASE SynchronizeIrq
  BY <1>3 DEF CoreInv, ThreadQuiet, SynchronizeIrq, CoreTo
<1>4. CASE CancelWork
  BY <1>4 DEF CoreInv, ThreadQuiet, CancelWork, CoreTo
<1>5. CASE CancelWorkDone
  BY <1>5 DEF CoreInv, ThreadQuiet, CancelWorkDone, CoreTo
<1>6. CASE SuspendPowerOff
  BY <1>6 DEF CoreInv, ThreadQuiet, SuspendPowerOff, CoreTo
<1>7. CASE EnableIrq
  BY <1>7 DEF CoreInv, ThreadQuiet, EnableIrq, CoreTo
<1>8. CASE CoreSchedule
  BY <1>8 DEF CoreInv, ThreadQuiet, CoreSchedule, CoreTo, Schedule
<1>9. CASE Resume
  BY <1>9 DEF CoreInv, ThreadQuiet, Resume, CoreTo
<1>10. CASE RemoveStart
  BY <1>10 DEF CoreInv, ThreadQuiet, RemoveStart
<1>11. CASE RemoveRelease
  BY <1>11 DEF CoreInv, LockInv, ThreadQuiet, RemoveRelease, CoreTo
<1>12. CASE RemovePowerOff
  BY <1>12 DEF CoreInv, ThreadQuiet, RemovePowerOff, CoreTo
<1>13. CASE ReleaseTs
  BY <1>13 DEF CoreInv, ThreadQuiet, ReleaseTs, CoreTo
<1> QED
  BY <1>1, <1>2, <1>3, <1>4, <1>5, <1>6, <1>7, <1>8, <1>9, <1>10, <1>11,
     <1>12, <1>13 DEF Core

(* A report in hand was let through by an open gate, and the worker cannot *)
(* change the gate before it is done.                                      *)
LEMMA ThreadGate ==
  ASSUME TypeOK, IrqThread, pcT' \in Reports
  PROVE  mode_enabled /\ mode_enabled'
BY TakePacketType DEF Reports, IrqThread, IrqEnter, IrqLock, IrqDrained,
   IrqOverflow, IrqReadFault, IrqQuiesced, IrqReadReset, IrqReadReport,
   IrqReport, IrqServiced, IrqSchedule, IrqUnlock, IrqNoted, NoteHostFault,
   NotePanelReset, HandleData, IrqReading

LEMMA WorkerGate ==
  ASSUME LockInv, Worker, pcT \in Reports
  PROVE  UNCHANGED gateVars
<1>1. ~Attempting /\ io_lock # "free"
  BY DEF LockInv
<1> QED
  BY <1>1 DEF Attempting, Worker, WkStart, WkStray, WkRefused, WkBegin,
     WkPowerCycle, WkReadFails, WkReadReset, WkSend, WkReadReply,
     WkReadPanelReset, WkFinishRefused, WkFinish, WkFail, WkReschedule

(* A thread that takes a step was not quiet.                               *)
LEMMA ThreadActs == IrqThread => ~ThreadQuiet
BY DEF ThreadQuiet, IrqThread, IrqEnter, IrqLock, IrqDrained, IrqOverflow,
    IrqReadFault, IrqQuiesced, IrqReadReset, IrqReadReport, IrqReport,
    IrqSchedule, IrqReading, Reports

(* A worker that takes a step was running or queued.                       *)
LEMMA WorkerActs == Worker => pcW # "idle" \/ work_pending
BY DEF Worker, WkStart, WkStray, WkRefused, WkBegin, WkPowerCycle,
    WkReadFails, WkReadReset, WkSend, WkReadReply, WkReadPanelReset,
    WkFinishRefused, WkFinish, WkFail, WkReschedule

LEMMA CoreInvStep ==
  ASSUME TypeOK, LockInv, CoreInv, NoAttemptAfterRemove, [Next]_vars
  PROVE  CoreInv'
<1>1. CASE Panel \/ InterruptEdge \/ UNCHANGED vars
  BY <1>1, PanelFrame DEF CoreInv, ThreadQuiet
<1>2. CASE IrqThread
  <2>1. pcP \notin {"cancel", "await", "poweroff", "suspended", "releasing",
                    "unbound"}
    BY <1>2, ThreadActs DEF CoreInv
  <2>2. UNCHANGED <<irq_disabled, cancelling, pcW, coreVars>>
    BY <1>2, ThreadFrame
  <2>3. pcT' \in Reports => mode_enabled'
    BY <1>2, ThreadGate
  <2> QED
    BY <2>1, <2>2, <2>3 DEF CoreInv
<1>3. CASE Worker
  <2>1. pcP \notin {"poweroff", "suspended"}
    BY <1>3, WorkerActs DEF CoreInv
  <2>2. work_pending' => work_pending \/ ~cancelling
    BY <1>3 DEF Worker, WkStart, WkStray, WkRefused, WkBegin, WkPowerCycle,
        WkReadFails, WkReadReset, WkSend, WkReadReply, WkReadPanelReset,
        WkFinishRefused, WkFinish, WkFail, WkReschedule, Schedule
  <2>3. pcW' = "stray" => pcW = "stray" \/ pcP = "unbound"
    BY <1>3 DEF Worker, WkStart, WkStray, WkRefused, WkBegin, WkPowerCycle,
        WkReadFails, WkReadReset, WkSend, WkReadReply, WkReadPanelReset,
        WkFinishRefused, WkFinish, WkFail, WkReschedule, WorkerTo
  <2>4. pcT \in Reports => mode_enabled' = mode_enabled
    BY <1>3, WorkerGate
  <2>5. UNCHANGED <<irq_disabled, irq_wake, cancelling, pcT, coreVars>>
    BY <1>3, WorkerFrame
  <2> QED
    BY <2>1, <2>2, <2>3, <2>4, <2>5 DEF CoreInv, ThreadQuiet
<1> QED
  BY <1>1, <1>2, <1>3, CoreInvCore DEF Next, Unbound

-----------------------------------------------------------------------------
(* The remaining parts of the invariant, one lemma each.                   *)

LEMMA StormStep ==
  ASSUME StormEscalates, [Next]_vars
  PROVE  StormEscalates'
<1>1. CASE Panel \/ InterruptEdge \/ UNCHANGED vars
  BY <1>1, PanelFrame DEF StormEscalates
<1>2. CASE IrqThread
  <2>1. CASE IrqEnter
    BY <2>1 DEF StormEscalates, IrqEnter
  <2>2. CASE IrqLock
    BY <2>2 DEF StormEscalates, IrqLock
  <2>3. CASE IrqDrained
    BY <2>3 DEF StormEscalates, IrqDrained, IrqUnlock
  <2>4. CASE IrqOverflow
    BY <2>4 DEF StormEscalates, IrqOverflow, IrqNoted, IrqUnlock,
       NoteHostFault
  <2>5. CASE IrqReadFault
    BY <2>5 DEF StormEscalates, IrqReadFault, IrqReading, IrqNoted,
       IrqUnlock, NoteHostFault
  <2>6. CASE IrqQuiesced
    BY <2>6 DEF StormEscalates, IrqQuiesced, IrqReading, IrqUnlock
  <2>7. CASE IrqReadReset
    BY <2>7 DEF StormEscalates, IrqReadReset, IrqReading, IrqNoted,
       IrqUnlock, NotePanelReset
  <2>8. CASE IrqReadReport
    BY <2>8 DEF StormEscalates, IrqReadReport, IrqReading, IrqServiced,
       IrqUnlock
  <2>9. CASE IrqSchedule
    BY <2>9 DEF StormEscalates, IrqSchedule, IrqUnlock, Schedule
  <2>10. CASE IrqReport
    BY <2>10 DEF StormEscalates, IrqReport, IrqServiced,
       IrqUnlock, HandleData
  <2> QED
    BY <1>2, <2>1, <2>2, <2>3, <2>4, <2>5, <2>6, <2>7, <2>8, <2>9, <2>10
       DEF IrqThread
<1>3. CASE Worker
  <2>1. CASE WkStart
    BY <2>1 DEF StormEscalates, WkStart, WorkerTo
  <2>2. CASE WkRefused
    BY <2>2 DEF StormEscalates, WkRefused, WorkerTo
  <2>3. CASE WkBegin
    BY <2>3 DEF StormEscalates, WkBegin
  <2>4. CASE WkPowerCycle
    BY <2>4 DEF StormEscalates, WkPowerCycle, WorkerTo
  <2>5. CASE WkReadFails
    BY <2>5 DEF StormEscalates, WkReadFails, WorkerTo
  <2>6. CASE WkReadReset
    BY <2>6 DEF StormEscalates, WkReadReset, WorkerTo
  <2>7. CASE WkSend
    BY <2>7 DEF StormEscalates, WkSend, WorkerTo
  <2>8. CASE WkReadReply
    BY <2>8 DEF StormEscalates, WkReadReply, WorkerTo
  <2>9. CASE WkReadPanelReset
    BY <2>9 DEF StormEscalates, WkReadPanelReset, WorkerTo, NotePanelReset
  <2>10. CASE WkFinishRefused
    BY <2>10 DEF StormEscalates, WkFinishRefused, WorkerTo
  <2>11. CASE WkFinish
    BY <2>11 DEF StormEscalates, WkFinish, WorkerTo
  <2>12. CASE WkFail
    BY <2>12 DEF StormEscalates, WkFail, WorkerTo
  <2>13. CASE WkReschedule
    BY <2>13 DEF StormEscalates, WkReschedule, WorkerTo, Schedule
  <2>14. CASE WkStray
    BY <2>14 DEF StormEscalates, WkStray, WorkerTo
  <2> QED
    BY <1>3, <2>1, <2>2, <2>3, <2>4, <2>5, <2>6, <2>7, <2>8, <2>9, <2>10, <2>11,
       <2>12, <2>13, <2>14 DEF Worker
<1>4. CASE Core
  BY <1>4, CoreFrame DEF StormEscalates, Core, SuspendStart,
      SuspendDisableIrq, SynchronizeIrq, CancelWork, CancelWorkDone,
      SuspendPowerOff, EnableIrq, CoreSchedule, Resume, RemoveStart,
      RemoveRelease, RemovePowerOff,
      ReleaseTs, CoreTo, Schedule
<1> QED
  BY <1>1, <1>2, <1>3, <1>4 DEF Next, Unbound

(* The thread cannot count a reset while the worker holds io_lock, and a   *)
(* reset the worker itself reads ends its attempt.                         *)
LEMMA StormInvStep ==
  ASSUME TypeOK, LockInv, StormEscalates, StormInv, [Next]_vars
  PROVE  StormInv'
<1> DEFINE On == {"cycle", "reset", "send", "await", "finish"}
<1>1. CASE Panel \/ InterruptEdge \/ UNCHANGED vars
  BY <1>1, PanelFrame DEF StormInv
<1>2. CASE IrqThread
  <2> SUFFICES ASSUME pcW \in On PROVE rapid_reset_streak' = rapid_reset_streak
    BY <1>2, ThreadFrame DEF StormInv
  <2>1. pcT \notin {"drain", "schedule"} \cup Reports
    BY DEF LockInv, Attempting
  <2> QED
    BY <1>2, <2>1 DEF IrqThread, IrqEnter, IrqLock, IrqDrained, IrqOverflow,
       IrqReadFault, IrqQuiesced, IrqReadReset, IrqReadReport, IrqReport,
       IrqSchedule, IrqReading
<1>3. CASE Worker
  <2>1. CASE WkBegin
    <3>1. /\ path' = recovery_path /\ rapid_reset_streak' = rapid_reset_streak
          /\ rapid_reset_streak \in Nat /\ ResetStormLimit \in Nat
      BY <2>1, LimitAssumption DEF WkBegin, TypeOK, DataTypes
    <3> QED
      BY <3>1 DEF StormEscalates, StormInv
  <2>2. CASE ~WkBegin
    <3>1. pcW' \in On => /\ pcW \in On
                         /\ UNCHANGED <<path, rapid_reset_streak>>
      BY <1>3, <2>2 DEF Worker, WkStart, WkStray, WkRefused, WkPowerCycle,
         WkReadFails, WkReadReset, WkSend, WkReadReply, WkReadPanelReset,
         WkFinishRefused, WkFinish, WkFail, WkReschedule, WorkerTo
    <3> QED
      BY <3>1 DEF StormInv
  <2> QED
    BY <2>1, <2>2
<1>4. CASE Core
  BY <1>4, CoreFrame DEF StormInv
<1> QED
  BY <1>1, <1>2, <1>3, <1>4 DEF Next, Unbound

LEMMA GateStep ==
  ASSUME LockInv, CoreInv, GateReleasesContacts, [Next]_vars
  PROVE  GateReleasesContacts'
<1>1. CASE Panel \/ InterruptEdge \/ UNCHANGED vars
  BY <1>1, PanelFrame DEF GateReleasesContacts
<1>2. CASE IrqThread
  <2>1. CASE IrqEnter
    BY <2>1 DEF GateReleasesContacts, IrqEnter
  <2>2. CASE IrqLock
    BY <2>2 DEF GateReleasesContacts, IrqLock
  <2>3. CASE IrqDrained
    BY <2>3 DEF GateReleasesContacts, IrqDrained, IrqUnlock
  <2>4. CASE IrqOverflow
    BY <2>4 DEF GateReleasesContacts, IrqOverflow, IrqNoted, IrqUnlock,
       NoteHostFault
  <2>5. CASE IrqReadFault
    BY <2>5 DEF GateReleasesContacts, IrqReadFault, IrqReading, IrqNoted,
       IrqUnlock, NoteHostFault
  <2>6. CASE IrqQuiesced
    BY <2>6 DEF GateReleasesContacts, IrqQuiesced, IrqReading, IrqUnlock
  <2>7. CASE IrqReadReset
    BY <2>7 DEF GateReleasesContacts, IrqReadReset, IrqReading, IrqNoted,
       IrqUnlock, NotePanelReset
  <2>8. CASE IrqReadReport
    BY <2>8 DEF GateReleasesContacts, IrqReadReport, IrqReading, IrqServiced,
       IrqUnlock
  <2>9. CASE IrqSchedule
    BY <2>9 DEF GateReleasesContacts, IrqSchedule, IrqUnlock, Schedule
  <2>10. CASE IrqReport
    BY <2>10 DEF GateReleasesContacts, LockInv, CoreInv, Reports, IrqReport, IrqServiced,
       IrqUnlock, HandleData
  <2> QED
    BY <1>2, <2>1, <2>2, <2>3, <2>4, <2>5, <2>6, <2>7, <2>8, <2>9, <2>10
       DEF IrqThread
<1>3. CASE Worker
  <2>1. CASE WkStart
    BY <2>1 DEF GateReleasesContacts, LockInv, Attempting, WkStart, WorkerTo
  <2>2. CASE WkRefused
    BY <2>2 DEF GateReleasesContacts, LockInv, Attempting, WkRefused,
       WorkerTo
  <2>3. CASE WkBegin
    BY <2>3 DEF GateReleasesContacts, LockInv, Attempting, WkBegin
  <2>4. CASE WkPowerCycle
    BY <2>4 DEF GateReleasesContacts, LockInv, Attempting, WkPowerCycle,
       WorkerTo
  <2>5. CASE WkReadFails
    BY <2>5 DEF GateReleasesContacts, LockInv, Attempting, WkReadFails,
       WorkerTo
  <2>6. CASE WkReadReset
    BY <2>6 DEF GateReleasesContacts, LockInv, Attempting, WkReadReset,
       WorkerTo
  <2>7. CASE WkSend
    BY <2>7 DEF GateReleasesContacts, LockInv, Attempting, WkSend, WorkerTo
  <2>8. CASE WkReadReply
    BY <2>8 DEF GateReleasesContacts, LockInv, Attempting, WkReadReply,
       WorkerTo
  <2>9. CASE WkReadPanelReset
    BY <2>9 DEF GateReleasesContacts, LockInv, Attempting, WkReadPanelReset,
       WorkerTo, NotePanelReset
  <2>10. CASE WkFinishRefused
    BY <2>10 DEF GateReleasesContacts, LockInv, Attempting, WkFinishRefused,
       WorkerTo
  <2>11. CASE WkFinish
    BY <2>11 DEF GateReleasesContacts, LockInv, Attempting, WkFinish,
       WorkerTo
  <2>12. CASE WkFail
    BY <2>12 DEF GateReleasesContacts, LockInv, Attempting, WkFail, WorkerTo
  <2>13. CASE WkReschedule
    BY <2>13 DEF GateReleasesContacts, LockInv, Attempting, WkReschedule,
       WorkerTo, Schedule
  <2>14. CASE WkStray
    BY <2>14 DEF GateReleasesContacts, WkStray, WorkerTo
  <2> QED
    BY <1>3, <2>1, <2>2, <2>3, <2>4, <2>5, <2>6, <2>7, <2>8, <2>9, <2>10, <2>11,
       <2>12, <2>13, <2>14 DEF Worker
<1>4. CASE Core
  <2>1. CASE SuspendStart
    BY <2>1 DEF GateReleasesContacts, SuspendStart, CoreTo
  <2>2. CASE SuspendDisableIrq
    BY <2>2 DEF GateReleasesContacts, SuspendDisableIrq, CoreTo
  <2>3. CASE SynchronizeIrq
    BY <2>3 DEF GateReleasesContacts, SynchronizeIrq, CoreTo
  <2>4. CASE CancelWork
    BY <2>4 DEF GateReleasesContacts, CancelWork, CoreTo
  <2>5. CASE CancelWorkDone
    BY <2>5 DEF GateReleasesContacts, CancelWorkDone, CoreTo
  <2>6. CASE SuspendPowerOff
    BY <2>6 DEF GateReleasesContacts, SuspendPowerOff, CoreTo
  <2>7. CASE EnableIrq
    BY <2>7 DEF GateReleasesContacts, EnableIrq, CoreTo
  <2>8. CASE CoreSchedule
    BY <2>8 DEF GateReleasesContacts, CoreSchedule, CoreTo, Schedule
  <2>9. CASE Resume
    BY <2>9 DEF GateReleasesContacts, Resume, CoreTo
  <2>10. CASE RemoveStart
    BY <2>10 DEF GateReleasesContacts, RemoveStart
  <2>11. CASE RemoveRelease
    BY <2>11 DEF GateReleasesContacts, RemoveRelease, CoreTo
  <2>12. CASE RemovePowerOff
    BY <2>12 DEF GateReleasesContacts, RemovePowerOff, CoreTo
  <2>13. CASE ReleaseTs
    BY <2>13 DEF GateReleasesContacts, ReleaseTs, CoreTo
  <2> QED
    BY <1>4, <2>1, <2>2, <2>3, <2>4, <2>5, <2>6, <2>7, <2>8, <2>9, <2>10, <2>11,
       <2>12, <2>13 DEF Core
<1> QED
  BY <1>1, <1>2, <1>3, <1>4 DEF Next, Unbound

LEMMA ReadyStep ==
  ASSUME LockInv, ReadyHeatGate, [Next]_vars
  PROVE  ReadyHeatGate'
<1>1. CASE Panel \/ InterruptEdge \/ UNCHANGED vars
  BY <1>1, PanelFrame DEF ReadyHeatGate
<1>2. CASE IrqThread
  <2>1. CASE IrqEnter
    BY <2>1 DEF ReadyHeatGate, IrqEnter
  <2>2. CASE IrqLock
    BY <2>2 DEF ReadyHeatGate, IrqLock
  <2>3. CASE IrqDrained
    BY <2>3 DEF ReadyHeatGate, IrqDrained, IrqUnlock
  <2>4. CASE IrqOverflow
    BY <2>4 DEF ReadyHeatGate, IrqOverflow, IrqNoted, IrqUnlock,
       NoteHostFault
  <2>5. CASE IrqReadFault
    BY <2>5 DEF ReadyHeatGate, IrqReadFault, IrqReading, IrqNoted, IrqUnlock,
       NoteHostFault
  <2>6. CASE IrqQuiesced
    BY <2>6 DEF ReadyHeatGate, IrqQuiesced, IrqReading, IrqUnlock
  <2>7. CASE IrqReadReset
    BY <2>7 DEF ReadyHeatGate, IrqReadReset, IrqReading, IrqNoted, IrqUnlock,
       NotePanelReset
  <2>8. CASE IrqReadReport
    BY <2>8 DEF ReadyHeatGate, IrqReadReport, IrqReading, IrqServiced,
       IrqUnlock
  <2>9. CASE IrqSchedule
    BY <2>9 DEF ReadyHeatGate, IrqSchedule, IrqUnlock, Schedule
  <2>10. CASE IrqReport
    BY <2>10 DEF ReadyHeatGate, IrqReport, IrqServiced,
       IrqUnlock, HandleData
  <2> QED
    BY <1>2, <2>1, <2>2, <2>3, <2>4, <2>5, <2>6, <2>7, <2>8, <2>9, <2>10
       DEF IrqThread
<1>3. CASE Worker
  <2>1. CASE WkStart
    BY <2>1 DEF ReadyHeatGate, LockInv, Attempting, WkStart, WorkerTo
  <2>2. CASE WkRefused
    BY <2>2 DEF ReadyHeatGate, LockInv, Attempting, WkRefused, WorkerTo
  <2>3. CASE WkBegin
    BY <2>3 DEF ReadyHeatGate, LockInv, Attempting, WkBegin
  <2>4. CASE WkPowerCycle
    BY <2>4 DEF ReadyHeatGate, LockInv, Attempting, WkPowerCycle, WorkerTo
  <2>5. CASE WkReadFails
    BY <2>5 DEF ReadyHeatGate, LockInv, Attempting, WkReadFails, WorkerTo
  <2>6. CASE WkReadReset
    BY <2>6 DEF ReadyHeatGate, LockInv, Attempting, WkReadReset, WorkerTo
  <2>7. CASE WkSend
    BY <2>7 DEF ReadyHeatGate, LockInv, Attempting, WkSend, WorkerTo
  <2>8. CASE WkReadReply
    BY <2>8 DEF ReadyHeatGate, LockInv, Attempting, WkReadReply, WorkerTo
  <2>9. CASE WkReadPanelReset
    BY <2>9 DEF ReadyHeatGate, LockInv, Attempting, WkReadPanelReset,
       WorkerTo, NotePanelReset
  <2>10. CASE WkFinishRefused
    BY <2>10 DEF ReadyHeatGate, LockInv, Attempting, WkFinishRefused,
       WorkerTo
  <2>11. CASE WkFinish
    BY <2>11 DEF ReadyHeatGate, LockInv, Attempting, WkFinish, WorkerTo
  <2>12. CASE WkFail
    BY <2>12 DEF ReadyHeatGate, LockInv, Attempting, WkFail, WorkerTo
  <2>13. CASE WkReschedule
    BY <2>13 DEF ReadyHeatGate, LockInv, Attempting, WkReschedule, WorkerTo,
       Schedule
  <2>14. CASE WkStray
    BY <2>14 DEF ReadyHeatGate, WkStray, WorkerTo
  <2> QED
    BY <1>3, <2>1, <2>2, <2>3, <2>4, <2>5, <2>6, <2>7, <2>8, <2>9, <2>10, <2>11,
       <2>12, <2>13, <2>14 DEF Worker
<1>4. CASE Core
  BY <1>4, CoreFrame DEF ReadyHeatGate
<1> QED
  BY <1>1, <1>2, <1>3, <1>4 DEF Next, Unbound

LEMMA RemoveStep ==
  ASSUME CoreInv, CoreInv', NoAttemptAfterRemove, [Next]_vars
  PROVE  NoAttemptAfterRemove'
<1>1. CASE Panel \/ InterruptEdge \/ UNCHANGED vars
  BY <1>1, PanelFrame DEF NoAttemptAfterRemove, CoreInv
<1>2. CASE IrqThread
  BY <1>2, ThreadFrame DEF NoAttemptAfterRemove, CoreInv
<1>3. CASE Worker
  <2>1. CASE WkStart
    BY <2>1 DEF NoAttemptAfterRemove, CoreInv, WkStart, WorkerTo
  <2>2. CASE WkRefused
    BY <2>2 DEF NoAttemptAfterRemove, CoreInv, WkRefused,
       WorkerTo
  <2>3. CASE WkBegin
    BY <2>3 DEF NoAttemptAfterRemove, CoreInv, WkBegin
  <2>4. CASE WkPowerCycle
    BY <2>4 DEF NoAttemptAfterRemove, CoreInv, WkPowerCycle,
       WorkerTo
  <2>5. CASE WkReadFails
    BY <2>5 DEF NoAttemptAfterRemove, CoreInv, WkReadFails,
       WorkerTo
  <2>6. CASE WkReadReset
    BY <2>6 DEF NoAttemptAfterRemove, CoreInv, WkReadReset,
       WorkerTo
  <2>7. CASE WkSend
    BY <2>7 DEF NoAttemptAfterRemove, CoreInv, WkSend, WorkerTo
  <2>8. CASE WkReadReply
    BY <2>8 DEF NoAttemptAfterRemove, CoreInv, WkReadReply,
       WorkerTo
  <2>9. CASE WkReadPanelReset
    BY <2>9 DEF NoAttemptAfterRemove, CoreInv, WkReadPanelReset,
       WorkerTo, NotePanelReset
  <2>10. CASE WkFinishRefused
    BY <2>10 DEF NoAttemptAfterRemove, CoreInv, WkFinishRefused,
       WorkerTo
  <2>11. CASE WkFinish
    BY <2>11 DEF NoAttemptAfterRemove, CoreInv, WkFinish,
       WorkerTo
  <2>12. CASE WkFail
    BY <2>12 DEF NoAttemptAfterRemove, CoreInv, WkFail, WorkerTo
  <2>13. CASE WkReschedule
    BY <2>13 DEF NoAttemptAfterRemove, CoreInv, WkReschedule,
       WorkerTo, Schedule
  <2>14. CASE WkStray
    BY <2>14 DEF NoAttemptAfterRemove, CoreInv, WkStray, WorkerTo
  <2> QED
    BY <1>3, <2>1, <2>2, <2>3, <2>4, <2>5, <2>6, <2>7, <2>8, <2>9, <2>10, <2>11,
       <2>12, <2>13, <2>14 DEF Worker
<1>4. CASE Core
  <2>1. CASE SuspendStart
    BY <2>1 DEF NoAttemptAfterRemove, CoreInv, SuspendStart, CoreTo
  <2>2. CASE SuspendDisableIrq
    BY <2>2 DEF NoAttemptAfterRemove, CoreInv, SuspendDisableIrq, CoreTo
  <2>3. CASE SynchronizeIrq
    BY <2>3 DEF NoAttemptAfterRemove, CoreInv, SynchronizeIrq, CoreTo
  <2>4. CASE CancelWork
    BY <2>4 DEF NoAttemptAfterRemove, CoreInv, CancelWork, CoreTo
  <2>5. CASE CancelWorkDone
    BY <2>5 DEF NoAttemptAfterRemove, CoreInv, CancelWorkDone, CoreTo
  <2>6. CASE SuspendPowerOff
    BY <2>6 DEF NoAttemptAfterRemove, CoreInv, SuspendPowerOff, CoreTo
  <2>7. CASE EnableIrq
    BY <2>7 DEF NoAttemptAfterRemove, CoreInv, EnableIrq, CoreTo
  <2>8. CASE CoreSchedule
    BY <2>8 DEF NoAttemptAfterRemove, CoreInv, CoreSchedule, CoreTo,
       Schedule
  <2>9. CASE Resume
    BY <2>9 DEF NoAttemptAfterRemove, CoreInv, Resume, CoreTo
  <2>10. CASE RemoveStart
    BY <2>10 DEF NoAttemptAfterRemove, CoreInv, RemoveStart
  <2>11. CASE RemoveRelease
    BY <2>11 DEF NoAttemptAfterRemove, CoreInv, RemoveRelease, CoreTo
  <2>12. CASE RemovePowerOff
    BY <2>12 DEF NoAttemptAfterRemove, CoreInv, RemovePowerOff, CoreTo
  <2>13. CASE ReleaseTs
    BY <2>13 DEF NoAttemptAfterRemove, CoreInv, ReleaseTs, CoreTo
  <2> QED
    BY <1>4, <2>1, <2>2, <2>3, <2>4, <2>5, <2>6, <2>7, <2>8, <2>9, <2>10, <2>11,
       <2>12, <2>13 DEF Core
<1> QED
  BY <1>1, <1>2, <1>3, <1>4 DEF Next, Unbound

LEMMA OrphanStep ==
  ASSUME TypeOK, CoreInv, NoOrphanedGate, [Next]_vars
  PROVE  NoOrphanedGate'
<1>1. CASE Panel \/ InterruptEdge \/ UNCHANGED vars
  BY <1>1, PanelFrame DEF NoOrphanedGate, GaveUp
<1>2. CASE IrqThread
  <2>1. CASE IrqEnter
    BY <2>1 DEF NoOrphanedGate, GaveUp, CoreInv, IrqEnter
  <2>2. CASE IrqLock
    BY <2>2 DEF NoOrphanedGate, GaveUp, CoreInv, IrqLock
  <2>3. CASE IrqDrained
    BY <2>3 DEF NoOrphanedGate, GaveUp, CoreInv, IrqDrained, IrqUnlock
  <2>4. CASE IrqOverflow
    BY <2>4 DEF NoOrphanedGate, GaveUp, CoreInv, IrqOverflow, IrqNoted,
       IrqUnlock, NoteHostFault
  <2>5. CASE IrqReadFault
    BY <2>5 DEF NoOrphanedGate, GaveUp, CoreInv, IrqReadFault, IrqReading,
       IrqNoted, IrqUnlock, NoteHostFault
  <2>6. CASE IrqQuiesced
    BY <2>6 DEF NoOrphanedGate, GaveUp, CoreInv, IrqQuiesced, IrqReading,
       IrqUnlock
  <2>7. CASE IrqReadReset
    BY <2>7 DEF NoOrphanedGate, GaveUp, CoreInv, IrqReadReset, IrqReading,
       IrqNoted, IrqUnlock, NotePanelReset
  <2>8. CASE IrqReadReport
    BY <2>8 DEF NoOrphanedGate, GaveUp, CoreInv, IrqReadReport, IrqReading, IrqServiced,
       IrqUnlock
  <2>9. CASE IrqSchedule
    BY <2>9 DEF NoOrphanedGate, GaveUp, CoreInv, IrqSchedule, IrqUnlock,
       Schedule
  <2>10. CASE IrqReport
    BY <2>10 DEF NoOrphanedGate, GaveUp, CoreInv, IrqReport, IrqServiced,
       IrqUnlock, HandleData
  <2> QED
    BY <1>2, <2>1, <2>2, <2>3, <2>4, <2>5, <2>6, <2>7, <2>8, <2>9, <2>10
       DEF IrqThread
<1>3. CASE Worker
  <2>1. CASE WkStart
    BY <2>1 DEF NoOrphanedGate, GaveUp, CoreInv, WkStart, WorkerTo
  <2>2. CASE WkRefused
    BY <2>2 DEF NoOrphanedGate, GaveUp, CoreInv, WkRefused, WorkerTo
  <2>3. CASE WkBegin
    BY <2>3 DEF NoOrphanedGate, GaveUp, CoreInv, WkBegin
  <2>4. CASE WkPowerCycle
    BY <2>4 DEF NoOrphanedGate, GaveUp, CoreInv, WkPowerCycle, WorkerTo
  <2>5. CASE WkReadFails
    BY <2>5 DEF NoOrphanedGate, GaveUp, CoreInv, WkReadFails, WorkerTo
  <2>6. CASE WkReadReset
    BY <2>6 DEF NoOrphanedGate, GaveUp, CoreInv, WkReadReset, WorkerTo
  <2>7. CASE WkSend
    BY <2>7 DEF NoOrphanedGate, GaveUp, CoreInv, WkSend, WorkerTo
  <2>8. CASE WkReadReply
    BY <2>8 DEF NoOrphanedGate, GaveUp, CoreInv, WkReadReply, WorkerTo
  <2>9. CASE WkReadPanelReset
    BY <2>9 DEF NoOrphanedGate, GaveUp, CoreInv, WkReadPanelReset, WorkerTo,
       NotePanelReset
  <2>10. CASE WkFinishRefused
    BY <2>10 DEF NoOrphanedGate, GaveUp, CoreInv, WkFinishRefused, WorkerTo
  <2>11. CASE WkFinish
    BY <2>11 DEF NoOrphanedGate, GaveUp, CoreInv, WkFinish, WorkerTo
  <2>12. CASE WkFail
    <3>1. recovery_fail_streak' \in Nat /\ RecoveryLimit \in Nat
      BY TypeStep, LimitAssumption DEF TypeOK, DataTypes
    <3> QED
      BY <2>12, <3>1 DEF NoOrphanedGate, GaveUp, CoreInv, WkFail, WorkerTo
  <2>13. CASE WkReschedule
    BY <2>13 DEF NoOrphanedGate, GaveUp, CoreInv, WkReschedule, WorkerTo,
       Schedule
  <2>14. CASE WkStray
    BY <2>14 DEF NoOrphanedGate, GaveUp, CoreInv, WkStray, WorkerTo
  <2> QED
    BY <1>3, <2>1, <2>2, <2>3, <2>4, <2>5, <2>6, <2>7, <2>8, <2>9, <2>10, <2>11,
       <2>12, <2>13, <2>14 DEF Worker
<1>4. CASE Core
  <2>1. CASE SuspendStart
    BY <2>1 DEF NoOrphanedGate, GaveUp, CoreInv, SuspendStart, CoreTo
  <2>2. CASE SuspendDisableIrq
    BY <2>2 DEF NoOrphanedGate, GaveUp, CoreInv, SuspendDisableIrq, CoreTo
  <2>3. CASE SynchronizeIrq
    BY <2>3 DEF NoOrphanedGate, GaveUp, CoreInv, SynchronizeIrq, CoreTo
  <2>4. CASE CancelWork
    BY <2>4 DEF NoOrphanedGate, GaveUp, CoreInv, CancelWork, CoreTo
  <2>5. CASE CancelWorkDone
    BY <2>5 DEF NoOrphanedGate, GaveUp, CoreInv, CancelWorkDone, CoreTo
  <2>6. CASE SuspendPowerOff
    BY <2>6 DEF NoOrphanedGate, GaveUp, CoreInv, SuspendPowerOff, CoreTo
  <2>7. CASE EnableIrq
    BY <2>7 DEF NoOrphanedGate, GaveUp, CoreInv, EnableIrq, CoreTo
  <2>8. CASE CoreSchedule
    BY <2>8 DEF NoOrphanedGate, GaveUp, CoreInv, CoreSchedule, CoreTo,
       Schedule
  <2>9. CASE Resume
    BY <2>9 DEF NoOrphanedGate, GaveUp, CoreInv, Resume, CoreTo
  <2>10. CASE RemoveStart
    BY <2>10 DEF NoOrphanedGate, GaveUp, CoreInv, RemoveStart
  <2>11. CASE RemoveRelease
    BY <2>11 DEF NoOrphanedGate, GaveUp, CoreInv, RemoveRelease, CoreTo
  <2>12. CASE RemovePowerOff
    BY <2>12 DEF NoOrphanedGate, GaveUp, CoreInv, RemovePowerOff, CoreTo
  <2>13. CASE ReleaseTs
    BY <2>13 DEF NoOrphanedGate, GaveUp, CoreInv, ReleaseTs, CoreTo
  <2> QED
    BY <1>4, <2>1, <2>2, <2>3, <2>4, <2>5, <2>6, <2>7, <2>8, <2>9, <2>10, <2>11,
       <2>12, <2>13 DEF Core
<1> QED
  BY <1>1, <1>2, <1>3, <1>4 DEF Next, Unbound

-----------------------------------------------------------------------------
LEMMA InvInit == Init => IInv
<1> SUFFICES ASSUME Init PROVE IInv
  OBVIOUS
<1>1. TypeOK
  BY TypeInit
<1>2. LockInv /\ CoreInv /\ StormInv
  BY DEF Init, LockInv, CoreInv, StormInv, Attempting, ThreadQuiet, Reports
<1>3. NoOrphanedGate /\ GateReleasesContacts /\ ReadyHeatGate /\ NoAttemptAfterRemove
  BY DEF Init, NoOrphanedGate, GateReleasesContacts, ReadyHeatGate,
         NoAttemptAfterRemove
<1>4. StormEscalates
  BY DEF Init, StormEscalates
<1> QED
  BY <1>1, <1>2, <1>3, <1>4 DEF IInv

LEMMA InvStep == IInv /\ [Next]_vars => IInv'
BY TypeStep, LockStep, CoreInvStep, OrphanStep, GateStep, ReadyStep, RemoveStep,
   StormStep, StormInvStep DEF IInv

(* IInv is inductive.                                                      *)
THEOREM Invariance == Spec => []IInv
BY InvInit, InvStep, PTL DEF Spec

(* A gated driver never loses its recovery: see NoOrphanedGate.            *)
THEOREM NeverOrphaned == Spec => []NoOrphanedGate
<1>1. IInv => NoOrphanedGate
  BY DEF IInv
<1> QED
  BY <1>1, Invariance, PTL

(* No contact is held down over a closed gate: see GateReleasesContacts.   *)
THEOREM ContactsReleased == Spec => []GateReleasesContacts
<1>1. IInv => GateReleasesContacts
  BY DEF IInv
<1> QED
  BY <1>1, Invariance, PTL

(* No contact is down before the first valid Heat frame of an opened gate: *)
(* see ReadyHeatGate.                                                      *)
THEOREM SilentUntilReady == Spec => []ReadyHeatGate
<1>1. IInv => ReadyHeatGate
  BY DEF IInv
<1> QED
  BY <1>1, Invariance, PTL

(* A suspended driver is quiet: see SuspendedIsQuiet.                      *)
THEOREM SuspendQuiet == Spec => []SuspendedIsQuiet
<1>1. IInv => SuspendedIsQuiet
  BY DEF IInv, CoreInv, ThreadQuiet, SuspendedIsQuiet
<1> QED
  BY <1>1, Invariance, PTL

(* After remove has cancelled the work no recovery runs while ts exists,   *)
(* and only queued work can outlive ts: see NoAttemptAfterRemove.          *)
THEOREM RemoveFinal == Spec => []NoAttemptAfterRemove
<1>1. IInv => NoAttemptAfterRemove
  BY DEF IInv
<1> QED
  BY <1>1, Invariance, PTL

(* A reset storm escalates to the hardware path: see StormEscalates.       *)
THEOREM StormBroken == Spec => []StormEscalates
<1>1. IInv => StormEscalates
  BY DEF IInv
<1> QED
  BY <1>1, Invariance, PTL

-----------------------------------------------------------------------------
(* Input opens after a counted storm only by the hardware path: see        *)
(* StormEndsInHardware.                                                    *)
THEOREM StormEndsCold == Spec => StormEndsInHardware
<1>1. IInv /\ [Next]_vars =>
        (ResetStormBreaker /\ rapid_reset_streak >= ResetStormLimit
           /\ ~mode_enabled /\ mode_enabled' => path = "hardware")
  <2> SUFFICES ASSUME IInv, [Next]_vars, ResetStormBreaker,
                      rapid_reset_streak >= ResetStormLimit,
                      ~mode_enabled, mode_enabled'
               PROVE  path = "hardware"
    OBVIOUS
  <2>1. CASE WkFinish
    <3>1. /\ path \in Paths /\ rapid_reset_streak \in Nat
          /\ ResetStormLimit \in Nat
      BY LimitAssumption DEF IInv, TypeOK, DataTypes
    <3>2. pcW = "finish"
      BY <2>1 DEF WkFinish
    <3>3. ~(rapid_reset_streak < ResetStormLimit)
      BY <3>1
    <3> QED
      BY <3>1, <3>2, <3>3 DEF IInv, StormInv, Paths
  <2>2. CASE Panel \/ InterruptEdge \/ UNCHANGED vars
    BY <2>2, PanelFrame
  <2>3. CASE IrqThread
    BY <2>3 DEF IrqThread, IrqEnter, IrqLock, IrqDrained, IrqOverflow,
       IrqReadFault, IrqQuiesced, IrqReadReset, IrqReadReport, IrqReport,
       IrqSchedule, NoteHostFault, NotePanelReset, HandleData
  <2>4. CASE Worker /\ ~WkFinish
    BY <2>4 DEF Worker, WkStart, WkStray, WkRefused, WkBegin, WkPowerCycle,
       WkReadFails, WkReadReset, WkSend, WkReadReply, WkReadPanelReset,
       WkFinishRefused, WkFail, WkReschedule, NotePanelReset
  <2>5. CASE Core
    BY <2>5, CoreFrame
  <2> QED
    BY <2>1, <2>2, <2>3, <2>4, <2>5 DEF Next, Unbound
<1> QED
  BY <1>1, Invariance, PTL DEF Spec, StormEndsInHardware

(* Without windows_read_cadence and with host_fault_recovery, the thread   *)
(* leaves no packet behind an open gate: see DrainLeavesNothing.           *)
THEOREM DrainComplete ==
  ASSUME HostFaultRecovery, ~WindowsReadCadence
  PROVE  Spec => DrainLeavesNothing
<1>1. IInv /\ [Next]_vars =>
        (io_lock = "irq" /\ io_lock' = "free" /\ mode_enabled'
           => fifo' = <<>> \/ latched' \/ irq_wake')
  <2> SUFFICES ASSUME IInv, [Next]_vars, io_lock = "irq", io_lock' = "free",
                      mode_enabled'
               PROVE  fifo' = <<>>
    OBVIOUS
  <2>1. ~Attempting /\ (pcT = "schedule" => ~mode_enabled)
    BY DEF IInv, LockInv
  <2>2. CASE Panel \/ InterruptEdge \/ UNCHANGED vars
    BY <2>2, PanelFrame
  <2>3. CASE IrqThread
    <3>1. CASE IrqEnter
      BY <2>1, <3>1 DEF HasUnread, Level, IrqEnter
    <3>2. CASE IrqLock
      BY <2>1, <3>2 DEF HasUnread, Level, IrqLock
    <3>3. CASE IrqDrained
      BY <2>1, <3>3 DEF HasUnread, Level, IrqDrained, IrqUnlock
    <3>4. CASE IrqOverflow
      BY <2>1, <3>4 DEF HasUnread, Level, IrqOverflow, IrqNoted, IrqUnlock,
         NoteHostFault
    <3>5. CASE IrqReadFault
      BY <2>1, <3>5 DEF HasUnread, Level, IrqReadFault, IrqReading, IrqNoted,
         IrqUnlock, NoteHostFault
    <3>6. CASE IrqQuiesced
      BY <2>1, <3>6 DEF HasUnread, Level, IrqQuiesced, IrqReading, IrqUnlock
    <3>7. CASE IrqReadReset
      BY <2>1, <3>7 DEF HasUnread, Level, IrqReadReset, IrqReading, IrqNoted,
         IrqUnlock, NotePanelReset
    <3>8. CASE IrqReadReport
      BY <3>8 DEF IrqReadReport, IrqReading, IrqServiced
    <3>9. CASE IrqSchedule
      BY <2>1, <3>9 DEF HasUnread, Level, IrqSchedule, IrqUnlock, Schedule
    <3>10. CASE IrqReport
      BY <3>10 DEF IrqReport, IrqServiced
    <3> QED
      BY <2>3, <3>1, <3>2, <3>3, <3>4, <3>5, <3>6, <3>7, <3>8, <3>9, <3>10
         DEF IrqThread
  <2>4. CASE Worker
    BY <2>1, <2>4 DEF Attempting, Worker, WkStart, WkStray, WkRefused, WkBegin,
        WkPowerCycle, WkReadFails, WkReadReset, WkSend, WkReadReply,
        WkReadPanelReset, WkFinishRefused, WkFinish, WkFail, WkReschedule,
        WorkerTo, NotePanelReset, Schedule
  <2>5. CASE Core
    BY <2>5, CoreFrame
  <2> QED
    BY <2>2, <2>3, <2>4, <2>5 DEF Next, Unbound
<1> QED
  BY <1>1, Invariance, PTL DEF Spec, DrainLeavesNothing

-----------------------------------------------------------------------------
(* Nobody is there after a failed resume: QuietInv is inductive beside     *)
(* CoreInv.                                                                *)

LEMMA QuietStep ==
  ASSUME CoreInv, QuietInv, [Next]_vars
  PROVE  QuietInv'
<1>1. CASE Panel \/ InterruptEdge \/ UNCHANGED vars
  BY <1>1, PanelFrame DEF QuietInv, ThreadQuiet
<1>2. CASE IrqThread
  <2>1. pcP # "resume_failed"
    BY <1>2, ThreadActs DEF QuietInv
  <2> QED
    BY <1>2, <2>1, ThreadFrame DEF QuietInv
<1>3. CASE Worker
  <2>1. pcP # "resume_failed"
    BY <1>3, WorkerActs DEF QuietInv
  <2> QED
    BY <1>3, <2>1, WorkerFrame DEF QuietInv
<1>4. CASE Core
  <2> SUFFICES ASSUME pcP' = "resume_failed" PROVE QuietInv'
    BY DEF QuietInv
  <2>1. Resume
    BY <1>4 DEF Core, SuspendStart, SuspendDisableIrq, SynchronizeIrq,
       CancelWork, CancelWorkDone, SuspendPowerOff, EnableIrq, CoreSchedule,
       RemoveStart, RemoveRelease, RemovePowerOff, ReleaseTs, CoreTo
  <2> QED
    BY <2>1 DEF Resume, CoreInv, QuietInv, ThreadQuiet
<1> QED
  BY <1>1, <1>2, <1>3, <1>4 DEF Next, Unbound

-----------------------------------------------------------------------------
(* The mapping.                                                            *)

(* Whoever acts on input does so while the service is up, or on its way.   *)
LEMMA ServedWhile ==
  ASSUME TypeOK, pcP \notin {"suspended", "resume_failed", "unbound"}
  PROVE  Service!Served
BY DEF Service!Served, Life, TypeOK, ControlTypes

LEMMA ServedThread ==
  ASSUME IInv, QuietInv, IrqThread
  PROVE  Service!Served
BY ThreadActs, ServedWhile DEF IInv, CoreInv, QuietInv

LEMMA ServedAttempt ==
  ASSUME IInv, QuietInv, Attempting
  PROVE  Service!Served
BY ServedWhile DEF IInv, CoreInv, QuietInv, NoAttemptAfterRemove, Attempting

(* A step that leaves the gate, the contacts and the core alone stutters,  *)
(* unless it brings or delivers the last report behind a closed gate.      *)
LEMMA Stutters ==
  ASSUME UNCHANGED <<mode_enabled, awaiting_ready_heat, contacts, pcP>>,
         mode_enabled \/ (pcT \in Reports <=> pcT' \in Reports)
  PROVE  UNCHANGED Service!vars
BY DEF Service!vars, Gate, Life

(* A step that closes the gate and releases the contacts.                  *)
LEMMA ClosesGate ==
  ASSUME Service!Served, mode_enabled' = FALSE, contacts' = FALSE, pcP' = pcP,
         pcT \notin Reports, pcT' \notin Reports
  PROVE  Service!Next
BY DEF Service!Next, Service!Closes, Gate, Life

LEMMA ThreadImplements ==
  ASSUME IInv, QuietInv, IrqThread
  PROVE  [Service!Next]_(Service!vars)
<1> USE ServedThread
<1>1. CASE IrqEnter
  BY <1>1, Stutters DEF IrqEnter, Reports
<1>2. CASE IrqLock
  BY <1>2, Stutters DEF IrqLock, Reports
<1>3. CASE IrqDrained
  BY <1>3, Stutters DEF IrqDrained, IrqUnlock, Reports
<1>4. CASE IrqOverflow
  BY <1>4, Stutters, ClosesGate
     DEF IrqOverflow, NoteHostFault, IrqNoted, IrqUnlock, Reports
<1>5. CASE IrqReadFault
  BY <1>5, Stutters, ClosesGate
     DEF IrqReadFault, IrqReading, NoteHostFault, IrqNoted, IrqUnlock, Reports
<1>6. CASE IrqQuiesced
  BY <1>6, Stutters DEF IrqQuiesced, IrqReading, IrqUnlock, Reports
<1>7. CASE IrqReadReset
  BY <1>7, ClosesGate
     DEF IrqReadReset, IrqReading, NotePanelReset, IrqNoted, IrqUnlock, Reports
<1>8. CASE IrqReadReport
  <2>1. mode_enabled \/ pcT' \notin Reports
    BY <1>8 DEF IrqReadReport, IrqServiced, IrqUnlock, Reports
  <2> QED
    BY <1>8, <2>1, Stutters DEF IrqReadReport, IrqReading, Reports
<1>9. CASE IrqSchedule
  BY <1>9, Stutters DEF IrqSchedule, IrqUnlock, Reports
<1>10. CASE IrqReport
  <2>1. /\ pcP' = pcP /\ mode_enabled' = mode_enabled
        /\ pcT \in Reports /\ pcT' \notin Reports
        /\ mode_enabled \in BOOLEAN /\ contacts' \in BOOLEAN
    BY <1>10, HandleDataType
       DEF IrqReport, HandleData, IrqServiced, IrqUnlock, Reports, IInv, TypeOK,
           FlagTypes
  <2>2. CASE ~mode_enabled
    BY <2>1, <2>2 DEF Service!Next, Service!LastReport, Gate, Life
  <2>3. CASE mode_enabled /\ ~awaiting_ready_heat'
    BY <2>1, <2>3 DEF Service!Next, Service!Reports, Gate, Life
  <2>4. CASE /\ mode_enabled /\ contacts' = FALSE
             /\ awaiting_ready_heat' = awaiting_ready_heat
    BY <2>1, <2>4 DEF Service!Next, Service!Lifts, Gate, Life
  <2>5. CASE mode_enabled /\ UNCHANGED gateVars
    BY <2>1, <2>5, Stutters
  <2> QED
    BY <1>10, <2>1, <2>2, <2>3, <2>4, <2>5
       DEF IrqReport, HandleData, IInv, TypeOK, FlagTypes
<1> QED
  BY <1>1, <1>2, <1>3, <1>4, <1>5, <1>6, <1>7, <1>8, <1>9, <1>10 DEF IrqThread

(* While the worker holds io_lock the gate is closed, so an attempt that   *)
(* succeeds opens it.                                                      *)
LEMMA WorkerImplements ==
  ASSUME IInv, QuietInv, Worker
  PROVE  [Service!Next]_(Service!vars)
<1> pcT' = pcT
  BY WorkerFrame
<1>1. CASE \/ WkStart \/ WkStray \/ WkRefused \/ WkPowerCycle \/ WkReadFails
           \/ WkReadReset \/ WkSend \/ WkReadReply \/ WkFinishRefused \/ WkFail
           \/ WkReschedule
  BY <1>1, Stutters DEF WkStart, WkStray, WkRefused, WkPowerCycle,
     WkReadFails, WkReadReset, WkSend, WkReadReply, WkFinishRefused, WkFail,
     WkReschedule
<1>2. CASE WkBegin
  <2>1. pcP \notin {"suspended", "resume_failed", "unbound"}
    BY <1>2 DEF WkBegin, IInv, CoreInv, QuietInv
  <2>2. pcT \notin Reports
    BY <1>2 DEF WkBegin, IInv, LockInv
  <2> QED
    BY <1>2, <2>1, <2>2, ServedWhile, ClosesGate DEF WkBegin, IInv
<1>3. CASE WkReadPanelReset
  <2>1. Service!Served /\ pcT \notin Reports
    BY <1>3, ServedAttempt DEF WkReadPanelReset, Attempting, IInv, LockInv
  <2> QED
    BY <1>3, <2>1, ClosesGate DEF WkReadPanelReset, NotePanelReset
<1>4. CASE WkFinish
  <2>1. Attempting
    BY <1>4 DEF WkFinish, Attempting
  <2>2. /\ Service!Served /\ ~mode_enabled /\ ~awaiting_ready_heat
        /\ ~contacts /\ pcT \notin Reports
    BY <2>1, ServedAttempt DEF IInv, LockInv
  <2>3. /\ mode_enabled' = ~parity_boundary' /\ parity_boundary' \in BOOLEAN
        /\ awaiting_ready_heat' =
             ((ResetRecoveryV2 \/ WindowsInitParity) /\ ~parity_boundary')
        /\ UNCHANGED <<contacts, pcP>>
    BY <1>4 DEF WkFinish
  <2>4. CASE parity_boundary'
    BY <2>2, <2>3, <2>4 DEF Service!vars, Gate, Life
  <2>5. CASE ~parity_boundary'
    BY <2>2, <2>3, <2>5 DEF Service!Next, Service!Opens, Gate, Life
  <2> QED
    BY <2>4, <2>5
<1> QED
  BY <1>1, <1>2, <1>3, <1>4 DEF Worker

LEMMA CoreImplements ==
  ASSUME IInv, QuietInv, Core
  PROVE  [Service!Next]_(Service!vars)
<1> pcT' = pcT
  BY CoreFrame
<1>1. CASE SuspendStart
  BY <1>1 DEF SuspendStart, CoreTo, Service!Next, Service!Suspends,
     Service!Shuts, Gate, Life
<1>2. CASE SuspendDisableIrq
  BY <1>2 DEF SuspendDisableIrq, CoreTo, Service!vars, Gate, Life
<1>3. CASE SynchronizeIrq
  BY <1>3 DEF SynchronizeIrq, CoreTo, Service!vars, Gate, Life
<1>4. CASE CancelWork
  BY <1>4 DEF CancelWork, CoreTo, Service!vars, Gate, Life
<1>5. CASE CancelWorkDone
  BY <1>5 DEF CancelWorkDone, CoreTo, Service!vars, Gate, Life
<1>6. CASE SuspendPowerOff
  <2>1. pcT \notin Reports
    BY <1>6 DEF SuspendPowerOff, IInv, LockInv
  <2> QED
    BY <1>6, <2>1 DEF SuspendPowerOff, CoreTo, Service!Next,
       Service!GoesDown, Gate, Life
<1>7. CASE EnableIrq
  BY <1>7 DEF EnableIrq, CoreTo, Service!vars, Gate, Life
<1>8. CASE CoreSchedule
  BY <1>8 DEF CoreSchedule, CoreTo, Service!vars, Gate, Life
<1>9. CASE Resume
  <2>1. CASE pcP' = "resumed"
    BY <1>9, <2>1 DEF Resume, Service!Next, Service!Wakes, Gate, Life
  <2>2. CASE pcP' = "resume_failed"
    BY <1>9, <2>2 DEF Resume, Service!vars, Gate, Life
  <2> QED
    BY <1>9, <2>1, <2>2 DEF Resume, CoreTo
<1>10. CASE RemoveStart
  BY <1>10 DEF RemoveStart, Service!Next, Service!Leaves, Service!Shuts,
     Gate, Life
<1>11. CASE RemoveRelease
  <2>1. pcT \notin Reports
    BY <1>11 DEF RemoveRelease, IInv, LockInv
  <2> QED
    BY <1>11, <2>1 DEF RemoveRelease, CoreTo, Service!Next, Service!Clears,
       Gate, Life
<1>12. CASE RemovePowerOff
  BY <1>12 DEF RemovePowerOff, CoreTo, Service!vars, Gate, Life
<1>13. CASE ReleaseTs
  BY <1>13 DEF ReleaseTs, CoreTo, Service!Next, Service!Goes, Gate, Life
<1> QED
  BY <1>1, <1>2, <1>3, <1>4, <1>5, <1>6, <1>7, <1>8, <1>9, <1>10, <1>11,
     <1>12, <1>13 DEF Core

LEMMA InitImplements == Init => Service!Init /\ QuietInv
BY DEF Init, Service!Init, Gate, Life, QuietInv, Reports

LEMMA StepImplements ==
  IInv /\ QuietInv /\ [Next]_vars => [Service!Next]_(Service!vars)
<1> SUFFICES ASSUME IInv, QuietInv, [Next]_vars
             PROVE  [Service!Next]_(Service!vars)
  OBVIOUS
<1>1. CASE Panel \/ InterruptEdge \/ UNCHANGED vars
  BY <1>1, PanelFrame, Stutters
<1> QED
  BY <1>1, ThreadImplements, WorkerImplements, CoreImplements DEF Next, Unbound

-----------------------------------------------------------------------------
(* The driver keeps the promise of TouchService: Linux sees a finger only  *)
(* through a gate that an initialization opened, every reset, fault and    *)
(* recovery takes the fingers up first, of the reports that passed the     *)
(* test of mode_enabled at most one comes after a suspend or remove has    *)
(* cleared it, before the contacts are released, and a driver that is      *)
(* suspended or gone is silent.                                            *)
THEOREM Refinement == Spec => ImplementsService
<1>1. IInv /\ QuietInv /\ [Next]_vars => QuietInv'
  BY QuietStep DEF IInv
<1>2. Spec => []QuietInv
  BY <1>1, InitImplements, Invariance, PTL DEF Spec
<1> QED
  BY <1>2, InitImplements, StepImplements, Invariance, PTL
     DEF Spec, ImplementsService, Service!Spec
=============================================================================

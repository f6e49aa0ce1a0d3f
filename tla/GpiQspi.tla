------------------------------ MODULE GpiQspi ------------------------------
(***************************************************************************)
(* The QSPI transfer machinery of gpi.c and the part of spi-geni-qcom.c    *)
(* that waits for it (phase55/modules).  One controller thread issues a    *)
(* read pair (RX and TX descriptor) or a write (TX only), waits with a     *)
(* timeout and, on any failure, terminates both channels.  The event       *)
(* tasklet consumes the event ring; a TX EOT is not completed at once but  *)
(* deferred until the QUP notification or the end of a grace period, which *)
(* a timer signals.                                                        *)
(***************************************************************************)
EXTENDS Integers, Sequences

CONSTANTS
    MaxTransfers,     \* bound: calls of the controller
    EventBound,       \* bound: unread events in the event ring
    RingSize,         \* TREs of a transfer ring (CHAN_TRES, SP11_WINDOWS_CHAN_TRES)
    Quirks            \* what the hardware may do beside sending one EOT

\* The ring is a power of two and holds at least one TX descriptor.
ASSUME RingAssumption == RingSize \in Nat /\ RingSize >= 4
ASSUME BoundAssumption == MaxTransfers \in Nat /\ EventBound \in Nat
ASSUME QuirkAssumption ==
    Quirks \subseteq {"eob", "error", "residue", "qup", "same_tre", "next_tre"}

Chan == {"TX", "RX"}
Call == 1 .. MaxTransfers
Slots == 0 .. RingSize - 1

\* A TX descriptor is a CONFIG, a GO and a DMA TRE, an RX descriptor a DMA TRE.
Tres == [ch \in Chan |-> IF ch = "TX" THEN 3 ELSE 1]

VARIABLES
    \* the controller thread
    pcC,        \* where it is
    n,          \* the call in progress, or the last one
    kind,       \* "pair" or "write"
    outcome,    \* what the callbacks of this call have reported, by channel
    round,      \* 1: dmaengine_terminate_sync(tx), 2: ...(rx)
    ti,         \* the channel the loops of gpi_terminate_all are at
    \* struct gchan
    chan,       \* pm_state: "active" or "prepare" (PREPARE_TERMINATE)
    rp, wp,     \* ch_ring
    issued,     \* vc.desc_issued
    \* struct gpii
    slot,       \* qspi_deferred_vd and its result
    grace,      \* qspi_deferred_grace_elapsed
    armed,      \* qspi_deferred_timer is pending
    firing,     \* its handler has found a descriptor and not yet set grace
    strayed,    \* ghost: a TX has been deferred between gpi_qspi_clear_deferred
                \* and the PREPARE_TERMINATE that follows it
    evq,        \* unread events of the event ring
    sched,      \* ev_task is scheduled
    pcK,        \* where the tasklet is
    snap,       \* events before the read pointer it last took from the hardware
    retiring,   \* the descriptor whose callback has run, to be unlinked
    \* the hardware
    hw,         \* descriptors it has been given and not finished; tre: how far it is
    late,       \* events it still owes after a TX EOT
    ieob,       \* the end-of-block interrupt is pending
    masked      \* ... and masked

client == <<pcC, n, kind, outcome, round, ti>>
rings == <<chan, rp, wp, issued>>
deferral == <<slot, grace, armed, firing, strayed>>
tasklet == <<sched, pcK, snap, retiring>>
hardware == <<hw, late, ieob, masked>>
vars == <<client, rings, deferral, evq, tasklet, hardware>>

Succ(p) == (p + 1) % RingSize
Pred(p) == (p + RingSize - 1) % RingSize

\* gpi_ring_num_elements_avail
Avail(ch) ==
    IF wp[ch] < rp[ch] THEN rp[ch] - wp[ch] - 1
                       ELSE rp[ch] + (RingSize - wp[ch]) - 1

Listed(list) == {list[i].of : i \in DOMAIN list}

NoSlot == [of |-> 0, ok |-> FALSE]
Nobody == [ch |-> "TX", of |-> 0, next |-> "events"]
Silent == [ch \in Chan |-> "none"]

Init ==
    /\ pcC = "idle" /\ n = 0 /\ kind = "pair" /\ outcome = Silent
    /\ round = 1 /\ ti = "TX"
    /\ chan = [ch \in Chan |-> "active"]
    /\ rp = [ch \in Chan |-> 0] /\ wp = [ch \in Chan |-> 0]
    /\ issued = [ch \in Chan |-> << >>]
    /\ slot = NoSlot /\ grace = FALSE /\ armed = FALSE /\ firing = FALSE
    /\ strayed = FALSE
    /\ evq = << >>
    /\ sched = FALSE /\ pcK = "idle" /\ snap = 0 /\ retiring = Nobody
    /\ hw = [ch \in Chan |-> << >>] /\ late = {} /\ ieob = FALSE /\ masked = FALSE

(***************************************************************************)
(* The hardware.  It works off what it was given in order, tells of each   *)
(* descriptor with one terminal event, and may precede it with EOBs.      *)
(* After a TX EOT it may owe a QUP notification and a late duplicate EOT,  *)
(* at the same TRE or at the one beyond.  "of" is a ghost: the call an     *)
(* event is about, which the real event does not say.  Quirks selects which *)
(* of these happen.                                                         *)
(***************************************************************************)
Deliver(e) ==
    /\ Len(evq) < EventBound
    /\ evq' = Append(evq, e)
    /\ ieob' = TRUE

Event(type, ch, code, ptr, of, ok) ==
    [type |-> type, ch |-> ch, code |-> code, ptr |-> ptr, of |-> of, ok |-> ok]

\* The response of a read pair comes after its command was sent.
CommandSent(ch) == ch = "RX" => Head(hw["RX"]).of \notin Listed(hw["TX"])

\* EOB, at the CONFIG or the GO TRE of a TX descriptor, which ask for one.
HwEob ==
    /\ "eob" \in Quirks
    /\ hw["TX"] # << >>
    /\ LET d == Head(hw["TX"]) IN
        \E tre \in d.tre .. Tres["TX"] - 2 :
            /\ Deliver(Event("xfer", "TX", "EOB",
                             (d.db + RingSize - Tres["TX"] + tre) % RingSize, d.of, TRUE))
            /\ hw' = [hw EXCEPT !["TX"][1].tre = tre + 1]
    /\ UNCHANGED <<client, rings, deferral, tasklet, late, masked>>

\* What the hardware may still send for a TX descriptor after its EOT.
Aftermath(d) ==
    {e \in {Event("qup", "TX", "none", 0, d.of, TRUE),
            Event("xfer", "TX", "EOT", Pred(d.db), d.of, TRUE),
            Event("xfer", "TX", "EOT", d.db, d.of, TRUE)} :
        \/ e.type = "qup" /\ "qup" \in Quirks
        \/ e.type = "xfer" /\ e.ptr = Pred(d.db) /\ "same_tre" \in Quirks
        \/ e.type = "xfer" /\ e.ptr = d.db /\ "next_tre" \in Quirks}

\* Any of these, but one duplicate at most.
Owed(d) == {owed \in SUBSET Aftermath(d) : \A e, f \in owed : e.type = f.type => e = f}

\* EOT; "ok" is a length that leaves no residue.
HwEot(ch, ok) ==
    /\ ~ok => "residue" \in Quirks
    /\ hw[ch] # << >> /\ CommandSent(ch)
    /\ LET d == Head(hw[ch]) IN
        /\ Deliver(Event("xfer", ch, "EOT", Pred(d.db), d.of, ok))
        /\ hw' = [hw EXCEPT ![ch] = Tail(@)]
        /\ IF ch = "RX" THEN UNCHANGED late
           ELSE \E owed \in Owed(d) : late' = late \cup owed
    /\ UNCHANGED <<client, rings, deferral, tasklet, masked>>

\* UNEXP_ERR, at any TRE of the descriptor.
HwError(ch) ==
    /\ "error" \in Quirks
    /\ hw[ch] # << >> /\ CommandSent(ch)
    /\ LET d == Head(hw[ch]) IN
        /\ \E back \in 1 .. Tres[ch] :
            Deliver(Event("xfer", ch, "ERR", (d.db + RingSize - back) % RingSize, d.of, FALSE))
        /\ hw' = [hw EXCEPT ![ch] = Tail(@)]
    /\ UNCHANGED <<client, rings, deferral, tasklet, late, masked>>

HwLate(e) ==
    /\ e \in late
    /\ Deliver(e)
    /\ late' = late \ {e}
    /\ UNCHANGED <<client, rings, deferral, tasklet, hw, masked>>

Hw ==
    \/ HwEob
    \/ \E ch \in Chan : HwError(ch) \/ \E ok \in BOOLEAN : HwEot(ch, ok)
    \/ \E e \in late : HwLate(e)

(***************************************************************************)
(* gpi_handle_irq: gpi_process_ieob clears and masks the interrupt and     *)
(* schedules the tasklet.                                                  *)
(***************************************************************************)
Irq ==
    /\ ieob /\ ~masked
    /\ ieob' = FALSE /\ masked' = TRUE /\ sched' = TRUE
    /\ UNCHANGED <<client, rings, deferral, evq, pcK, snap, retiring, hw, late>>

\* A channel command that completes raises a control interrupt; it schedules
\* the tasklet while some QSPI channel is active (qspi_drain_events).
CommandIrq(states) ==
    \/ UNCHANGED sched
    \/ /\ \E ch \in Chan : states[ch] = "active"
       /\ sched' = TRUE

(***************************************************************************)
(* gpi_ev_tasklet.  It holds pm_lock for reading until it is idle again.    *)
(***************************************************************************)
\* Between the clearing of the deferred slot and the write of PREPARE_TERMINATE
\* on the TX channel, which no lock keeps the tasklet out of.
InWindow == pcC = "stop" /\ ti = "TX"

\* The deferred slot is emptied, or the descriptor completed, by running the
\* client's callback; the descriptor is unlinked and freed after it.
Callback(ch, of, ok, next) ==
    /\ outcome' = [outcome EXCEPT ![ch] = IF ok THEN "ok" ELSE "bad"]
    /\ retiring' = [ch |-> ch, of |-> of, next |-> next]
    /\ pcK' = "retire"

\* gpi_qspi_complete_deferred; timer_delete does not wait for the handler.
CompleteDeferred(next) ==
    /\ slot # NoSlot
    /\ armed' = FALSE
    /\ slot' = NoSlot
    /\ grace' = FALSE
    /\ Callback("TX", slot.of, slot.ok, next)

TkStart ==
    /\ pcK = "idle" /\ sched
    /\ sched' = FALSE
    /\ snap' = Len(evq)
    /\ pcK' = "events"
    /\ UNCHANGED <<client, rings, deferral, evq, retiring, hardware>>

\* gpi_process_xfer_compl_event, from the test of pm_state on: what becomes of
\* an event that the active channel has a descriptor for.
\* Mutant: an EOT is taken for the descriptor at the head of the list.
OfAnyTre(e) == TRUE

OfTerminalTre(e) == e.ptr = Pred(Head(issued[e.ch]).db)

Attributable(e) ==
    /\ chan[e.ch] = "active"
    /\ issued[e.ch] # << >>
    /\ e.code = "EOT" => OfTerminalTre(e)

AdvanceRp(e) == rp' = [rp EXCEPT ![e.ch] = Succ(e.ptr)]

\* Mutant: an EOT of another descriptor moves the read pointer.
XferDiscardAdvancing(e) ==
    /\ ~Attributable(e)
    /\ IF chan[e.ch] = "active" /\ issued[e.ch] # << >>
       THEN AdvanceRp(e) ELSE UNCHANGED rp
    /\ UNCHANGED <<client, chan, wp, issued, deferral, pcK, retiring>>

XferDiscard(e) ==
    /\ ~Attributable(e)
    /\ UNCHANGED <<client, rings, deferral, pcK, retiring>>

XferEob(e) ==
    /\ Attributable(e) /\ e.code = "EOB"
    /\ AdvanceRp(e)
    /\ UNCHANGED <<client, chan, wp, issued, deferral, pcK, retiring>>

\* Mutant: the grace timer is not started.
XferDeferUnarmed(e) ==
    /\ Attributable(e) /\ e.code = "EOT" /\ e.ch = "TX" /\ slot = NoSlot
    /\ AdvanceRp(e)
    /\ slot' = [of |-> Head(issued["TX"]).of, ok |-> e.ok]
    /\ grace' = FALSE
    /\ strayed' = (strayed \/ InWindow)
    /\ UNCHANGED <<client, chan, wp, issued, armed, firing, pcK, retiring>>

XferDefer(e) ==
    /\ Attributable(e) /\ e.code = "EOT" /\ e.ch = "TX" /\ slot = NoSlot
    /\ AdvanceRp(e)
    /\ slot' = [of |-> Head(issued["TX"]).of, ok |-> e.ok]
    /\ grace' = FALSE
    /\ armed' = TRUE
    /\ strayed' = (strayed \/ InWindow)
    /\ UNCHANGED <<client, chan, wp, issued, firing, pcK, retiring>>

XferDuplicate(e) ==
    /\ Attributable(e) /\ e.code = "EOT" /\ e.ch = "TX" /\ slot # NoSlot
    /\ AdvanceRp(e)
    /\ UNCHANGED <<client, chan, wp, issued, deferral, pcK, retiring>>

XferComplete(e) ==
    /\ Attributable(e)
    /\ e.code = "ERR" \/ (e.code = "EOT" /\ e.ch = "RX")
    /\ AdvanceRp(e)
    /\ Callback(e.ch, Head(issued[e.ch]).of, e.ok, "events")
    /\ UNCHANGED <<pcC, n, kind, round, ti, chan, wp, issued, deferral>>

XferEvent(e) ==
    /\ e.type = "xfer"
    /\ \/ XferDiscard(e) \/ XferEob(e) \/ XferDefer(e)
       \/ XferDuplicate(e) \/ XferComplete(e)

QupEvent(e) ==
    /\ e.type = "qup"
    /\ IF slot # NoSlot /\ \E ch \in Chan : chan[ch] = "active"
       THEN /\ CompleteDeferred("events")
            /\ UNCHANGED <<pcC, n, kind, round, ti, rings, firing, strayed>>
       ELSE UNCHANGED <<client, rings, deferral, pcK, retiring>>

StaleEvent(e) ==
    /\ e.type = "stale"
    /\ UNCHANGED <<client, rings, deferral, pcK, retiring>>

\* One turn of the inner loop of gpi_process_events.
TkEvent ==
    /\ pcK = "events" /\ snap > 0
    /\ LET e == Head(evq) IN XferEvent(e) \/ QupEvent(e) \/ StaleEvent(e)
    /\ evq' = Tail(evq)
    /\ snap' = snap - 1
    /\ UNCHANGED <<sched, hardware>>

\* The end of gpi_ev_tasklet: enable the interrupt.
Leave == masked' = FALSE /\ pcK' = "idle"

\* list_del and kfree of a descriptor.
Unlinked(list, of) ==
    IF of \in Listed(list)
    THEN LET k == CHOOSE i \in DOMAIN list : list[i].of = of
         IN SubSeq(list, 1, k - 1) \o SubSeq(list, k + 1, Len(list))
    ELSE list

\* After the callback.
TkRetire ==
    /\ pcK = "retire"
    /\ issued' = [issued EXCEPT ![retiring.ch] = Unlinked(@, retiring.of)]
    /\ IF retiring.next = "events" THEN pcK' = "events" /\ UNCHANGED masked ELSE Leave
    /\ retiring' = Nobody
    /\ UNCHANGED <<client, chan, rp, wp, deferral, evq, sched, snap, hw, late, ieob>>

\* The ring is drained: clear the interrupt, then look at the ring once more.
TkClear ==
    /\ pcK = "events" /\ snap = 0
    /\ ieob' = FALSE
    /\ pcK' = "reread"
    /\ UNCHANGED <<client, rings, deferral, evq, sched, snap, retiring, hw, late, masked>>

TkReread ==
    /\ pcK = "reread"
    /\ snap' = Len(evq)
    /\ pcK' = IF evq = << >> THEN "finish" ELSE "events"
    /\ UNCHANGED <<client, rings, deferral, evq, sched, retiring, hardware>>

\* Mutant: the interrupt is cleared after the last look at the ring.
TkFinishClearing ==
    /\ pcK = "finish"
    /\ ieob' = FALSE
    /\ IF grace /\ slot # NoSlot
       THEN /\ CompleteDeferred("leave")
            /\ UNCHANGED <<pcC, n, kind, round, ti, firing, strayed, masked>>
       ELSE /\ Leave
            /\ UNCHANGED <<client, deferral, retiring>>
    /\ UNCHANGED <<rings, evq, sched, snap, hw, late>>

TkFinish ==
    /\ pcK = "finish"
    /\ IF grace /\ slot # NoSlot
       THEN /\ CompleteDeferred("leave")
            /\ UNCHANGED <<pcC, n, kind, round, ti, firing, strayed, masked>>
       ELSE /\ Leave
            /\ UNCHANGED <<client, deferral, retiring>>
    /\ UNCHANGED <<rings, evq, sched, snap, hw, late, ieob>>

(***************************************************************************)
(* gpi_qspi_deferred_timer: it tests the slot and then sets grace, without *)
(* a lock.                                                                 *)
(***************************************************************************)
TimerRead ==
    /\ armed /\ ~firing
    /\ armed' = FALSE
    /\ firing' = (slot # NoSlot)
    /\ UNCHANGED <<client, rings, slot, grace, strayed, evq, tasklet, hardware>>

TimerWrite ==
    /\ firing
    /\ firing' = FALSE
    /\ grace' = TRUE
    /\ sched' = TRUE
    /\ UNCHANGED <<client, rings, slot, armed, strayed, evq, pcK, snap, retiring,
                   hardware>>

(***************************************************************************)
(* The controller: spi_geni_sp11_qspi_submit_read_pair and the write path  *)
(* of spi_geni_sp11_qspi_transfer_one_message.                             *)
(***************************************************************************)
Used(k) == IF k = "pair" THEN Chan ELSE {"TX"}

HasRoom(k) == \A ch \in Used(k) : Avail(ch) >= Tres[ch]

\* gpi_prep_slave_sg for each descriptor: it can find no room, or no memory.
Start(k) ==
    /\ pcC = "idle" /\ n < MaxTransfers
    /\ n' = n + 1
    /\ kind' = k
    /\ outcome' = Silent
    /\ \/ /\ HasRoom(k)
          /\ pcC' = IF k = "pair" THEN "issue_rx" ELSE "issue_tx"
       \/ pcC' = "clear"
    /\ round' = 1 /\ ti' = "TX"
    /\ UNCHANGED <<rings, deferral, evq, tasklet, hardware>>

\* gpi_queue_xfer drops a TRE when the ring is full.
Queued(ch) == IF Avail(ch) < Tres[ch] THEN Avail(ch) ELSE Tres[ch]

\* Mutant: the write pointer does not wrap.
NextWpUnwrapped(ch) == wp[ch] + Queued(ch)

NextWp(ch) == (wp[ch] + Queued(ch)) % RingSize

\* gpi_issue_pending
Issue(ch) ==
    LET db == NextWp(ch) IN
    /\ wp' = [wp EXCEPT ![ch] = db]
    /\ issued' = [issued EXCEPT ![ch] = Append(@, [of |-> n, db |-> db])]
    /\ hw' = [hw EXCEPT ![ch] = Append(@, [of |-> n, db |-> db, tre |-> 0])]
    /\ UNCHANGED <<n, kind, outcome, round, ti, chan, rp, deferral, evq, tasklet,
                   late, ieob, masked>>

IssueRx == pcC = "issue_rx" /\ pcC' = "issue_tx" /\ Issue("RX")

IssueTx ==
    /\ pcC = "issue_tx"
    /\ pcC' = IF kind = "pair" THEN "wait_rx" ELSE "wait_tx"
    /\ Issue("TX")

\* wait_for_completion_timeout of rx_done.
WaitRx ==
    /\ pcC = "wait_rx"
    /\ \/ outcome["RX"] # "none" /\ pcC' = "wait_tx"
       \/ pcC' = "clear"
    /\ UNCHANGED <<n, kind, outcome, round, ti, rings, deferral, evq, tasklet, hardware>>

\* The same of tx_done, or of xfer_completion: a write that times out goes on
\* to look at msg->status, which a late callback may have set.
Judge == pcC' = IF \A ch \in Used(kind) : outcome[ch] = "ok" THEN "idle" ELSE "clear"

WaitTx ==
    /\ pcC = "wait_tx"
    /\ \/ outcome["TX"] # "none" /\ Judge
       \/ pcC' = IF kind = "pair" THEN "clear" ELSE "status"
    /\ UNCHANGED <<n, kind, outcome, round, ti, rings, deferral, evq, tasklet, hardware>>

ReadStatus ==
    /\ pcC = "status"
    /\ Judge
    /\ UNCHANGED <<n, kind, outcome, round, ti, rings, deferral, evq, tasklet, hardware>>

(***************************************************************************)
(* handle_gpi_timeout: gpi_terminate_all for the TX and then for the RX    *)
(* channel, each of which stops, resets and starts both.  Writing pm_state *)
(* or freeing descriptors takes pm_lock, so it waits for the tasklet.      *)
(***************************************************************************)
TaskletIdle == pcK = "idle"

\* Mutant: the deferred slot is left as it is.
TClearNot ==
    /\ pcC = "clear"
    /\ pcC' = "stop"
    /\ UNCHANGED <<n, kind, outcome, round, ti, rings, deferral, evq, tasklet, hardware>>

\* gpi_qspi_clear_deferred, without pm_lock: the tasklet may be at work.
\* timer_delete_sync waits for the handler.
TClear ==
    /\ pcC = "clear"
    /\ slot # NoSlot => ~firing
    /\ IF slot = NoSlot THEN UNCHANGED <<slot, grace, armed>>
       ELSE slot' = NoSlot /\ grace' = FALSE /\ armed' = FALSE
    /\ pcC' = "stop"
    /\ UNCHANGED <<n, kind, outcome, round, ti, rings, firing, strayed, evq, tasklet,
                   hardware>>

\* The loops over the channels: TX, RX, and then the next loop.
NextChannel(this, next) ==
    IF ti = "TX" THEN pcC' = this /\ ti' = "RX" ELSE pcC' = next /\ ti' = "TX"

\* terminate_exit: the second call follows the first.
TerminateExit ==
    /\ ti' = "TX"
    /\ IF round = 1 THEN pcC' = "clear" /\ round' = 2
                    ELSE pcC' = "idle" /\ round' = 1

\* PREPARE_TERMINATE and STOP; the result of STOP is overwritten.
TPrepare ==
    /\ pcC = "stop" /\ TaskletIdle
    /\ chan' = [chan EXCEPT ![ti] = "prepare"]
    /\ CommandIrq(chan')
    /\ NextChannel("stop", "reset")
    /\ UNCHANGED <<n, kind, outcome, round, rp, wp, issued, deferral, evq, pcK, snap,
                   retiring, hardware>>

\* gpi_mark_stale_events
MarkStale(ch) ==
    [i \in DOMAIN evq |-> IF evq[i].ch = ch THEN [evq[i] EXCEPT !.type = "stale"]
                                            ELSE evq[i]]

\* gpi_reset_chan and gpi_alloc_chan
TReset ==
    /\ pcC = "reset" /\ TaskletIdle
    /\ rp' = [rp EXCEPT ![ti] = 0]
    /\ wp' = [wp EXCEPT ![ti] = 0]
    /\ evq' = MarkStale(ti)
    /\ issued' = [issued EXCEPT ![ti] = << >>]
    /\ hw' = [hw EXCEPT ![ti] = << >>]
    /\ late' = IF ti = "TX" THEN {} ELSE late
    /\ NextChannel("reset", "start")
    /\ UNCHANGED <<n, kind, outcome, round, chan, deferral, tasklet, ieob, masked>>

\* gpi_start_chan; its control interrupt comes before pm_state is written.
TStart ==
    /\ pcC = "start" /\ TaskletIdle
    /\ chan' = [chan EXCEPT ![ti] = "active"]
    /\ CommandIrq(chan)
    /\ IF ti = "TX" THEN pcC' = "start" /\ ti' = "RX" /\ UNCHANGED round
                    ELSE TerminateExit
    /\ UNCHANGED <<n, kind, outcome, rp, wp, issued, deferral, evq, pcK, snap, retiring,
                   hardware>>

\* RESET or START is not acknowledged: the rest is skipped.
TCommandFails ==
    /\ pcC \in {"reset", "start"}
    /\ TerminateExit
    /\ UNCHANGED <<n, kind, outcome, rings, deferral, evq, tasklet, hardware>>

(***************************************************************************)
Tasklet == TkStart \/ TkEvent \/ TkRetire \/ TkClear \/ TkReread \/ TkFinish
Timer == TimerRead \/ TimerWrite
Terminate == TClear \/ TPrepare \/ TReset \/ TStart \/ TCommandFails
Transfer == IssueRx \/ IssueTx \/ WaitRx \/ WaitTx \/ ReadStatus

Next ==
    \/ Hw \/ Irq \/ Tasklet \/ Timer \/ Transfer \/ Terminate
    \/ \E k \in {"pair", "write"} : Start(k)

Spec == Init /\ [][Next]_vars

\* The kernel runs the interrupt, the softirqs and the controller thread, whose
\* waits all have a timeout.  The hardware owes nothing.
FairSpec ==
    Spec /\ WF_vars(Irq) /\ WF_vars(Tasklet) /\ WF_vars(Timer)
         /\ WF_vars(Transfer) /\ WF_vars(Terminate)

(***************************************************************************)
(* Properties                                                              *)
(***************************************************************************)
Descriptors == Seq([of : Call, db : Slots])
Events == [type : {"xfer", "qup", "stale"}, ch : Chan, code : {"EOB", "EOT", "ERR", "none"},
           ptr : Slots, of : Call, ok : BOOLEAN]

\* Every variable stays in its range.
TypeOK ==
    /\ pcC \in {"idle", "issue_rx", "issue_tx", "wait_rx", "wait_tx", "status",
               "clear", "stop", "reset", "start"}
    /\ n \in 0 .. MaxTransfers /\ kind \in {"pair", "write"}
    /\ outcome \in [Chan -> {"none", "ok", "bad"}]
    /\ round \in 1 .. 2 /\ ti \in Chan
    /\ chan \in [Chan -> {"active", "prepare"}]
    /\ rp \in [Chan -> Slots] /\ wp \in [Chan -> Slots]
    /\ issued \in [Chan -> Descriptors]
    /\ slot \in [of : 0 .. MaxTransfers, ok : BOOLEAN]
    /\ grace \in BOOLEAN /\ armed \in BOOLEAN /\ firing \in BOOLEAN
    /\ strayed \in BOOLEAN
    /\ evq \in Seq(Events)
    /\ sched \in BOOLEAN
    /\ pcK \in {"idle", "events", "retire", "reread", "finish"}
    /\ snap \in 0 .. EventBound
    /\ retiring \in [ch : Chan, of : 0 .. MaxTransfers, next : {"events", "leave"}]
    /\ hw \in [Chan -> Seq([of : Call, db : Slots, tre : 0 .. 2])]
    /\ late \subseteq Events
    /\ ieob \in BOOLEAN /\ masked \in BOOLEAN

\* The descriptor in the deferred slot is still on the list of the TX channel:
\* gpi_terminate_all frees no descriptor that a QUP notification or the grace
\* timer will complete later.
DeferredIsLive == slot # NoSlot => slot.of \in Listed(issued["TX"])

\* A deferred descriptor is never forgotten: the timer is pending, or its handler
\* is at work, or it has set grace and the tasklet will still look at it.
DeferredHasWakeup ==
    slot # NoSlot => armed \/ firing
                     \/ (grace /\ (sched \/ pcK # "idle"))

\* The descriptor the tasklet is about to unlink after its callback is still on
\* the list: the client, which the callback has woken, cannot have it freed first.
RetireLive == pcK = "retire" => retiring.of \in Listed(issued[retiring.ch])

\* A callback reaches the call it belongs to while that call is in progress (its
\* completions live on the stack, or are reset by the next call), and only once.
\* Until a descriptor that has strayed is freed behind the back of the slot.
CallbackInTime ==
    [][pcK # "retire" /\ pcK' = "retire" /\ ~strayed =>
          /\ pcC # "idle"
          /\ retiring'.of = n
          /\ outcome[retiring'.ch] = "none"]_vars

\* A transfer event completes or defers the descriptor it is about, never that of
\* a later call: late duplicates are recognised by their TRE, as long as the ring
\* has not come round to it, and those from before a reset are stale.
EventsStayOwn ==
    [][pcK = "events" /\ snap > 0 /\ Head(evq).type = "xfer" /\ ~strayed =>
          /\ pcK' = "retire" => retiring'.of = Head(evq).of
          /\ slot' \notin {slot, NoSlot} => slot'.of = Head(evq).of]_vars

\* With no transfer on an active channel, nothing in flight and nothing to handle,
\* the software read pointer has caught up with the write pointer: no TRE is lost
\* to the ring, whatever duplicates and errors there were.
RingQuiet ==
    pcC = "idle" /\ evq = << >> /\ pcK = "idle" =>
        \A ch \in Chan : chan[ch] = "active" /\ issued[ch] = << >> => rp[ch] = wp[ch]

\* A descriptor that was prepared when there was room still has it when it is
\* issued, so gpi_queue_xfer never drops a TRE.
RoomToIssue ==
    /\ pcC = "issue_rx" => \A ch \in Chan : Avail(ch) >= Tres[ch]
    /\ pcC = "issue_tx" => Avail("TX") >= Tres["TX"]

\* Every event is handled, for the ring is empty again and again: the interrupt is
\* cleared before it is looked at for the last time, so no wakeup is lost.
EventsProcessed == []<>(evq = << >>)

\* Every call of the controller returns: it is idle again and again.
TransferEnds == []<>(pcC = "idle")

\* The deferral of a TX completion is sound: its descriptor is retired in the end,
\* by the notification or by the grace timer, and stays alive until then, unless
\* it was deferred behind the clearing of the slot: nothing else loses it.
DeferralSound == DeferredHasWakeup /\ (strayed \/ (DeferredIsLive /\ RetireLive))

\* Errors and duplicates leave both rings in order, at rest and when used.
RingSafe == RoomToIssue /\ RingQuiet

\* Every call is answered while it lasts, and returns.
CallsComplete == CallbackInTime /\ EventsProcessed /\ TransferEnds

============================================================================

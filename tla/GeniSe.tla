------------------------------- MODULE GeniSe -------------------------------
(***************************************************************************)
(* The FIFO and SE-DMA modes of spi-geni-qcom.c, which a GENI controller   *)
(* falls back to when it gets no GPI channels.  Three parties share the    *)
(* registers and spi_geni_master: the message pump of the SPI core (one    *)
(* transfer at a time), geni_spi_isr on another CPU, and the serial engine *)
(* itself.  The handler reads its status registers before it takes the     *)
(* lock and may be held up there for as long as a timeout; the engine      *)
(* obeys a cancel, an abort and a reset at once, so that these time out    *)
(* only because the handler does not run ("the only known case").          *)
(* A polled transfer of the BIOS-reference client keeps the handler out.   *)
(*                                                                         *)
(* A length is in words of the FIFO.  Target mode, word length, clock and  *)
(* chip-select registers are not modelled.                                 *)
(***************************************************************************)
EXTENDS Integers, FiniteSets

CONSTANTS
  Transfers,     (* [tx, rx, dma : BOOLEAN, len : Nat]: what the core asks *)
  PolledLengths, (* [tx, rx : Nat]: what the BIOS-reference client asks    *)
  Depth,         (* of both FIFOs                                          *)
  MaxTransfers   (* bound                                                  *)

TxWm == 1        \* mas->tx_wm

ASSUME TransferAssumption ==
  /\ Depth \in Nat /\ Depth > TxWm /\ MaxTransfers \in Nat
  /\ \A x \in Transfers : x.len \in Nat /\ (x.tx \/ x.rx)
  /\ PolledLengths \subseteq [tx : Nat \ {0}, rx : Nat \ {0}]

Directions == {"tx", "rx"}

VARIABLES
  pc, id, xfer,                (* pump: where, which transfer, what         *)
  saved, abort_failed,         (* xfer in handle_se_timeout; mas            *)
  cur_xfer, mode, rem,         (* of mas: 0 for none; fifo or dma;          *)
                               (* tx_rem_bytes and rx_rem_bytes             *)
  lock,
  finalized, done,             (* completions: of the transfer; the others  *)
  m_irq, dma_irq, watermark,   (* registers                                 *)
  cmd, left, fifo, engine,     (* engine: command, words it has to move,    *)
                               (* words in its FIFOs, DMA engines running   *)
  ipc, seen, ends,             (* handler: where, status it read, whether   *)
                               (* it has finalized a transfer               *)
  irqOff, old_mode, unmoved,   (* polled transfer: the interrupt is         *)
  polled, rx_watermark,        (* disabled, words to write and to read, its *)
                               (* result; a register it does not restore    *)
  ended, resetLost             (* the engine has done what id asked for; a  *)
                               (* DMA reset has timed out                   *)

pumpVars == <<pc, id, xfer, saved, abort_failed>>
masVars  == <<cur_xfer, mode, rem>>
doneVars == <<finalized, done>>
regVars  == <<m_irq, dma_irq, watermark>>
seVars   == <<cmd, left, fifo, engine>>
isrVars  == <<ipc, seen, ends>>
pollVars == <<irqOff, old_mode, unmoved, polled, rx_watermark>>
vars == <<pumpVars, masVars, lock, doneVars, regVars, seVars, isrVars, pollVars,
          ended, resetLost>>

None == [d \in Directions |-> {}]
Nil  == [d \in Directions |-> 0]
ResetDone == [tx |-> "tx_reset", rx |-> "rx_reset"]

(* After spi_geni_init without GPI channels.                               *)
Init ==
  /\ pc = "idle" /\ id = 0 /\ xfer \in Transfers
  /\ saved = 0 /\ abort_failed = FALSE
  /\ cur_xfer = 0 /\ mode = "fifo" /\ rem = Nil
  /\ lock = "free"
  /\ finalized = FALSE /\ done = {}
  /\ m_irq = {} /\ dma_irq = None /\ watermark = FALSE
  /\ cmd = FALSE /\ left = Nil /\ fifo = Nil /\ engine = {}
  /\ ipc = "idle" /\ seen = [m |-> {}, dma |-> None] /\ ends = FALSE
  /\ irqOff = FALSE /\ old_mode = "fifo" /\ unmoved = Nil
  /\ polled = "no" /\ rx_watermark = Depth - 1
  /\ ended = FALSE /\ resetLost = FALSE

Least(a, b) == IF a < b THEN a ELSE b

(* The status bits that raise an interrupt: geni_se_select_mode enables    *)
(* the done and watermark bits in FIFO mode only.                          *)
Enabled == {"cancel", "abort"} \cup (IF mode = "fifo" THEN {"done", "tx", "rx", "last"} ELSE {})

-----------------------------------------------------------------------------
(* The serial engine.                                                      *)

SeSends ==
  /\ cmd /\ left["tx"] > 0 /\ fifo["tx"] > 0 /\ "tx" \notin engine
  /\ left' = [left EXCEPT !["tx"] = @ - 1] /\ fifo' = [fifo EXCEPT !["tx"] = @ - 1]
  /\ UNCHANGED <<pumpVars, masVars, lock, doneVars, regVars, cmd, engine,
                 isrVars, pollVars, ended, resetLost>>

(* The last word has a status bit of its own, an edge.                     *)
SeReceives ==
  /\ cmd /\ left["rx"] > 0 /\ fifo["rx"] < Depth /\ "rx" \notin engine
  /\ left' = [left EXCEPT !["rx"] = @ - 1] /\ fifo' = [fifo EXCEPT !["rx"] = @ + 1]
  /\ m_irq' = IF left'["rx"] = 0 THEN m_irq \cup {"last"} ELSE m_irq
  /\ UNCHANGED <<pumpVars, masVars, lock, doneVars, dma_irq, watermark, cmd,
                 engine, isrVars, pollVars, ended, resetLost>>

(* Latched level: asserted again after a clear while the condition lasts.  *)
SeWatermark ==
  /\ \/ watermark /\ fifo["tx"] < TxWm /\ m_irq' = m_irq \cup {"tx"}
     \/ fifo["rx"] > rx_watermark /\ m_irq' = m_irq \cup {"rx"}
  /\ m_irq' # m_irq
  /\ UNCHANGED <<pumpVars, masVars, lock, doneVars, dma_irq, watermark,
                 seVars, isrVars, pollVars, ended, resetLost>>

SeDone ==
  /\ cmd /\ left = Nil /\ mode = "fifo"
  /\ cmd' = FALSE /\ ended' = TRUE
  /\ m_irq' = m_irq \cup {"done"}
  /\ UNCHANGED <<pumpVars, masVars, lock, doneVars, dma_irq, watermark, left,
                 fifo, engine, isrVars, pollVars, resetLost>>

(* A DMA engine has moved everything; the last one ends the command.       *)
SeDmaDone(d) ==
  /\ d \in engine /\ cmd
  /\ engine' = engine \ {d} /\ cmd' = (engine' # {})
  /\ left' = [left EXCEPT ![d] = 0]
  /\ dma_irq' = [dma_irq EXCEPT ![d] = @ \cup {"done"}]
  /\ m_irq' = IF cmd' THEN m_irq ELSE m_irq \cup {"done"}
  /\ ended' = ~cmd'
  /\ UNCHANGED <<pumpVars, masVars, lock, doneVars, watermark, fifo, isrVars,
                 pollVars, resetLost>>

(* geni_se_cancel_m_cmd and geni_se_abort_m_cmd: a sequencer that is idle  *)
(* need not answer.  What is left in the FIFOs is dropped: the driver      *)
(* never flushes them before the next command.                             *)
Stopped(bit) ==
  /\ cmd' = FALSE /\ fifo' = Nil
  /\ m_irq' \in {m_irq \cup {bit}, m_irq \cup {bit, "done"}}
                  \cup (IF cmd THEN {} ELSE {m_irq})

Se == SeSends \/ SeReceives \/ SeWatermark \/ SeDone
        \/ \E d \in Directions : SeDmaDone(d)

-----------------------------------------------------------------------------
(* geni_spi_handle_tx writes up to a FIFO of words, less the watermark;    *)
(* the watermark interrupt goes off after the last ones.                   *)

(* Mutant: however many there are.                                         *)
TxWordsAll == rem["tx"]

TxWords == Least(Depth - TxWm, rem["tx"])
TxLater == cur_xfer # 0 /\ rem["tx"] > TxWords

(* geni_spi_handle_rx takes what is in the FIFO and what the transfer has  *)
(* room for; without a transfer it empties the FIFO.                       *)
RxWords == Least(fifo["rx"], rem["rx"])

-----------------------------------------------------------------------------
(* spi_geni_prepare_message and spi_geni_transfer_one, with the core       *)
(* around them: it clears its completion before each transfer.             *)

(* Mutant: a failed abort is not looked at any more.                       *)
AbortPendingIgnored == FALSE

(* spi_geni_is_abort_still_pending: asked under the lock.  transfer_one    *)
(* asks again, but only handle_err sets abort_failed, after a message.     *)
AbortPending == abort_failed /\ (lock # "free" \/ m_irq \cap Enabled # {})

Transfer ==
  /\ pc = "idle" /\ id < MaxTransfers /\ ~AbortPending
  /\ id' = id + 1 /\ xfer' \in Transfers
  /\ pc' = IF xfer'.len = 0 THEN "idle" ELSE "setup"
  /\ abort_failed' = FALSE
  /\ finalized' = FALSE /\ ended' = FALSE /\ polled' = "no"
  /\ UNCHANGED <<saved, masVars, lock, done, regVars, seVars, isrVars, irqOff,
                 old_mode, unmoved, rx_watermark, resetLost>>

-----------------------------------------------------------------------------
(* setup_se_xfer.                                                          *)

(* Mutant: the handler of an earlier command may still be at work.         *)
NoBarrier == TRUE

(* The lock is taken and let go: no handler is in its critical section.    *)
Barrier == lock = "free"

SetupOwns ==
  /\ pc = "setup" /\ Barrier
  /\ rem' = Nil /\ cur_xfer' = id /\ pc' = "count_tx"
  /\ UNCHANGED <<id, xfer, saved, abort_failed, mode, lock, doneVars, regVars,
                 seVars, isrVars, pollVars, ended, resetLost>>

(* The clock cannot be set.                                                *)
SetupFails ==
  /\ pc = "setup" /\ Barrier /\ pc' = "failed"
  /\ UNCHANGED <<id, xfer, saved, abort_failed, masVars, lock, doneVars,
                 regVars, seVars, isrVars, pollVars, ended, resetLost>>

(* tx_rem_bytes, then rx_rem_bytes, without the lock.                      *)
SetupCounts(d, here, next) ==
  /\ pc = here /\ pc' = next
  /\ rem' = [rem EXCEPT ![d] = IF xfer[d] THEN xfer.len ELSE @]
  /\ UNCHANGED <<id, xfer, saved, abort_failed, cur_xfer, mode, lock,
                 doneVars, regVars, seVars, isrVars, pollVars, ended,
                 resetLost>>

(* geni_se_select_mode also clears every status register.                  *)
SetupMode ==
  /\ pc = "mode" /\ pc' = "start"
  /\ mode' = IF xfer.dma THEN "dma" ELSE "fifo"
  /\ m_irq' = {} /\ dma_irq' = None
  /\ UNCHANGED <<id, xfer, saved, abort_failed, cur_xfer, rem, lock, doneVars,
                 watermark, seVars, isrVars, pollVars, ended, resetLost>>

(* Under the lock: the command, then the DMA engines or the first words.   *)
SetupStarts ==
  /\ pc = "start" /\ lock = "free" /\ pc' = "wait"
  /\ cmd' = TRUE
  /\ left' = [d \in Directions |-> IF xfer[d] THEN xfer.len ELSE 0]
  /\ IF mode = "dma"
       THEN /\ engine' = {d \in Directions : xfer[d]}
            /\ UNCHANGED <<rem, fifo, watermark>>
       ELSE /\ engine' = {}
            /\ rem' = [rem EXCEPT !["tx"] = @ - TxWords]
            /\ fifo' = [fifo EXCEPT !["tx"] = @ + TxWords]
            /\ watermark' = TxLater
  /\ UNCHANGED <<id, xfer, saved, abort_failed, cur_xfer, mode, lock,
                 doneVars, m_irq, dma_irq, isrVars, pollVars, ended,
                 resetLost>>

Setup ==
  \/ SetupOwns \/ SetupFails
  \/ SetupCounts("tx", "count_tx", "count_rx") \/ SetupCounts("rx", "count_rx", "mode")
  \/ SetupMode \/ SetupStarts

(* spi_transfer_wait.                                                      *)
Waits ==
  /\ pc = "wait" /\ pc' = IF finalized THEN "idle" ELSE "failed"
  /\ UNCHANGED <<id, xfer, saved, abort_failed, masVars, lock, doneVars,
                 regVars, seVars, isrVars, pollVars, ended, resetLost>>

-----------------------------------------------------------------------------
(* handle_se_timeout.                                                      *)

TakenBack == cur_xfer' = 0

Cancels ==
  /\ pc = "failed" /\ lock = "free" /\ pc' = "cancel"
  /\ watermark' = IF mode = "fifo" THEN FALSE ELSE watermark
  /\ saved' = cur_xfer /\ TakenBack
  /\ done' = done \ {"cancel"} /\ Stopped("cancel")
  /\ UNCHANGED <<id, xfer, abort_failed, mode, rem, lock, finalized, dma_irq,
                 left, engine, isrVars, pollVars, ended, resetLost>>

Aborts ==
  /\ pc = "cancel" /\ "cancel" \notin done /\ lock = "free" /\ pc' = "abort"
  /\ done' = done \ {"abort"} /\ Stopped("abort")
  /\ UNCHANGED <<id, xfer, saved, abort_failed, masVars, lock, finalized,
                 dma_irq, watermark, left, engine, isrVars, pollVars, ended,
                 resetLost>>

(* Mutant: the abort has no timeout.                                       *)
StopsAnswered ==
  /\ \/ pc = "cancel" /\ "cancel" \in done
     \/ pc = "abort" /\ "abort" \in done
  /\ pc' = IF mode = "dma" /\ saved # 0 THEN "reset_tx" ELSE "idle"
  /\ UNCHANGED <<id, xfer, saved, abort_failed, masVars, lock, doneVars,
                 regVars, seVars, isrVars, pollVars, ended, resetLost>>

(* Cancelled, aborted, or neither.                                         *)
Stops ==
  /\ \/ pc = "cancel" /\ "cancel" \in done /\ UNCHANGED abort_failed
     \/ pc = "abort" /\ abort_failed' = (abort_failed \/ "abort" \notin done)
  /\ pc' = IF mode = "dma" /\ saved # 0 THEN "reset_tx" ELSE "idle"
  /\ UNCHANGED <<id, xfer, saved, masVars, lock, doneVars, regVars, seVars,
                 isrVars, pollVars, ended, resetLost>>

(* One DMA engine is reset, when the transfer had a buffer for it.         *)
Resets(d, here, waiting, next) ==
  /\ pc = here
  /\ IF xfer[d]
       THEN /\ lock = "free" /\ pc' = waiting
            /\ done' = done \ {ResetDone[d]}
            /\ engine' = engine \ {d} /\ left' = [left EXCEPT ![d] = 0]
            /\ dma_irq' = [dma_irq EXCEPT ![d] = @ \cup {"reset"}]
       ELSE pc' = next /\ UNCHANGED <<done, engine, left, dma_irq>>
  /\ UNCHANGED <<id, xfer, saved, abort_failed, masVars, lock, finalized,
                 m_irq, watermark, cmd, fifo, isrVars, pollVars, ended,
                 resetLost>>

(* The reset is done, or has timed out, which is only logged.              *)
ResetWaits(d, waiting, next) ==
  /\ pc = waiting /\ pc' = next
  /\ resetLost' = (resetLost \/ ResetDone[d] \notin done)
  /\ UNCHANGED <<id, xfer, saved, abort_failed, masVars, lock, doneVars,
                 regVars, seVars, isrVars, pollVars, ended>>

HandleErr ==
  \/ Cancels \/ Aborts \/ Stops
  \/ Resets("tx", "reset_tx", "wait_tx", "reset_rx") \/ ResetWaits("tx", "wait_tx", "reset_rx")
  \/ Resets("rx", "reset_rx", "wait_rx", "idle") \/ ResetWaits("rx", "wait_rx", "idle")

-----------------------------------------------------------------------------
(* geni_spi_isr.                                                           *)

(* The status is read before the lock is taken.                            *)
IsrEnters ==
  /\ ipc = "idle" /\ ~irqOff /\ (m_irq \cap Enabled # {} \/ dma_irq # None)
  /\ seen' = [m |-> m_irq, dma |-> dma_irq] /\ ipc' = "entered"
  /\ UNCHANGED <<pumpVars, masVars, lock, doneVars, regVars, seVars, ends,
                 pollVars, ended, resetLost>>

RxSeen == seen.m \cap {"rx", "last"} # {}

(* What the handler of a transfer moves in each direction.                 *)
Moves == [tx |-> IF "tx" \in seen.m THEN TxWords ELSE 0,
          rx |-> IF RxSeen THEN RxWords ELSE 0]

IsrFifo ==
  /\ ipc = "entered" /\ lock = "free" /\ mode = "fifo"
  /\ lock' = "isr" /\ ipc' = "locked"
  /\ IF cur_xfer # 0
       THEN /\ rem' = [d \in Directions |-> rem[d] - Moves[d]]
            /\ fifo' = [tx |-> fifo["tx"] + Moves["tx"], rx |-> fifo["rx"] - Moves["rx"]]
            /\ watermark' = (watermark /\ ("tx" \in seen.m => TxLater)
                                       /\ "done" \notin seen.m)
            /\ finalized' = (finalized \/ "done" \in seen.m)
            /\ ends' = ("done" \in seen.m)
       ELSE /\ fifo' = [fifo EXCEPT !["rx"] = IF RxSeen THEN 0 ELSE @]
            /\ watermark' = (watermark /\ "tx" \notin seen.m)
            /\ ends' = FALSE
            /\ UNCHANGED <<rem, finalized>>
  /\ UNCHANGED <<pumpVars, cur_xfer, mode, done, m_irq, dma_irq, cmd, left,
                 engine, seen, pollVars, ended, resetLost>>

AllMoved(left_over) == left_over = Nil

IsrDma ==
  /\ ipc = "entered" /\ lock = "free" /\ mode = "dma"
  /\ lock' = "isr" /\ ipc' = "locked"
  /\ dma_irq' = [d \in Directions |-> dma_irq[d] \ seen.dma[d]]
  /\ rem' = [d \in Directions |-> IF "done" \in seen.dma[d] THEN 0 ELSE rem[d]]
  /\ done' = done \cup {ResetDone[d] : d \in {e \in Directions : "reset" \in seen.dma[e]}}
  /\ ends' = (AllMoved(rem') /\ cur_xfer # 0)
  /\ finalized' = (finalized \/ ends')
  /\ UNCHANGED <<pumpVars, cur_xfer, mode, m_irq, watermark, seVars, seen,
                 pollVars, ended, resetLost>>

(* A finalized transfer is forgotten after the pump has been woken; then   *)
(* the other completions.                                                  *)
IsrAcks ==
  /\ ipc = "locked" /\ ipc' = "acked"
  /\ cur_xfer' = IF ends THEN 0 ELSE cur_xfer
  /\ done' = done \cup (seen.m \cap {"cancel", "abort"})
  /\ UNCHANGED <<pumpVars, mode, rem, lock, finalized, regVars, seVars, seen,
                 ends, pollVars, ended, resetLost>>

(* What was read at the beginning is cleared at the end.                   *)
IsrClears ==
  /\ ipc = "acked" /\ ipc' = "idle" /\ lock' = "free"
  /\ m_irq' = m_irq \ seen.m
  /\ seen' = [m |-> {}, dma |-> None] /\ ends' = FALSE
  /\ UNCHANGED <<pumpVars, masVars, doneVars, dma_irq, watermark, seVars,
                 pollVars, ended, resetLost>>

IsrRuns == IsrFifo \/ IsrDma \/ IsrAcks \/ IsrClears
Isr == IsrEnters \/ IsrRuns

-----------------------------------------------------------------------------
(* qcom_geni_spi_biosref_xfer, under the bus lock: the pump is idle.  It   *)
(* polls the status itself, and gives the interrupt and the mode back as   *)
(* it found them, but not the RX watermark.                                *)

unpolled == <<id, xfer, saved, abort_failed, cur_xfer, rem, lock, doneVars, isrVars,
              resetLost>>

PollStarts ==
  /\ pc = "idle" /\ id < MaxTransfers /\ id' = id + 1
  /\ unmoved' \in PolledLengths
  /\ irqOff' = TRUE /\ polled' = "pending" /\ ended' = FALSE
  /\ pc' = "poll_sync"
  /\ UNCHANGED <<xfer, saved, abort_failed, masVars, lock, doneVars, regVars, seVars,
                 isrVars, old_mode, rx_watermark, resetLost>>

(* The interrupt is disabled and no handler is running.                    *)
PollSynced ==
  /\ pc = "poll_sync" /\ ipc = "idle" /\ pc' = "poll_setup"
  /\ old_mode' = mode /\ mode' = "fifo"
  /\ m_irq' = {} /\ dma_irq' = None
  /\ UNCHANGED <<unpolled, watermark, seVars, irqOff, unmoved, polled, rx_watermark,
                 ended>>

(* The engine is busy, its FIFO does not get empty, or the FIFO or clock   *)
(* parameters are refused.                                                 *)
PollSetupFails ==
  /\ pc = "poll_setup" /\ pc' = "restore"
  /\ polled' = "failed"
  /\ UNCHANGED <<unpolled, mode, regVars, seVars, irqOff, old_mode, unmoved,
                 rx_watermark, ended>>

PollCommands ==
  /\ pc = "poll_setup" /\ ~cmd /\ pc' = "poll"
  /\ cmd' = TRUE /\ left' = unmoved /\ engine' = {}
  /\ fifo' = [fifo EXCEPT !["rx"] = 0]
  /\ m_irq' = {} /\ watermark' = TRUE /\ rx_watermark' = 0
  /\ UNCHANGED <<unpolled, mode, dma_irq, irqOff, old_mode, unmoved, polled, ended>>

PollSees ==
  /\ pc = "poll" /\ m_irq # {} /\ pc' = "poll_seen"
  /\ seen' = [seen EXCEPT !.m = m_irq]
  /\ UNCHANGED <<id, xfer, saved, abort_failed, masVars, lock, doneVars, regVars,
                 seVars, ipc, ends, pollVars, ended, resetLost>>

(* biosref_write_tx_fifo and biosref_read_rx_fifo; what is there to read   *)
(* is read once more when the command is done.                             *)
Written == IF "tx" \in seen.m THEN Least(Depth - 1, unmoved["tx"]) ELSE 0
Read == IF seen.m \cap {"rx", "last", "done"} # {} THEN Least(fifo["rx"], unmoved["rx"])
                                                  ELSE 0

(* One turn of the loop: the words, the status that was seen cleared, and  *)
(* the end when the command is done.  The TX watermark goes off with the   *)
(* last word to write.                                                     *)
PollActs ==
  /\ pc = "poll_seen"
  /\ unmoved' = [tx |-> unmoved["tx"] - Written, rx |-> unmoved["rx"] - Read]
  /\ fifo' = [tx |-> fifo["tx"] + Written, rx |-> fifo["rx"] - Read]
  /\ watermark' = (watermark /\ unmoved'["tx"] > 0 /\ "done" \notin seen.m)
  /\ m_irq' = m_irq \ seen.m /\ seen' = [seen EXCEPT !.m = {}]
  /\ IF "done" \in seen.m
       THEN /\ pc' = "restore" /\ rx_watermark' = 0
            /\ polled' = IF unmoved' = Nil THEN "ok" ELSE "short"
       ELSE pc' = "poll" /\ UNCHANGED <<rx_watermark, polled>>
  /\ UNCHANGED <<id, xfer, saved, abort_failed, masVars, lock, doneVars, dma_irq, cmd,
                 left, engine, ipc, ends, irqOff, old_mode, ended, resetLost>>

(* The engine reports an error, in place of what it had to do.             *)
PollFails ==
  /\ pc = "poll" /\ cmd /\ pc' = "restore"
  /\ cmd' = FALSE /\ fifo' = Nil
  /\ m_irq' = {} /\ watermark' = FALSE /\ polled' = "failed"
  /\ UNCHANGED <<unpolled, mode, dma_irq, left, engine, irqOff, old_mode, unmoved,
                 rx_watermark, ended>>

(* The deadline: the command is aborted, and the abort awaited for a while.*)
PollTimesOut ==
  /\ pc = "poll" /\ pc' = "restore"
  /\ Stopped("abort") /\ watermark' = FALSE /\ polled' = "failed"
  /\ UNCHANGED <<unpolled, mode, dma_irq, left, engine, irqOff, old_mode, unmoved,
                 rx_watermark, ended>>

(* geni_se_select_mode clears what the abort has left.                     *)
PollRestores ==
  /\ pc = "restore" /\ pc' = "idle"
  /\ mode' = old_mode /\ old_mode' = "fifo"
  /\ m_irq' = {} /\ dma_irq' = None /\ irqOff' = FALSE
  /\ UNCHANGED <<unpolled, watermark, seVars, unmoved, polled, rx_watermark, ended>>

Polled ==
  \/ PollSynced \/ PollSetupFails \/ PollCommands \/ PollSees \/ PollActs
  \/ PollFails \/ PollTimesOut \/ PollRestores

-----------------------------------------------------------------------------
Pump == Setup \/ Waits \/ HandleErr \/ Polled

Next == Se \/ Isr \/ Transfer \/ PollStarts \/ Pump

(* The pump is a kernel thread whose waits all time out; a handler that    *)
(* has begun is done in the end, however late.  Neither the engine nor the *)
(* interrupt need ever come.                                               *)
Spec == Init /\ [][Next]_vars /\ SF_vars(Pump) /\ WF_vars(IsrRuns)

-----------------------------------------------------------------------------
(* Types; neither FIFO is ever filled beyond its depth, by handlers that   *)
(* do not look how full it is.  A DMA reset that timed out is forgotten by *)
(* the driver; what it leaves behind is the exception, here and below.     *)
TypeOK ==
  /\ pc \in {"idle", "setup", "count_tx", "count_rx", "mode", "start", "wait",
             "failed", "cancel", "abort", "reset_tx", "wait_tx", "reset_rx", "wait_rx",
             "poll_sync", "poll_setup", "poll", "poll_seen", "restore"}
  /\ id \in 0 .. MaxTransfers /\ xfer \in Transfers
  /\ saved \in 0 .. id /\ cur_xfer \in 0 .. id /\ mode \in {"fifo", "dma"}
  /\ \A d \in Directions : /\ rem[d] \in Nat /\ fifo[d] \in Nat
                           /\ fifo[d] <= Depth \/ resetLost
  /\ lock \in {"free", "isr"} /\ (lock = "isr" <=> ipc \in {"locked", "acked"})
  /\ m_irq \subseteq {"done", "tx", "rx", "last", "cancel", "abort"}
  /\ polled \in {"no", "pending", "ok", "short", "failed"}

(* A transfer is finalized by what the engine did for it: not by a status  *)
(* bit of an earlier transfer that the handler was late to see, and not    *)
(* while half of it is under way, nor before the handler has moved all the *)
(* words of a FIFO transfer.  A polled transfer, too, succeeds only by the *)
(* end of its own command, and that end finds nothing unmoved.             *)
OwnCompletion ==
  /\ (finalized /\ polled = "no") =>
       (resetLost \/ (ended /\ (pc = "wait" /\ mode = "fifo" => rem = Nil)))
  /\ polled = "ok" => ended
  /\ polled = "short" => resetLost

(* A transfer that has been started and not finalized is the one the       *)
(* handler will finalize: nothing an earlier one left behind takes it out  *)
(* of its hands.                                                           *)
StaysInHand == (pc \in {"start", "wait"} /\ ~finalized) => cur_xfer = id

(* Every transfer ends, by itself or through its timeouts.                 *)
TransferEnds == pc # "idle" ~> pc = "idle"
=============================================================================

---------------------------- MODULE GeniSe_proofs ----------------------------
(***************************************************************************)
(* The FIFO and SE-DMA modes of GeniSe for any transfers, any depth of the *)
(* FIFOs and any number of transfers.  A transfer that has been started    *)
(* stays in the hands of the handler; and as long as no reset of a DMA     *)
(* engine has timed out, no status that an earlier transfer left behind,   *)
(* in a register or in a handler that is held up, touches a later one.     *)
(***************************************************************************)
EXTENDS GeniSe, TLAPS

USE DEF pumpVars, masVars, doneVars, regVars, seVars, isrVars, pollVars, unpolled,
        Directions, Nil, None

-----------------------------------------------------------------------------
(* Types, and who is where.                                                *)

Preparing == {"count_tx", "count_rx", "mode"}
Running == {"wait", "failed"}
Stopping == {"cancel", "abort"}
Resetting == {"reset_tx", "wait_tx", "reset_rx", "wait_rx"}
Alone == {"poll_setup", "poll", "poll_seen", "restore"}   \* no handler runs
Polling == {"poll_sync"} \cup Alone

Bits == {"done", "tx", "rx", "last", "cancel", "abort"}
DmaBits == {"done", "reset"}

Places ==
  /\ pc \in {"idle", "setup", "start"} \cup Preparing \cup Running \cup Stopping
              \cup Resetting \cup Polling
  /\ id \in 0 .. MaxTransfers /\ xfer \in Transfers
  /\ saved \in 0 .. id /\ cur_xfer \in 0 .. id
  /\ mode \in {"fifo", "dma"} /\ old_mode \in {"fifo", "dma"}
  /\ lock \in {"free", "isr"} /\ ipc \in {"idle", "entered", "locked", "acked"}
  /\ polled \in {"no", "pending", "ok", "short", "failed"}

Flags ==
  /\ abort_failed \in BOOLEAN /\ finalized \in BOOLEAN /\ watermark \in BOOLEAN
  /\ cmd \in BOOLEAN /\ ends \in BOOLEAN /\ irqOff \in BOOLEAN
  /\ ended \in BOOLEAN /\ resetLost \in BOOLEAN

Words ==
  /\ rem \in [Directions -> Nat] /\ left \in [Directions -> Nat]
  /\ fifo \in [Directions -> Nat] /\ unmoved \in [Directions -> Nat]
  /\ rx_watermark \in Nat

Registers ==
  /\ m_irq \subseteq Bits /\ dma_irq \in [Directions -> SUBSET DmaBits]
  /\ seen \in [m : SUBSET Bits, dma : [Directions -> SUBSET DmaBits]]
  /\ engine \subseteq Directions

TypeInv == Places /\ Flags /\ Words /\ Registers

Inside == ipc \in {"locked", "acked"}

HandlerInv ==
  /\ lock = "isr" <=> Inside
  /\ ends => Inside
  /\ ipc = "idle" => seen.dma = None /\ (pc # "poll_seen" => seen.m = {})
  /\ irqOff <=> pc \in Polling
  /\ pc \in Alone => ipc = "idle"

(* The transfer of the pump is with the handler, not finalized yet.        *)
Own == cur_xfer # 0 /\ ~(ipc = "locked" /\ ends)

OwnerInv ==
  /\ Own => cur_xfer = id /\ ~finalized /\ pc \in {"start"} \cup Preparing \cup Running
  /\ (pc \in {"start", "wait"} \cup Preparing /\ ~finalized) => Own
  /\ pc = "setup" => id # 0 /\ ~finalized

(* A polled transfer has the engine for itself.                            *)
PolledInv ==
  /\ pc = "poll_setup" => mode = "fifo"
  /\ pc \in {"poll", "poll_seen"} =>
       /\ mode = "fifo" /\ engine = {}
       /\ ("done" \in m_irq \/ "done" \in seen.m) => (ended /\ ~cmd)
  /\ polled = "ok" => ended /\ ~cmd /\ pc \in {"restore", "idle"}

-----------------------------------------------------------------------------
(* While no DMA reset has timed out.                                       *)

Held == IF Inside THEN seen.m ELSE {}     \* what the handler will clear
Want(d) == IF xfer[d] THEN xfer.len ELSE 0

(* The command belongs to the transfer under way, and without one the      *)
(* FIFOs are empty.                                                        *)
CommandInv ==
  /\ cmd => (pc \in Running /\ Own) \/ pc \in {"poll", "poll_seen"}
  /\ (finalized /\ polled = "no") => ended
  /\ pc \in {"setup", "start"} \cup Preparing =>
       ~ended /\ polled = "no" /\ ~abort_failed /\ xfer.len > 0
  /\ pc \in Running \cup Stopping => ~abort_failed /\ polled = "no"
  /\ (~cmd /\ ~Own /\ pc \notin {"poll", "poll_seen"}) => fifo = Nil /\ ~watermark
  /\ pc \in {"start"} \cup Preparing => fifo = Nil /\ ~watermark
  /\ pc \in {"start"} \cup Preparing =>
       \A d \in Directions :
         rem[d] = IF pc = "count_tx" \/ (pc = "count_rx" /\ d = "rx") THEN 0 ELSE Want(d)

(* The TX FIFO is empty when the handler or the pump is told to fill it.   *)
FillInv ==
  /\ "tx" \in m_irq \ Held => fifo["tx"] = 0
  /\ ipc = "entered" => seen.m \subseteq m_irq \cup {"rx"}
  /\ pc = "poll_seen" => seen.m \subseteq m_irq
  /\ \A d \in Directions : fifo[d] <= Depth

(* A FIFO transfer under way.  Every word is either to be written or in    *)
(* the FIFO or gone, in each direction; a status that says done or last    *)
(* word, in the register or as the handler has seen it, is true of it; and *)
(* the interrupt for a word that is left to read has not been cleared.     *)
FifoInv ==
  (Own /\ pc \in Running /\ mode = "fifo") =>
    /\ left["tx"] = fifo["tx"] + rem["tx"] /\ rem["rx"] = left["rx"] + fifo["rx"]
    /\ watermark <=> rem["tx"] > 0
    /\ engine = {} /\ (cmd \/ (ended /\ left = Nil))
    /\ ended => "done" \in m_irq \ Held
    /\ ("done" \in m_irq \/ "done" \in seen.m) => ended /\ ~cmd
    /\ ("last" \in m_irq \/ "last" \in seen.m) => left["rx"] = 0
    /\ (left["rx"] = 0 /\ fifo["rx"] > 0) => "last" \in m_irq \ Held
    /\ (ipc = "entered" /\ "done" \in seen.m) =>
         m_irq \subseteq seen.m \cup {"rx"} /\ (fifo["rx"] > 0 => "last" \in seen.m)
    /\ Inside => "done" \notin seen.m

(* A DMA transfer under way: one engine or both are running, or all have   *)
(* said that they are done and the handler has not yet seen it all.        *)
DmaInv ==
  (Own /\ pc \in Running /\ mode = "dma") =>
    /\ cmd <=> engine # {}
    /\ ended <=> engine = {}
    /\ fifo = Nil /\ ~watermark /\ rem # Nil
    /\ \A d \in Directions :
         /\ dma_irq[d] = IF rem[d] > 0 /\ d \notin engine THEN {"done"} ELSE {}
         /\ d \in engine => rem[d] > 0
         /\ d \notin engine => left[d] = 0
         /\ ~xfer[d] => rem[d] = 0
         /\ ipc = "entered" => seen.dma[d] \subseteq dma_irq[d]

(* A polled transfer, which moves its words itself.                        *)
PollInv ==
  /\ pc \in {"poll_sync", "poll_setup"} => unmoved["tx"] > 0
  /\ pc \in {"poll", "poll_seen"} =>
       /\ left["tx"] = fifo["tx"] + unmoved["tx"] /\ unmoved["rx"] = left["rx"] + fifo["rx"]
       /\ watermark <=> unmoved["tx"] > 0
       /\ cmd \/ left = Nil
  /\ polled # "short"

(* What is left in the registers, and in a handler that is held up.  From  *)
(* one transfer to the next only an RX watermark survives, and a handler   *)
(* of FIFO mode that has seen it; a handler in DMA mode without anything   *)
(* to do for the DMA engines would take the next transfer for moved.       *)
NoDma(d) == dma_irq[d] = {} /\ (ipc = "entered" => seen.dma[d] = {})
StaleInDma == ipc = "entered" /\ seen.dma = None /\ seen.m \cap {"cancel", "abort"} = {}

Settled ==
  /\ mode = "fifo" => m_irq \ Held \subseteq {"rx"}
  /\ mode = "dma" => (m_irq \ Held) \cap {"cancel", "abort"} = {}

RestInv ==
  /\ mode = "fifo" => \A d \in Directions : NoDma(d) /\ seen.dma[d] = {}
  /\ (mode = "fifo" /\ ipc = "entered" /\ ~Own) => m_irq # {}
  /\ (mode = "dma" /\ ~Own /\ pc \in {"idle", "setup"} \cup Running) =>
       ~StaleInDma /\ \A d \in Directions : NoDma(d)
  /\ (~Own /\ pc \in Running) \/ pc = "setup" \/ (pc = "idle" /\ ~abort_failed) => Settled
  /\ (~Own /\ pc \in Running /\ finalized /\ mode = "fifo") => rem = Nil
  /\ (pc \in Preparing /\ mode = "fifo") => m_irq \subseteq {"rx"} /\ seen.m \subseteq {"rx"}
  /\ (pc \in Preparing /\ mode = "dma") =>
       /\ ipc = "idle" /\ m_irq \cap {"cancel", "abort"} = {}
       /\ \A d \in Directions : NoDma(d)
  /\ pc = "start" => m_irq = {} /\ \A d \in Directions : NoDma(d)
  /\ (pc = "start" /\ Inside) => seen.m \subseteq {"rx"}
  /\ pc \in {"start"} \cup Preparing \cup Running =>
       (m_irq \cup seen.m) \cap {"cancel", "abort"} = {}

(* Before a cancel or an abort its bit is nowhere; the handler that has    *)
(* seen it was late enough to see, and clear, everything else.             *)
StopInv ==
  /\ pc \in Stopping \cup Resetting => cur_xfer = 0
  /\ pc = "cancel" => "abort" \notin m_irq /\ "abort" \notin seen.m
  /\ \A bit \in Stopping :
       pc = bit => /\ (bit \in seen.m /\ ipc # "idle") => m_irq \subseteq seen.m
                   /\ bit \in done => m_irq \subseteq Held /\ ~StaleInDma
  /\ (pc \in Resetting /\ ~abort_failed) => m_irq \subseteq Held
  /\ (pc \in Stopping /\ mode = "dma" /\ saved = 0) =>
       ~StaleInDma /\ \A d \in Directions : NoDma(d)

(* The engine has been reset; its answer is the last thing it says.        *)
Awaited(d) ==
  /\ xfer[d] /\ d \notin engine
  /\ (ipc = "entered" /\ "reset" \in seen.dma[d]) => dma_irq[d] \subseteq seen.dma[d]
  /\ ResetDone[d] \in done => NoDma(d) /\ ~StaleInDma

(* The DMA engines of a failed transfer are reset one after the other.     *)
ResetInv ==
  /\ pc \in Resetting => mode = "dma"
  /\ (pc \in Stopping /\ mode = "dma" /\ saved # 0) \/ pc \in Resetting =>
       \A d \in Directions : ~xfer[d] => NoDma(d)
  /\ (pc \in Stopping /\ mode = "dma") \/ pc = "reset_tx" =>
       \A d \in Directions : "reset" \notin dma_irq[d] /\ "reset" \notin seen.dma[d]
  /\ pc \in {"wait_tx", "reset_rx"} =>
       "reset" \notin dma_irq["rx"] /\ "reset" \notin seen.dma["rx"]
  /\ pc \in {"reset_rx", "wait_rx"} => NoDma("tx") /\ (xfer["tx"] => ~StaleInDma)
  /\ pc = "wait_tx" => Awaited("tx")
  /\ pc = "wait_rx" => Awaited("rx")

(* IInv holds of the driver as it is.  Kept does not survive a DMA reset   *)
(* that times out: the driver logs it and goes on, with an engine whose    *)
(* answer may still be waiting in a handler.                               *)
Kept == /\ CommandInv /\ FillInv /\ FifoInv /\ DmaInv /\ PollInv /\ RestInv /\ StopInv
        /\ ResetInv
IInv == /\ TypeInv /\ HandlerInv /\ OwnerInv /\ PolledInv
        /\ ~resetLost => Kept

-----------------------------------------------------------------------------
(* Words.                                                                  *)

USE DEF Preparing, Running, Stopping, Resetting, Alone, Polling

LEMMA TxWordsBounds ==
  ASSUME TypeInv
  PROVE  /\ TxWords \in Nat /\ TxWords <= rem["tx"] /\ TxWords <= Depth
         /\ rem["tx"] > 0 => TxWords > 0
  BY TransferAssumption DEF TypeInv, Words, TxWords, TxWm, Least

LEMMA MovesBounds ==
  ASSUME TypeInv
  PROVE  /\ Moves["tx"] = IF "tx" \in seen.m THEN TxWords ELSE 0
         /\ Moves["tx"] \in Nat /\ Moves["tx"] <= rem["tx"] /\ Moves["tx"] <= Depth
         /\ Moves["rx"] \in Nat /\ Moves["rx"] <= rem["rx"] /\ Moves["rx"] <= fifo["rx"]
         /\ RxSeen => Moves["rx"] = fifo["rx"] \/ Moves["rx"] = rem["rx"]
<1>1. RxWords \in Nat /\ RxWords <= rem["rx"] /\ RxWords <= fifo["rx"]
      /\ (RxWords = fifo["rx"] \/ RxWords = rem["rx"])
  BY DEF TypeInv, Words, RxWords, Least
<1>2. Moves["rx"] = IF RxSeen THEN RxWords ELSE 0
  BY DEF Moves
<1>3. Moves["tx"] = IF "tx" \in seen.m THEN TxWords ELSE 0
  BY DEF Moves
<1>4. fifo["rx"] \in Nat /\ rem["tx"] \in Nat /\ rem["rx"] \in Nat
  BY DEF TypeInv, Words
<1> QED  BY <1>1, <1>2, <1>3, <1>4, TxWordsBounds, TransferAssumption

LEMMA WrittenBounds ==
  ASSUME TypeInv
  PROVE  /\ Written \in Nat /\ Written <= unmoved["tx"] /\ Written <= Depth
         /\ Read \in Nat /\ Read <= unmoved["rx"] /\ Read <= fifo["rx"]
         /\ "done" \in seen.m => Read = fifo["rx"] \/ Read = unmoved["rx"]
  BY TransferAssumption DEF TypeInv, Words, Written, Read, TxWm, Least

-----------------------------------------------------------------------------
(* The serial engine.                                                      *)

LEMMA StepSeSends ==
  ASSUME IInv, SeSends
  PROVE  IInv'
<1>1. TypeInv'
  BY DEF IInv, TypeInv, Places, Flags, Words, Registers, SeSends
<1>2. HandlerInv' /\ OwnerInv'
  BY DEF IInv, HandlerInv, Inside, OwnerInv, Own, SeSends
<1>3. PolledInv'
  BY DEF IInv, PolledInv, SeSends
<1>4. ASSUME ~resetLost'
      PROVE  Kept'
  <2>1. Kept
    BY <1>4 DEF IInv, SeSends
  <2>2. CommandInv' /\ DmaInv' /\ RestInv' /\ StopInv' /\ ResetInv'
    BY <2>1 DEF Kept, CommandInv, DmaInv, RestInv, StopInv, ResetInv, Own, Want, Held,
       Inside, NoDma, StaleInDma, Settled, Awaited, ResetDone, SeSends
  <2>3. FillInv'
    BY <2>1, TransferAssumption DEF IInv, TypeInv, Places, Flags, Words, Registers,
       HandlerInv, Inside, OwnerInv, Own, Kept, FillInv, CommandInv, Held, Want, SeSends
  <2>4. FifoInv'
    BY <2>1 DEF IInv, TypeInv, Words, Kept, FifoInv, Own, Held, Inside, SeSends
  <2>5. PollInv'
    BY <2>1 DEF IInv, TypeInv, Words, Kept, PollInv, SeSends
  <2> QED
    BY <2>2, <2>3, <2>4, <2>5 DEF Kept
<1> QED  BY <1>1, <1>2, <1>3, <1>4 DEF IInv

LEMMA StepSeReceives ==
  ASSUME IInv, SeReceives
  PROVE  IInv'
<1>1. TypeInv'
  BY DEF IInv, TypeInv, Places, Flags, Words, Registers, Bits, DmaBits, SeReceives
<1>2. HandlerInv' /\ OwnerInv'
  BY DEF IInv, HandlerInv, Inside, OwnerInv, Own, SeReceives
<1>3. PolledInv'
  BY DEF IInv, PolledInv, SeReceives
<1>4. ASSUME ~resetLost'
      PROVE  Kept'
  <2>1. Kept
    BY <1>4 DEF IInv, SeReceives
  <2>2. CommandInv' /\ DmaInv' /\ ResetInv'
    BY <2>1 DEF Kept, CommandInv, DmaInv, ResetInv, Own, Want, NoDma, Awaited, ResetDone,
       StaleInDma, SeReceives
  <2>3. FillInv'
    BY <2>1, TransferAssumption DEF IInv, TypeInv, Places, Flags, Words, Registers,
       HandlerInv, Inside, OwnerInv, Own, Kept, FillInv, CommandInv, Held, Want, SeReceives
  <2>4. FifoInv'
    BY <2>1 DEF IInv, TypeInv, Words, Kept, FifoInv, Own, Held, Inside, SeReceives
  <2>5. PollInv'
    BY <2>1 DEF IInv, TypeInv, Words, Kept, PollInv, SeReceives
  <2>6. RestInv'
    BY <2>1 DEF Kept, RestInv, CommandInv, Own, Held, Inside, NoDma, StaleInDma, Settled,
       SeReceives
  <2>7. StopInv'
    BY <2>1 DEF Kept, StopInv, CommandInv, Held, Inside, NoDma, StaleInDma, RestInv,
       Settled, Own, SeReceives
  <2> QED
    BY <2>2, <2>3, <2>4, <2>5, <2>6, <2>7 DEF Kept
<1> QED  BY <1>1, <1>2, <1>3, <1>4 DEF IInv

LEMMA StepSeWatermark ==
  ASSUME IInv, SeWatermark
  PROVE  IInv'
<1>1. TypeInv'
  <2>1. Places'
    BY DEF IInv, TypeInv, Places, SeWatermark
  <2>2. Flags'
    BY DEF IInv, TypeInv, Flags, SeWatermark
  <2>3. Words'
    BY DEF IInv, TypeInv, Words, SeWatermark
  <2>4. Registers'
    BY DEF IInv, TypeInv, Registers, Bits, DmaBits, SeWatermark
  <2> QED  BY <2>1, <2>2, <2>3, <2>4 DEF TypeInv
<1>2. HandlerInv' /\ OwnerInv'
  BY DEF IInv, HandlerInv, Inside, OwnerInv, Own, SeWatermark
<1>3. PolledInv'
  BY DEF IInv, PolledInv, SeWatermark
<1>4. ASSUME ~resetLost'
      PROVE  Kept'
  <2>1. Kept
    BY <1>4 DEF IInv, SeWatermark
  <2>2. CommandInv' /\ DmaInv' /\ PollInv' /\ ResetInv'
    BY <2>1 DEF Kept, CommandInv, DmaInv, PollInv, ResetInv, Own, Want, NoDma, Awaited,
       ResetDone, StaleInDma, SeWatermark
  <2>3. FillInv'
    BY <2>1 DEF IInv, TypeInv, Words, Flags, OwnerInv, Own, Kept, FillInv, CommandInv, Held,
       Inside, SeWatermark, TxWm
  <2>4. FifoInv'
    BY <2>1 DEF IInv, TypeInv, Words, Kept, FifoInv, Own, Held, Inside, SeWatermark
  <2>5. RestInv'
    BY <2>1 DEF IInv, TypeInv, Words, Flags, OwnerInv, Own, Kept, RestInv, CommandInv, Held,
       Inside, NoDma, StaleInDma, Settled, SeWatermark, TxWm
  <2>6. StopInv'
    BY <2>1 DEF IInv, TypeInv, Words, Flags, OwnerInv, Own, Kept, StopInv, CommandInv, Held,
       Inside, NoDma, StaleInDma, RestInv, Settled, SeWatermark, TxWm
  <2> QED
    BY <2>2, <2>3, <2>4, <2>5, <2>6 DEF Kept
<1> QED  BY <1>1, <1>2, <1>3, <1>4 DEF IInv

LEMMA StepSeDone ==
  ASSUME IInv, SeDone
  PROVE  IInv'
<1>1. TypeInv'
  <2>1. Places'
    BY DEF IInv, TypeInv, Places, SeDone
  <2>2. Flags'
    BY DEF IInv, TypeInv, Flags, SeDone
  <2>3. Words'
    BY DEF IInv, TypeInv, Words, SeDone
  <2>4. Registers'
    BY DEF IInv, TypeInv, Registers, Bits, DmaBits, SeDone
  <2> QED  BY <2>1, <2>2, <2>3, <2>4 DEF TypeInv
<1>2. HandlerInv' /\ OwnerInv'
  BY DEF IInv, HandlerInv, Inside, OwnerInv, Own, SeDone
<1>3. PolledInv'
  BY DEF IInv, PolledInv, SeDone
<1>4. ASSUME ~resetLost'
      PROVE  Kept'
  <2>1. Kept
    BY <1>4 DEF IInv, SeDone
  <2>2. CommandInv' /\ FillInv' /\ FifoInv' /\ DmaInv' /\ PollInv' /\ ResetInv'
    BY <2>1 DEF Kept, CommandInv, FillInv, FifoInv, DmaInv, PollInv, ResetInv, Own, Want,
       Held, Inside, NoDma, Awaited, ResetDone, StaleInDma, SeDone
  <2>3. RestInv'
    BY <2>1 DEF Kept, RestInv, CommandInv, Own, Held, Inside, NoDma, StaleInDma, Settled,
       SeDone
  <2>4. StopInv'
    BY <2>1 DEF Kept, StopInv, CommandInv, Held, Inside, NoDma, StaleInDma, RestInv,
       Settled, Own, SeDone
  <2> QED
    BY <2>2, <2>3, <2>4 DEF Kept
<1> QED  BY <1>1, <1>2, <1>3, <1>4 DEF IInv

(* The last DMA engine ends the command while the transfer is still        *)
(* waited for.                                                             *)
LEMMA StepSeDmaDone ==
  ASSUME IInv, NEW d \in Directions, SeDmaDone(d)
  PROVE  IInv'
<1>1. TypeInv'
  BY DEF IInv, TypeInv, Places, Flags, Words, Registers, Bits, DmaBits, SeDmaDone
<1>2. HandlerInv' /\ OwnerInv'
  BY DEF IInv, HandlerInv, Inside, OwnerInv, Own, SeDmaDone
<1>3. PolledInv'
  BY DEF IInv, PolledInv, SeDmaDone
<1>4. ASSUME ~resetLost'
      PROVE  Kept'
  <2>1. Kept
    BY <1>4 DEF IInv, SeDmaDone
  <2>2. CommandInv'
    BY <2>1 DEF IInv, OwnerInv, Own, Kept, CommandInv, Want, PolledInv, SeDmaDone
  <2>3. FillInv' /\ FifoInv'
    BY <2>1 DEF Kept, FillInv, FifoInv, Held, Inside, Own, SeDmaDone
  <2>4. DmaInv'
    <3>1. ASSUME Own, pc \in Running, mode = "dma"
          PROVE  /\ engine' = engine \ {d} /\ dma_irq' = [dma_irq EXCEPT ![d] = {"done"}]
                 /\ rem[d] > 0 /\ dma_irq[d] = {}
      BY <2>1, <3>1 DEF IInv, TypeInv, Registers, Kept, DmaInv, SeDmaDone
    <3>2. /\ left' = [left EXCEPT ![d] = 0] /\ cmd' = (engine' # {}) /\ ended' = ~cmd'
          /\ UNCHANGED <<cur_xfer, ipc, ends, pc, mode, fifo, watermark, rem, xfer, seen>>
      BY DEF SeDmaDone
    <3>3. ASSUME Own, pc \in Running, mode = "dma"
          PROVE  \A e \in Directions :
                   /\ dma_irq'[e] = IF rem[e] > 0 /\ e \notin engine' THEN {"done"} ELSE {}
                   /\ e \notin engine' => left'[e] = 0
                   /\ ipc = "entered" => seen.dma[e] \subseteq dma_irq'[e]
      BY <2>1, <3>1, <3>2, <3>3 DEF IInv, TypeInv, Words, Registers, Kept, DmaInv
    <3> QED
      BY <2>1, <3>1, <3>2, <3>3 DEF Kept, DmaInv, Own
  <2>5. PollInv'
    BY <2>1 DEF IInv, HandlerInv, Inside, Kept, PollInv, PolledInv, SeDmaDone
  <2>6. RestInv'
    BY <2>1 DEF IInv, HandlerInv, Inside, Kept, RestInv, CommandInv, Own, Held, NoDma,
       StaleInDma, Settled, PolledInv, FifoInv, DmaInv, SeDmaDone
  <2>7. StopInv'
    BY <2>1 DEF Kept, StopInv, CommandInv, Held, Inside, NoDma, StaleInDma, RestInv,
       Settled, Own, SeDmaDone
  <2>8. ResetInv'
    BY <2>1 DEF Kept, ResetInv, CommandInv, NoDma, Awaited, ResetDone, StaleInDma, StopInv,
       RestInv, Settled, Held, Inside, Own, SeDmaDone
  <2> QED
    BY <2>2, <2>3, <2>4, <2>5, <2>6, <2>7, <2>8 DEF Kept
<1> QED  BY <1>1, <1>2, <1>3, <1>4 DEF IInv

-----------------------------------------------------------------------------
(* The pump: from the next transfer to its start.                          *)

(* A failed abort is over, or the registers hold nothing that could hurt:  *)
(* in FIFO mode a handler that is held up has seen a bit that is still     *)
(* set.                                                                    *)
LEMMA StepTransfer ==
  ASSUME IInv, Transfer
  PROVE  IInv'
<1>1. TypeInv'
  <2>1. Places'
    BY TransferAssumption DEF IInv, TypeInv, Places, Transfer
  <2>2. Flags'
    BY DEF IInv, TypeInv, Flags, Transfer
  <2>3. Words'
    BY DEF IInv, TypeInv, Words, Transfer
  <2>4. Registers'
    BY DEF IInv, TypeInv, Registers, Bits, DmaBits, Transfer
  <2> QED  BY <2>1, <2>2, <2>3, <2>4 DEF TypeInv
<1>2. HandlerInv' /\ OwnerInv'
  BY DEF IInv, TypeInv, Places, HandlerInv, Inside, OwnerInv, Own, Transfer
<1>3. PolledInv'
  BY DEF IInv, PolledInv, Transfer
<1>4. ASSUME ~resetLost'
      PROVE  Kept'
  <2>1. Kept
    BY <1>4 DEF IInv, Transfer
  <2>2. CommandInv'
    BY <2>1, TransferAssumption DEF IInv, TypeInv, Places, Flags, Words, Registers,
       HandlerInv, Inside, OwnerInv, Own, Kept, CommandInv, Want, Transfer, AbortPending,
       Enabled
  <2>3. FillInv' /\ FifoInv' /\ DmaInv' /\ PollInv' /\ StopInv' /\ ResetInv'
    BY <2>1 DEF Kept, FillInv, FifoInv, DmaInv, PollInv, StopInv, ResetInv, Held, Inside,
       Own, NoDma, StaleInDma, Awaited, ResetDone, Transfer
  <2>4. RestInv'
    BY <2>1 DEF IInv, TypeInv, Registers, Kept, RestInv, CommandInv, Own, Held, Inside,
       NoDma, StaleInDma, Settled, Bits, Transfer, AbortPending, Enabled
  <2> QED
    BY <2>2, <2>3, <2>4 DEF Kept
<1> QED  BY <1>1, <1>2, <1>3, <1>4 DEF IInv

(* No handler is inside, and what one outside has seen is at most a stale  *)
(* RX watermark.                                                           *)
LEMMA StepSetupOwns ==
  ASSUME IInv, SetupOwns
  PROVE  IInv'
<1>1. TypeInv'
  BY DEF IInv, TypeInv, Places, Flags, Words, Registers, SetupOwns
<1>2. HandlerInv' /\ OwnerInv'
  BY DEF IInv, HandlerInv, Inside, OwnerInv, Own, SetupOwns, Barrier
<1>3. PolledInv'
  BY DEF IInv, PolledInv, SetupOwns
<1>4. ASSUME ~resetLost'
      PROVE  Kept'
  <2>1. Kept
    BY <1>4 DEF IInv, SetupOwns
  <2>2. CommandInv'
    BY <2>1 DEF IInv, OwnerInv, Own, Kept, CommandInv, Want, SetupOwns
  <2>3. FillInv' /\ FifoInv' /\ DmaInv' /\ PollInv' /\ StopInv' /\ ResetInv'
    BY <2>1 DEF Kept, FillInv, FifoInv, DmaInv, PollInv, StopInv, ResetInv, Held, Inside,
       Own, NoDma, StaleInDma, Awaited, ResetDone, SetupOwns
  <2>4. RestInv'
    BY <2>1 DEF IInv, TypeInv, Places, Flags, Words, Registers, HandlerInv, Inside,
       OwnerInv, Own, Kept, RestInv, CommandInv, Held, NoDma, StaleInDma, Settled, FillInv,
       SetupOwns, Barrier
  <2> QED
    BY <2>2, <2>3, <2>4 DEF Kept
<1> QED  BY <1>1, <1>2, <1>3, <1>4 DEF IInv

LEMMA StepSetupFails ==
  ASSUME IInv, SetupFails
  PROVE  IInv'
<1>1. TypeInv'
  BY DEF IInv, TypeInv, Places, Flags, Words, Registers, SetupFails
<1>2. HandlerInv' /\ OwnerInv'
  BY DEF IInv, HandlerInv, Inside, OwnerInv, Own, SetupFails
<1>3. PolledInv'
  BY DEF IInv, PolledInv, SetupFails
<1>4. ASSUME ~resetLost'
      PROVE  Kept'
  <2>1. Kept
    BY <1>4 DEF IInv, SetupFails
  <2>2. CommandInv' /\ FillInv' /\ PollInv' /\ StopInv' /\ ResetInv'
    BY <2>1 DEF Kept, CommandInv, FillInv, PollInv, StopInv, ResetInv, Own, Want, Held,
       Inside, NoDma, StaleInDma, Awaited, ResetDone, SetupFails
  <2>3. FifoInv'
    BY <2>1 DEF IInv, OwnerInv, Own, Kept, FifoInv, Held, Inside, SetupFails
  <2>4. DmaInv'
    BY <2>1 DEF IInv, OwnerInv, Own, Kept, DmaInv, SetupFails
  <2>5. RestInv'
    BY <2>1 DEF IInv, TypeInv, Places, Flags, Words, Registers, HandlerInv, Inside,
       OwnerInv, Own, Kept, RestInv, CommandInv, Held, NoDma, StaleInDma, Settled, FillInv,
       SetupFails, Barrier
  <2> QED
    BY <2>2, <2>3, <2>4, <2>5 DEF Kept
<1> QED  BY <1>1, <1>2, <1>3, <1>4 DEF IInv

LEMMA StepCountsTx ==
  ASSUME IInv, SetupCounts("tx", "count_tx", "count_rx")
  PROVE  IInv'
<1>1. TypeInv'
  BY TransferAssumption DEF IInv, TypeInv, Places, Flags, Words, Registers, SetupCounts
<1>2. HandlerInv' /\ OwnerInv'
  BY DEF IInv, HandlerInv, Inside, OwnerInv, Own, SetupCounts
<1>3. PolledInv'
  BY DEF IInv, PolledInv, SetupCounts
<1>4. ASSUME ~resetLost'
      PROVE  Kept'
  <2>1. Kept
    BY <1>4 DEF IInv, SetupCounts
  <2>2. CommandInv'
    BY <2>1 DEF IInv, TypeInv, Words, Kept, CommandInv, Own, Want, SetupCounts
  <2>3. /\ FillInv' /\ FifoInv' /\ DmaInv' /\ PollInv'
        /\ RestInv' /\ StopInv' /\ ResetInv'
    BY <2>1 DEF Kept, FillInv, FifoInv, DmaInv, PollInv, RestInv, StopInv, ResetInv, Held,
       Inside, Own, NoDma, StaleInDma, Settled, Awaited, ResetDone, SetupCounts
  <2> QED
    BY <2>2, <2>3 DEF Kept
<1> QED  BY <1>1, <1>2, <1>3, <1>4 DEF IInv

LEMMA StepCountsRx ==
  ASSUME IInv, SetupCounts("rx", "count_rx", "mode")
  PROVE  IInv'
<1>1. TypeInv'
  BY TransferAssumption DEF IInv, TypeInv, Places, Flags, Words, Registers, SetupCounts
<1>2. HandlerInv' /\ OwnerInv'
  BY DEF IInv, HandlerInv, Inside, OwnerInv, Own, SetupCounts
<1>3. PolledInv'
  BY DEF IInv, PolledInv, SetupCounts
<1>4. ASSUME ~resetLost'
      PROVE  Kept'
  <2>1. Kept
    BY <1>4 DEF IInv, SetupCounts
  <2>2. CommandInv'
    BY <2>1 DEF IInv, TypeInv, Words, Kept, CommandInv, Own, Want, SetupCounts
  <2>3. /\ FillInv' /\ FifoInv' /\ DmaInv' /\ PollInv'
        /\ RestInv' /\ StopInv' /\ ResetInv'
    BY <2>1 DEF Kept, FillInv, FifoInv, DmaInv, PollInv, RestInv, StopInv, ResetInv, Held,
       Inside, Own, NoDma, StaleInDma, Settled, Awaited, ResetDone, SetupCounts
  <2> QED
    BY <2>2, <2>3 DEF Kept
<1> QED  BY <1>1, <1>2, <1>3, <1>4 DEF IInv

LEMMA StepSetupMode ==
  ASSUME IInv, SetupMode
  PROVE  IInv'
<1>1. TypeInv'
  BY DEF IInv, TypeInv, Places, Flags, Words, Registers, SetupMode
<1>2. HandlerInv' /\ OwnerInv'
  BY DEF IInv, HandlerInv, Inside, OwnerInv, Own, SetupMode
<1>3. PolledInv'
  BY DEF IInv, PolledInv, SetupMode
<1>4. ASSUME ~resetLost'
      PROVE  Kept'
  <2>1. Kept
    BY <1>4 DEF IInv, SetupMode
  <2>2. CommandInv' /\ FifoInv' /\ DmaInv' /\ PollInv' /\ StopInv' /\ ResetInv'
    BY <2>1 DEF Kept, CommandInv, FifoInv, DmaInv, PollInv, StopInv, ResetInv, Own, Want,
       Held, Inside, NoDma, StaleInDma, Awaited, ResetDone, SetupMode
  <2>3. FillInv'
    BY <2>1 DEF IInv, TypeInv, Places, Flags, Words, Registers, HandlerInv, Inside,
       OwnerInv, Own, Kept, FillInv, CommandInv, Held, RestInv, SetupMode
  <2>4. RestInv'
    BY <2>1 DEF IInv, TypeInv, Places, Flags, Words, Registers, HandlerInv, Inside,
       OwnerInv, Own, Kept, RestInv, CommandInv, Held, NoDma, StaleInDma, Settled, SetupMode
  <2> QED
    BY <2>2, <2>3, <2>4 DEF Kept
<1> QED  BY <1>1, <1>2, <1>3, <1>4 DEF IInv

(* The first words go into an empty FIFO.                                  *)
LEMMA SetupStartsFifo ==
  ASSUME IInv, SetupStarts, Kept
  PROVE  FifoInv'
<1>1. /\ pc = "start" /\ pc' = "wait" /\ cmd' = TRUE /\ m_irq' = m_irq /\ seen' = seen
      /\ ipc' = ipc /\ ended' = ended
  BY DEF SetupStarts
<1>2. /\ fifo = Nil /\ rem["tx"] = Want("tx") /\ rem["rx"] = Want("rx") /\ ~ended
  BY <1>1 DEF Kept, CommandInv
<1>3. m_irq = {} /\ seen.m \subseteq {"rx"}
  BY <1>1 DEF Kept, RestInv, FillInv, IInv, HandlerInv, Inside, TypeInv, Places
<1>4. ASSUME mode' = "fifo"
      PROVE  /\ left'["tx"] = fifo'["tx"] + rem'["tx"]
             /\ rem'["rx"] = left'["rx"] + fifo'["rx"]
             /\ watermark' <=> rem'["tx"] > 0
             /\ engine' = {} /\ fifo'["rx"] = 0
  <2>1. /\ mode = "fifo" /\ engine' = {} /\ (watermark' <=> rem["tx"] > TxWords)
        /\ rem' = [rem EXCEPT !["tx"] = @ - TxWords]
        /\ fifo' = [fifo EXCEPT !["tx"] = @ + TxWords]
        /\ left' = [d \in Directions |-> Want(d)]
    BY <1>1, <1>2, <1>4 DEF SetupStarts, IInv, OwnerInv, Own, Kept, CommandInv, TxLater, Want
  <2>2. rem["tx"] \in Nat /\ TxWords \in Nat /\ TxWords <= rem["tx"] /\ rem["rx"] \in Nat
    BY TxWordsBounds DEF IInv, TypeInv, Words
  <2>3. rem'["tx"] = rem["tx"] - TxWords /\ rem'["rx"] = rem["rx"]
    BY <2>1 DEF IInv, TypeInv, Words
  <2>4. fifo'["tx"] = TxWords /\ fifo'["rx"] = 0
    BY <1>2, <2>1, <2>2 DEF IInv, TypeInv, Words
  <2> QED
    BY <1>2, <2>1, <2>2, <2>3, <2>4
<1> QED
  BY <1>1, <1>3, <1>4, <1>2 DEF FifoInv, Held

LEMMA StepSetupStarts ==
  ASSUME IInv, SetupStarts
  PROVE  IInv'
<1>1. TypeInv'
  <2>1. Places'
    BY DEF IInv, TypeInv, Places, SetupStarts
  <2>2. Flags'
    BY DEF IInv, TypeInv, Flags, SetupStarts, TxWords, TxLater, TxWm, Least
  <2>3. Words'
    <3>1. rem["tx"] - TxWords \in Nat /\ fifo["tx"] + TxWords \in Nat
      BY TxWordsBounds DEF IInv, TypeInv, Words
    <3>2. left' \in [Directions -> Nat]
      BY TransferAssumption DEF IInv, TypeInv, Places, SetupStarts
    <3>3. rem' \in [Directions -> Nat] /\ fifo' \in [Directions -> Nat]
      BY <3>1 DEF IInv, TypeInv, Words, SetupStarts
    <3> QED
      BY <3>2, <3>3 DEF IInv, TypeInv, Words, SetupStarts
  <2>4. Registers'
    BY DEF IInv, TypeInv, Registers, Bits, DmaBits, SetupStarts
  <2> QED  BY <2>1, <2>2, <2>3, <2>4 DEF TypeInv
<1>2. HandlerInv' /\ OwnerInv'
  BY DEF IInv, HandlerInv, Inside, OwnerInv, Own, SetupStarts
<1>3. PolledInv'
  BY DEF IInv, PolledInv, SetupStarts
<1>4. ASSUME ~resetLost'
      PROVE  Kept'
  <2>1. Kept
    BY <1>4 DEF IInv, SetupStarts
  <2>2. CommandInv'
    BY <2>1 DEF IInv, OwnerInv, Own, Kept, CommandInv, Want, SetupStarts
  <2>3. FillInv'
    BY <2>1, TransferAssumption DEF IInv, TypeInv, Places, Flags, Words, Registers,
       HandlerInv, Inside, OwnerInv, Own, Kept, FillInv, CommandInv, Held, RestInv, Want,
       SetupStarts, TxWords, TxLater, TxWm, Least
  <2>4. FifoInv'
    BY <2>1, SetupStartsFifo
  <2>5. DmaInv'
    BY <2>1, TransferAssumption DEF IInv, TypeInv, Places, Flags, Words, Registers,
       HandlerInv, Inside, OwnerInv, Own, Kept, DmaInv, CommandInv, Want, RestInv, NoDma,
       SetupStarts, TxWords, TxLater, TxWm, Least
  <2>6. PollInv' /\ StopInv' /\ ResetInv'
    BY <2>1 DEF Kept, PollInv, StopInv, ResetInv, Held, Inside, NoDma, StaleInDma, Awaited,
       ResetDone, SetupStarts
  <2>7. RestInv'
    BY <2>1 DEF IInv, OwnerInv, Own, Kept, RestInv, CommandInv, Held, Inside, NoDma,
       StaleInDma, Settled, SetupStarts, TxWords, TxLater, TxWm, Least
  <2> QED
    BY <2>2, <2>3, <2>4, <2>5, <2>6, <2>7 DEF Kept
<1> QED  BY <1>1, <1>2, <1>3, <1>4 DEF IInv

-----------------------------------------------------------------------------
(* A transfer that has failed.                                             *)

LEMMA StepWaits ==
  ASSUME IInv, Waits
  PROVE  IInv'
<1>1. TypeInv'
  BY DEF IInv, TypeInv, Places, Flags, Words, Registers, Waits
<1>2. HandlerInv' /\ OwnerInv'
  BY DEF IInv, HandlerInv, Inside, OwnerInv, Own, Waits
<1>3. PolledInv'
  BY DEF IInv, PolledInv, Waits
<1>4. ASSUME ~resetLost'
      PROVE  Kept'
  <2>1. Kept
    BY <1>4 DEF IInv, Waits
  <2>2. CommandInv'
    BY <2>1 DEF IInv, OwnerInv, Own, Kept, CommandInv, Want, Waits
  <2>3. FillInv' /\ FifoInv' /\ DmaInv' /\ PollInv' /\ StopInv' /\ ResetInv'
    BY <1>4, <2>1 DEF Kept, FillInv, FifoInv, DmaInv, PollInv, StopInv, ResetInv, Held,
       Inside, Own, NoDma, StaleInDma, Awaited, ResetDone, Waits
  <2>4. RestInv'
    BY <2>1 DEF IInv, OwnerInv, Own, Kept, RestInv, Held, Inside, NoDma, StaleInDma,
       Settled, Waits
  <2> QED
    BY <2>2, <2>3, <2>4 DEF Kept
<1> QED  BY <1>1, <1>2, <1>3, <1>4 DEF IInv

(* A cancel drops what is in the FIFOs; what a DMA engine has answered is  *)
(* reset later.                                                            *)
LEMMA StepCancels ==
  ASSUME IInv, Cancels
  PROVE  IInv'
<1>1. TypeInv'
  <2>1. Places'
    BY DEF IInv, TypeInv, Places, Cancels, TakenBack, Stopped
  <2>2. Flags'
    BY DEF IInv, TypeInv, Flags, Cancels, TakenBack, Stopped
  <2>3. Words'
    BY DEF IInv, TypeInv, Words, Cancels, TakenBack, Stopped
  <2>4. Registers'
    BY DEF IInv, TypeInv, Registers, Bits, DmaBits, Cancels, TakenBack, Stopped
  <2> QED  BY <2>1, <2>2, <2>3, <2>4 DEF TypeInv
<1>2. HandlerInv' /\ OwnerInv'
  BY DEF IInv, HandlerInv, Inside, OwnerInv, Own, Cancels, TakenBack, Stopped
<1>3. PolledInv'
  BY DEF IInv, PolledInv, Cancels
<1>4. ASSUME ~resetLost'
      PROVE  Kept'
  <2>1. Kept
    BY <1>4 DEF IInv, Cancels
  <2>2. CommandInv'
    BY <2>1 DEF IInv, TypeInv, Places, Flags, Words, Registers, HandlerInv, Inside,
       OwnerInv, Own, Kept, CommandInv, Want, DmaInv, Cancels, TakenBack, Stopped
  <2>3. FillInv'
    BY <2>1, TransferAssumption DEF IInv, TypeInv, Places, Flags, Words, Registers,
       HandlerInv, Inside, OwnerInv, Own, Kept, FillInv, CommandInv, Held, Want, Cancels,
       TakenBack, Stopped
  <2>4. FifoInv' /\ DmaInv' /\ PollInv'
    BY <2>1 DEF Kept, FifoInv, DmaInv, PollInv, Own, Held, Inside, TakenBack, Cancels
  <2>5. RestInv'
    BY <2>1 DEF Kept, RestInv, CommandInv, Own, Held, Inside, NoDma, StaleInDma, Settled,
       FifoInv, Cancels, TakenBack, Stopped
  <2>6. StopInv'
    BY <2>1 DEF Kept, StopInv, CommandInv, Held, Inside, NoDma, StaleInDma, RestInv,
       Settled, Own, Cancels, TakenBack, Stopped
  <2>7. ResetInv'
    BY <2>1 DEF IInv, TypeInv, Places, Flags, Words, Registers, HandlerInv, Inside,
       OwnerInv, Own, Kept, ResetInv, CommandInv, NoDma, Awaited, ResetDone, StaleInDma,
       DmaInv, StopInv, RestInv, Settled, Held, Cancels, TakenBack, Stopped
  <2> QED
    BY <2>2, <2>3, <2>4, <2>5, <2>6, <2>7 DEF Kept
<1> QED  BY <1>1, <1>2, <1>3, <1>4 DEF IInv

LEMMA StepAborts ==
  ASSUME IInv, Aborts
  PROVE  IInv'
<1>1. TypeInv'
  <2>1. Places'
    BY DEF IInv, TypeInv, Places, Aborts
  <2>2. Flags'
    BY DEF IInv, TypeInv, Flags, Aborts, Stopped
  <2>3. Words'
    BY DEF IInv, TypeInv, Words, Aborts, Stopped
  <2>4. Registers'
    BY DEF IInv, TypeInv, Registers, Bits, DmaBits, Aborts, Stopped
  <2> QED  BY <2>1, <2>2, <2>3, <2>4 DEF TypeInv
<1>2. HandlerInv' /\ OwnerInv'
  BY DEF IInv, HandlerInv, Inside, OwnerInv, Own, Aborts
<1>3. PolledInv'
  BY DEF IInv, PolledInv, Aborts
<1>4. ASSUME ~resetLost'
      PROVE  Kept'
  <2>1. Kept
    BY <1>4 DEF IInv, Aborts
  <2>2. CommandInv'
    BY <2>1 DEF Kept, CommandInv, Own, Want, Aborts, Stopped
  <2>3. FillInv'
    BY <2>1 DEF IInv, OwnerInv, Own, Kept, FillInv, CommandInv, Held, Inside, Aborts,
       Stopped
  <2>4. FifoInv' /\ DmaInv' /\ PollInv' /\ StopInv' /\ ResetInv'
    BY <2>1 DEF Kept, FifoInv, DmaInv, PollInv, StopInv, ResetInv, Own, Held, Inside, NoDma,
       StaleInDma, Awaited, ResetDone, Aborts
  <2>5. RestInv'
    BY <2>1 DEF Kept, RestInv, CommandInv, Own, Held, Inside, NoDma, StaleInDma, Settled,
       Aborts, Stopped
  <2> QED
    BY <2>2, <2>3, <2>4, <2>5 DEF Kept
<1> QED  BY <1>1, <1>2, <1>3, <1>4 DEF IInv

(* The handler that answers a cancel or an abort has seen, and will        *)
(* clear, all there was.                                                   *)
LEMMA StepStops ==
  ASSUME IInv, Stops
  PROVE  IInv'
<1>1. TypeInv'
  <2>1. Places'
    BY DEF IInv, TypeInv, Places, Stops
  <2>2. Flags'
    BY DEF IInv, TypeInv, Flags, Stops
  <2>3. Words'
    BY DEF IInv, TypeInv, Words, Stops
  <2>4. Registers'
    BY DEF IInv, TypeInv, Registers, Bits, DmaBits, Stops
  <2> QED  BY <2>1, <2>2, <2>3, <2>4 DEF TypeInv
<1>2. HandlerInv' /\ OwnerInv'
  BY DEF IInv, HandlerInv, Inside, OwnerInv, Own, Stops
<1>3. PolledInv'
  BY DEF IInv, PolledInv, Stops
<1>4. ASSUME ~resetLost'
      PROVE  Kept'
  <2>1. Kept
    BY <1>4 DEF IInv, Stops
  <2>2. CommandInv' /\ FillInv' /\ FifoInv' /\ DmaInv'
    BY <2>1 DEF Kept, CommandInv, FillInv, FifoInv, DmaInv, Own, Want, Held, Inside, Stops
  <2>3. PollInv' /\ ResetInv'
    BY <2>1 DEF Kept, PollInv, ResetInv, StopInv, RestInv, Own, Held, Inside, NoDma,
       StaleInDma, Settled, Awaited, ResetDone, Stops
  <2>4. RestInv'
    BY <2>1 DEF Kept, RestInv, Own, Held, Inside, NoDma, StaleInDma, Settled, StopInv, Stops
  <2>5. StopInv'
    BY <2>1 DEF Kept, StopInv, Held, Inside, NoDma, StaleInDma, Stops
  <2> QED
    BY <2>2, <2>3, <2>4, <2>5 DEF Kept
<1> QED  BY <1>1, <1>2, <1>3, <1>4 DEF IInv

LEMMA StepResetsTx ==
  ASSUME IInv, Resets("tx", "reset_tx", "wait_tx", "reset_rx")
  PROVE  IInv'
<1>1. TypeInv'
  <2>1. Places'
    BY DEF IInv, TypeInv, Places, Resets
  <2>2. Flags'
    BY DEF IInv, TypeInv, Flags, Resets
  <2>3. Words'
    BY DEF IInv, TypeInv, Words, Resets
  <2>4. Registers'
    <3>1. dma_irq' \in [Directions -> SUBSET DmaBits]
      BY DEF IInv, TypeInv, Registers, DmaBits, Resets
    <3>2. UNCHANGED <<m_irq, seen>> /\ engine' \subseteq engine
      BY DEF Resets
    <3> QED
      BY <3>1, <3>2 DEF IInv, TypeInv, Registers
  <2> QED  BY <2>1, <2>2, <2>3, <2>4 DEF TypeInv
<1>2. HandlerInv' /\ OwnerInv'
  BY DEF IInv, HandlerInv, Inside, OwnerInv, Own, Resets
<1>3. PolledInv'
  BY DEF IInv, PolledInv, Resets
<1>4. ASSUME ~resetLost'
      PROVE  Kept'
  <2>1. Kept
    BY <1>4 DEF IInv, Resets
  <2>2. /\ CommandInv' /\ FillInv' /\ FifoInv' /\ DmaInv'
        /\ PollInv' /\ RestInv' /\ StopInv'
    BY <2>1 DEF Kept, CommandInv, FillInv, FifoInv, DmaInv, PollInv, RestInv, StopInv, Own,
       Want, Held, Inside, NoDma, StaleInDma, Settled, ResetInv, Resets
  <2>3. ResetInv'
    BY <2>1 DEF IInv, TypeInv, Registers, Kept, ResetInv, NoDma, Awaited, ResetDone,
       StaleInDma, Resets
  <2> QED
    BY <2>2, <2>3 DEF Kept
<1> QED  BY <1>1, <1>2, <1>3, <1>4 DEF IInv

LEMMA StepResetsRx ==
  ASSUME IInv, Resets("rx", "reset_rx", "wait_rx", "idle")
  PROVE  IInv'
<1>1. TypeInv'
  <2>1. Places'
    BY DEF IInv, TypeInv, Places, Resets
  <2>2. Flags'
    BY DEF IInv, TypeInv, Flags, Resets
  <2>3. Words'
    BY DEF IInv, TypeInv, Words, Resets
  <2>4. Registers'
    <3>1. dma_irq' \in [Directions -> SUBSET DmaBits]
      BY DEF IInv, TypeInv, Registers, DmaBits, Resets
    <3>2. UNCHANGED <<m_irq, seen>> /\ engine' \subseteq engine
      BY DEF Resets
    <3> QED
      BY <3>1, <3>2 DEF IInv, TypeInv, Registers
  <2> QED  BY <2>1, <2>2, <2>3, <2>4 DEF TypeInv
<1>2. HandlerInv' /\ OwnerInv'
  BY DEF IInv, HandlerInv, Inside, OwnerInv, Own, Resets
<1>3. PolledInv'
  BY DEF IInv, PolledInv, Resets
<1>4. ASSUME ~resetLost'
      PROVE  Kept'
  <2>1. Kept
    BY <1>4 DEF IInv, Resets
  <2>2. CommandInv' /\ FillInv' /\ FifoInv' /\ DmaInv' /\ PollInv' /\ StopInv'
    BY <2>1 DEF Kept, CommandInv, FillInv, FifoInv, DmaInv, PollInv, StopInv, Own, Want,
       Held, Inside, NoDma, StaleInDma, Resets
  <2>3. RestInv'
    BY <2>1, TransferAssumption DEF IInv, TypeInv, Places, Flags, Words, Registers,
       HandlerInv, Inside, OwnerInv, Own, Kept, RestInv, CommandInv, Held, NoDma, StaleInDma,
       Settled, ResetInv, StopInv, Want, Resets, ResetDone
  <2>4. ResetInv'
    BY <2>1 DEF IInv, TypeInv, Registers, Kept, ResetInv, NoDma, Awaited, ResetDone,
       StaleInDma, Resets
  <2> QED
    BY <2>2, <2>3, <2>4 DEF Kept
<1> QED  BY <1>1, <1>2, <1>3, <1>4 DEF IInv

(* The answer to the reset is the last thing that is left of the           *)
(* transfer.                                                               *)
LEMMA StepWaitsTx ==
  ASSUME IInv, ResetWaits("tx", "wait_tx", "reset_rx")
  PROVE  IInv'
<1>1. TypeInv'
  BY DEF IInv, TypeInv, Places, Flags, Words, Registers, ResetWaits
<1>2. HandlerInv' /\ OwnerInv'
  BY DEF IInv, HandlerInv, Inside, OwnerInv, Own, ResetWaits
<1>3. PolledInv'
  BY DEF IInv, PolledInv, ResetWaits
<1>4. ASSUME ~resetLost'
      PROVE  Kept'
  <2>1. Kept
    BY <1>4 DEF IInv, ResetWaits
  <2>2. CommandInv' /\ FillInv' /\ FifoInv' /\ DmaInv'
    BY <1>4, <2>1 DEF Kept, CommandInv, FillInv, FifoInv, DmaInv, Own, Want, Held, Inside,
       ResetWaits
  <2>3. PollInv'
    BY <1>4, <2>1 DEF Kept, PollInv, ResetWaits
  <2>4. RestInv'
    BY <1>4, <2>1 DEF Kept, RestInv, Own, Held, Inside, NoDma, StaleInDma, Settled, Awaited,
       ResetWaits
  <2>5. StopInv'
    BY <1>4, <2>1 DEF Kept, StopInv, Held, Inside, NoDma, StaleInDma, ResetWaits
  <2>6. ResetInv'
    BY <1>4, <2>1 DEF Kept, ResetInv, NoDma, Awaited, ResetDone, StaleInDma, ResetWaits
  <2> QED
    BY <2>2, <2>3, <2>4, <2>5, <2>6 DEF Kept
<1> QED  BY <1>1, <1>2, <1>3, <1>4 DEF IInv

LEMMA StepWaitsRx ==
  ASSUME IInv, ResetWaits("rx", "wait_rx", "idle")
  PROVE  IInv'
<1>1. TypeInv'
  BY DEF IInv, TypeInv, Places, Flags, Words, Registers, ResetWaits
<1>2. HandlerInv' /\ OwnerInv'
  BY DEF IInv, HandlerInv, Inside, OwnerInv, Own, ResetWaits
<1>3. PolledInv'
  BY DEF IInv, PolledInv, ResetWaits
<1>4. ASSUME ~resetLost'
      PROVE  Kept'
  <2>1. Kept
    BY <1>4 DEF IInv, ResetWaits
  <2>2. CommandInv' /\ FillInv' /\ FifoInv' /\ DmaInv'
    BY <1>4, <2>1 DEF Kept, CommandInv, FillInv, FifoInv, DmaInv, Own, Want, Held, Inside,
       ResetWaits
  <2>3. PollInv'
    BY <1>4, <2>1 DEF Kept, PollInv, ResetWaits
  <2>4. RestInv'
    BY <1>4, <2>1 DEF Kept, RestInv, Own, Held, Inside, NoDma, StaleInDma, Settled,
       ResetInv, StopInv, Awaited, ResetWaits
  <2>5. StopInv'
    BY <1>4, <2>1 DEF Kept, StopInv, Held, Inside, NoDma, StaleInDma, ResetWaits
  <2>6. ResetInv'
    BY <1>4, <2>1 DEF Kept, ResetInv, NoDma, Awaited, ResetDone, StaleInDma, ResetWaits
  <2> QED
    BY <2>2, <2>3, <2>4, <2>5, <2>6 DEF Kept
<1> QED  BY <1>1, <1>2, <1>3, <1>4 DEF IInv

-----------------------------------------------------------------------------
(* geni_spi_isr.                                                           *)

LEMMA StepIsrEnters ==
  ASSUME IInv, IsrEnters
  PROVE  IInv'
<1>1. TypeInv'
  BY DEF IInv, TypeInv, Places, Flags, Words, Registers, IsrEnters
<1>2. HandlerInv' /\ OwnerInv'
  BY DEF IInv, HandlerInv, Inside, OwnerInv, Own, IsrEnters
<1>3. PolledInv'
  BY DEF IInv, PolledInv, IsrEnters
<1>4. ASSUME ~resetLost'
      PROVE  Kept'
  <2>1. Kept
    BY <1>4 DEF IInv, IsrEnters
  <2>2. CommandInv' /\ FillInv' /\ FifoInv' /\ DmaInv' /\ PollInv'
    BY <2>1 DEF Kept, CommandInv, FillInv, FifoInv, DmaInv, PollInv, Own, Want, Held,
       Inside, IsrEnters
  <2>3. RestInv'
    BY <2>1 DEF IInv, TypeInv, Registers, Kept, RestInv, CommandInv, Own, Held, Inside,
       NoDma, StaleInDma, Settled, IsrEnters, Enabled
  <2>4. StopInv'
    BY <2>1 DEF Kept, StopInv, CommandInv, Held, Inside, NoDma, StaleInDma, RestInv,
       Settled, Own, IsrEnters, Enabled
  <2>5. ResetInv'
    BY <2>1 DEF Kept, ResetInv, CommandInv, NoDma, Awaited, ResetDone, StaleInDma, StopInv,
       RestInv, Settled, Held, Inside, Own, IsrEnters, Enabled
  <2> QED
    BY <2>2, <2>3, <2>4, <2>5 DEF Kept
<1> QED  BY <1>1, <1>2, <1>3, <1>4 DEF IInv

(* The bits a handler finalizes a FIFO transfer by are those of its own    *)
(* command.                                                                *)
LEMMA IsrFifoKeepsCommand ==
  ASSUME IInv, IsrFifo, Kept
  PROVE  CommandInv'
<1>1. ipc = "entered" /\ mode = "fifo" /\ ~Inside
  BY DEF IsrFifo, Inside
<1>2. CASE ~Own
  BY <1>1, <1>2 DEF IsrFifo, Own, IInv, HandlerInv, OwnerInv, Kept, CommandInv, TypeInv,
     Words, Flags, Places, Want
<1>3. CASE Own /\ pc \in Running
  <2>1. ASSUME "done" \in seen.m
        PROVE  fifo' = Nil /\ ~watermark' /\ ended'
    <3>1. /\ fifo["tx"] = 0 /\ rem["tx"] = 0 /\ rem["rx"] = fifo["rx"] /\ ended
          /\ fifo["rx"] > 0 => RxSeen
      BY <1>1, <1>3, <2>1 DEF IInv, TypeInv, Words, Kept, FifoInv, RxSeen
    <3>2. Moves["tx"] = 0 /\ Moves["rx"] = fifo["rx"]
      BY <3>1, MovesBounds DEF IInv, TypeInv, Words
    <3>3. /\ fifo' = [tx |-> fifo["tx"] + Moves["tx"], rx |-> fifo["rx"] - Moves["rx"]]
          /\ ~watermark' /\ ended' = ended
      BY <1>3, <2>1 DEF IsrFifo, Own
    <3> QED
      BY <3>1, <3>2, <3>3 DEF IInv, TypeInv, Words
  <2>2. ASSUME "done" \notin seen.m
        PROVE  Own' /\ finalized' = finalized
    BY <1>1, <1>3, <2>2 DEF IsrFifo, Own, IInv, TypeInv, Flags
  <2> QED
    BY <1>1, <1>3, <2>1, <2>2 DEF IsrFifo, IInv, OwnerInv, Kept, CommandInv, FifoInv
<1>4. CASE Own /\ pc \notin Running
  <2>1. "tx" \notin seen.m /\ "done" \notin seen.m /\ fifo = Nil
    BY <1>1, <1>4 DEF IInv, OwnerInv, Kept, RestInv, CommandInv, FillInv
  <2>2. Moves["tx"] = 0 /\ Moves["rx"] = 0
    BY <2>1, MovesBounds DEF IInv
  <2> QED
    BY <1>1, <1>4, <2>1, <2>2 DEF IsrFifo, Own, IInv, HandlerInv, OwnerInv, Kept,
       CommandInv, TypeInv, Words, Flags, Want
<1> QED  BY <1>2, <1>3, <1>4

LEMMA IsrFifoKeepsRest ==
  ASSUME IInv, IsrFifo, Kept
  PROVE  RestInv'
<1>1. /\ ipc = "entered" /\ ipc' = "locked" /\ ~Inside /\ pc' = pc
      /\ mode = "fifo" /\ mode' = "fifo" /\ m_irq' = m_irq /\ seen' = seen
      /\ dma_irq' = dma_irq /\ abort_failed' = abort_failed /\ Held' = seen.m
  BY DEF IsrFifo, Inside, Held
<1>2. CASE ~Own
  <2>1. ~Own' /\ rem' = rem /\ finalized' = finalized
    BY <1>1, <1>2 DEF IsrFifo, Own
  <2> QED
    BY <1>1, <1>2, <2>1 DEF Kept, RestInv, NoDma, StaleInDma, Settled, Held, FillInv
<1>3. CASE Own /\ pc \in Running
  <2>1. ASSUME "done" \in seen.m
        PROVE  rem' = Nil /\ m_irq \subseteq seen.m \cup {"rx"}
    <3>1. /\ rem["tx"] = 0 /\ rem["rx"] = fifo["rx"] /\ (fifo["rx"] > 0 => RxSeen)
          /\ m_irq \subseteq seen.m \cup {"rx"}
      BY <1>1, <1>3, <2>1 DEF IInv, TypeInv, Words, Kept, FifoInv, RxSeen
    <3>2. Moves["tx"] = 0 /\ Moves["rx"] = rem["rx"]
      BY <3>1, MovesBounds DEF IInv, TypeInv, Words
    <3>3. rem' = [d \in Directions |-> rem[d] - Moves[d]]
      BY <1>3 DEF IsrFifo, Own
    <3> QED
      BY <3>1, <3>2, <3>3 DEF IInv, TypeInv, Words
  <2>2. ASSUME "done" \notin seen.m
        PROVE  Own'
    BY <1>1, <1>3, <2>2 DEF IsrFifo, Own, IInv, TypeInv, Flags
  <2> QED
    BY <1>1, <1>3, <2>1, <2>2 DEF Kept, RestInv, NoDma, StaleInDma, Settled
<1>4. CASE Own /\ pc \notin Running
  <2>1. "tx" \notin seen.m /\ "done" \notin seen.m /\ fifo = Nil
    BY <1>1, <1>4 DEF IInv, OwnerInv, Kept, RestInv, CommandInv, FillInv
  <2>2. Own' 
    BY <1>1, <1>4, <2>1 DEF IsrFifo, Own
  <2> QED
    BY <1>1, <1>4, <2>1, <2>2 DEF Kept, RestInv, NoDma, StaleInDma, Settled, IInv, OwnerInv,
       FillInv
<1> QED  BY <1>2, <1>3, <1>4

LEMMA StepIsrFifo ==
  ASSUME IInv, IsrFifo
  PROVE  IInv'
<1>1. TypeInv'
  <2>1. Places'
    BY DEF IInv, TypeInv, Places, IsrFifo
  <2>2. Flags'
    <3>1. finalized' \in BOOLEAN
      BY DEF IInv, TypeInv, Flags, IsrFifo
    <3>2. watermark' \in BOOLEAN
      BY DEF IInv, TypeInv, Flags, IsrFifo
    <3>3. ends' \in BOOLEAN
      <4>1. CASE cur_xfer = 0
        BY <4>1 DEF IsrFifo
      <4>2. CASE cur_xfer # 0
        BY <4>2 DEF IsrFifo
      <4> QED  BY <4>1, <4>2
    <3> QED
      BY <3>1, <3>2, <3>3 DEF IInv, TypeInv, Flags, IsrFifo
  <2>3. Words'
    BY MovesBounds DEF IInv, TypeInv, Words, IsrFifo
  <2>4. Registers'
    BY DEF IInv, TypeInv, Registers, Bits, DmaBits, IsrFifo
  <2> QED  BY <2>1, <2>2, <2>3, <2>4 DEF TypeInv
<1>2. HandlerInv' /\ OwnerInv'
  BY DEF IInv, HandlerInv, Inside, OwnerInv, Own, IsrFifo
<1>3. PolledInv'
  BY DEF IInv, PolledInv, IsrFifo
<1>4. ASSUME ~resetLost'
      PROVE  Kept'
  <2>1. Kept
    BY <1>4 DEF IInv, IsrFifo
  <2>2. CommandInv'
    BY <2>1, IsrFifoKeepsCommand
  <2>3. FillInv'
    BY <2>1, TransferAssumption DEF IInv, TypeInv, Places, Flags, Words, Registers,
       HandlerInv, Inside, OwnerInv, Own, Kept, FillInv, CommandInv, Held, Want, IsrFifo,
       Moves, TxWords, TxLater, TxWm, Least, RxWords, RxSeen
  <2>4. FifoInv'
    BY <2>1, TransferAssumption DEF IInv, TypeInv, Places, Flags, Words, Registers,
       HandlerInv, Inside, OwnerInv, Own, Kept, FifoInv, CommandInv, Held, FillInv, Want,
       IsrFifo, Moves, TxWords, TxLater, TxWm, Least, RxWords, RxSeen
  <2>5. DmaInv' /\ StopInv' /\ ResetInv'
    BY <2>1 DEF Kept, DmaInv, StopInv, ResetInv, Own, Held, Inside, NoDma, StaleInDma,
       Awaited, ResetDone, IsrFifo
  <2>6. PollInv'
    BY <2>1 DEF IInv, HandlerInv, Inside, Kept, PollInv, IsrFifo
  <2>7. RestInv'
    BY <2>1, IsrFifoKeepsRest
  <2> QED
    BY <2>2, <2>3, <2>4, <2>5, <2>6, <2>7 DEF Kept
<1> QED  BY <1>1, <1>2, <1>3, <1>4 DEF IInv

(* A DMA transfer is finalized when both engines have said that they are   *)
(* done.                                                                   *)
LEMMA IsrDmaKeeps ==
  ASSUME IInv, IsrDma, Kept
  PROVE  CommandInv' /\ RestInv'
<1>1. /\ ipc = "entered" /\ ipc' = "locked" /\ ~Inside /\ pc' = pc
      /\ mode = "dma" /\ mode' = "dma" /\ m_irq' = m_irq /\ seen' = seen
      /\ ended' = ended /\ cmd' = cmd /\ fifo' = fifo /\ watermark' = watermark
      /\ abort_failed' = abort_failed /\ Held' = seen.m /\ pc \notin {"poll", "poll_seen"}
      /\ dma_irq' = [d \in Directions |-> dma_irq[d] \ seen.dma[d]]
      /\ xfer' = xfer /\ polled' = polled
  BY DEF IsrDma, Inside, Held, IInv, PolledInv
<1>2. CASE ~Own
  <2>1. ~Own' /\ finalized' = finalized
    BY <1>1, <1>2 DEF IsrDma, Own, IInv, TypeInv, Flags
  <2>2. pc \notin {"start"} \cup Preparing
    BY <1>1, <1>2 DEF IInv, OwnerInv, Kept, CommandInv, RestInv
  <2>3. CommandInv'
    BY <1>1, <1>2, <2>1, <2>2 DEF Kept, CommandInv
  <2>4. \A d \in Directions : NoDma(d) => NoDma(d)'
    BY <1>1 DEF NoDma
  <2>5. RestInv'
    BY <1>1, <1>2, <2>1, <2>2, <2>4 DEF Kept, RestInv, StaleInDma, Settled, Held
  <2> QED  BY <2>3, <2>5
<1>3. CASE Own /\ pc \in Running
  <2>1. ASSUME ends' 
        PROVE  engine = {} /\ dma_irq' = None
    BY <1>1, <1>3, <2>1 DEF IsrDma, AllMoved, Own, IInv, TypeInv, Words, Registers, Flags,
       Kept, DmaInv
  <2>2. ASSUME ~ends'
        PROVE  Own' /\ finalized' = finalized
    BY <1>1, <1>3, <2>2 DEF IsrDma, Own, IInv, TypeInv, Flags
  <2>3. CommandInv'
    BY <1>1, <1>3, <2>1, <2>2 DEF Kept, CommandInv, DmaInv, IInv, OwnerInv
  <2>4. RestInv'
    BY <1>1, <1>3, <2>1, <2>2 DEF Kept, RestInv, NoDma, StaleInDma, Settled
  <2> QED  BY <2>3, <2>4
<1>4. CASE Own /\ pc \notin Running
  <2>1. pc = "start" /\ seen.dma = None
    BY <1>1, <1>4 DEF IInv, OwnerInv, Kept, RestInv, NoDma, TypeInv, Registers
  <2>2. rem' = rem /\ dma_irq' = dma_irq
    BY <1>1, <2>1 DEF IsrDma, IInv, TypeInv, Words, Registers
  <2>3. rem # Nil
    BY <2>1, TransferAssumption DEF Kept, CommandInv, Want, IInv, TypeInv, Places
  <2>4. Own' /\ finalized' = finalized
    BY <1>1, <1>4, <2>2, <2>3 DEF IsrDma, AllMoved, Own, IInv, TypeInv, Flags
  <2>5. CommandInv'
    BY <1>1, <1>4, <2>1, <2>2, <2>4 DEF Kept, CommandInv, Want
  <2>6. RestInv'
    BY <1>1, <1>4, <2>1, <2>2, <2>4 DEF Kept, RestInv, NoDma, StaleInDma, Settled, FillInv
  <2> QED  BY <2>5, <2>6
<1> QED  BY <1>2, <1>3, <1>4

LEMMA StepIsrDma ==
  ASSUME IInv, IsrDma
  PROVE  IInv'
<1>1. TypeInv'
  BY DEF IInv, TypeInv, Places, Flags, Words, Registers, IsrDma
<1>2. HandlerInv' /\ OwnerInv'
  BY DEF IInv, HandlerInv, Inside, OwnerInv, Own, IsrDma
<1>3. PolledInv'
  BY DEF IInv, PolledInv, IsrDma
<1>4. ASSUME ~resetLost'
      PROVE  Kept'
  <2>1. Kept
    BY <1>4 DEF IInv, IsrDma
  <2>2. CommandInv'
    BY <2>1, IsrDmaKeeps
  <2>3. FillInv' /\ FifoInv' /\ PollInv' /\ ResetInv'
    BY <2>1 DEF Kept, FillInv, FifoInv, PollInv, ResetInv, Held, Inside, Own, NoDma,
       Awaited, ResetDone, StaleInDma, IsrDma
  <2>4. DmaInv'
    BY <2>1 DEF IInv, TypeInv, Flags, Kept, DmaInv, CommandInv, Own, RestInv, NoDma, IsrDma,
       AllMoved, ResetDone
  <2>5. RestInv'
    BY <2>1, IsrDmaKeeps
  <2>6. StopInv'
    BY <2>1 DEF Kept, StopInv, CommandInv, Held, Inside, NoDma, StaleInDma, RestInv,
       Settled, Own, IsrDma, AllMoved, ResetDone
  <2> QED
    BY <2>2, <2>3, <2>4, <2>5, <2>6 DEF Kept
<1> QED  BY <1>1, <1>2, <1>3, <1>4 DEF IInv

LEMMA StepIsrAcks ==
  ASSUME IInv, IsrAcks
  PROVE  IInv'
<1>1. TypeInv'
  BY DEF IInv, TypeInv, Places, Flags, Words, Registers, IsrAcks
<1>2. HandlerInv' /\ OwnerInv'
  BY DEF IInv, HandlerInv, Inside, OwnerInv, Own, IsrAcks
<1>3. PolledInv'
  BY DEF IInv, PolledInv, IsrAcks
<1>4. ASSUME ~resetLost'
      PROVE  Kept'
  <2>1. Kept
    BY <1>4 DEF IInv, IsrAcks
  <2> QED
    BY <2>1 DEF Kept, CommandInv, FillInv, FifoInv, DmaInv, PollInv, RestInv, StopInv,
       ResetInv, Own, Want, Held, Inside, NoDma, StaleInDma, Settled, Awaited, ResetDone,
       IsrAcks
<1> QED  BY <1>1, <1>2, <1>3, <1>4 DEF IInv

LEMMA StepIsrClears ==
  ASSUME IInv, IsrClears
  PROVE  IInv'
<1>1. TypeInv'
  <2>1. Places'
    BY DEF IInv, TypeInv, Places, IsrClears
  <2>2. Flags'
    BY DEF IInv, TypeInv, Flags, IsrClears
  <2>3. Words'
    BY DEF IInv, TypeInv, Words, IsrClears
  <2>4. Registers'
    BY DEF IInv, TypeInv, Registers, Bits, DmaBits, IsrClears
  <2> QED  BY <2>1, <2>2, <2>3, <2>4 DEF TypeInv
<1>2. HandlerInv' /\ OwnerInv'
  BY DEF IInv, HandlerInv, Inside, OwnerInv, Own, IsrClears
<1>3. PolledInv'
  BY DEF IInv, PolledInv, IsrClears
<1>4. ASSUME ~resetLost'
      PROVE  Kept'
  <2>1. Kept
    BY <1>4 DEF IInv, IsrClears
  <2> QED
    BY <2>1 DEF Kept, CommandInv, FillInv, FifoInv, DmaInv, PollInv, RestInv, StopInv,
       ResetInv, Own, Want, Held, Inside, NoDma, StaleInDma, Settled, Awaited, ResetDone,
       IsrClears
<1> QED  BY <1>1, <1>2, <1>3, <1>4 DEF IInv

-----------------------------------------------------------------------------
(* The polled transfer.                                                    *)

LEMMA StepPollStarts ==
  ASSUME IInv, PollStarts
  PROVE  IInv'
<1>1. TypeInv'
  <2>1. Places'
    BY TransferAssumption DEF IInv, TypeInv, Places, PollStarts
  <2>2. Flags'
    BY DEF IInv, TypeInv, Flags, PollStarts
  <2>3. Words'
    BY TransferAssumption DEF IInv, TypeInv, Words, PollStarts
  <2>4. Registers'
    BY DEF IInv, TypeInv, Registers, Bits, DmaBits, PollStarts
  <2> QED  BY <2>1, <2>2, <2>3, <2>4 DEF TypeInv
<1>2. HandlerInv' /\ OwnerInv'
  BY DEF IInv, HandlerInv, Inside, OwnerInv, Own, PollStarts
<1>3. PolledInv'
  BY DEF IInv, PolledInv, PollStarts
<1>4. ASSUME ~resetLost'
      PROVE  Kept'
  <2>1. Kept
    BY <1>4 DEF IInv, PollStarts
  <2>2. /\ CommandInv' /\ FillInv' /\ FifoInv' /\ DmaInv'
        /\ RestInv' /\ StopInv' /\ ResetInv'
    BY <2>1 DEF Kept, CommandInv, FillInv, FifoInv, DmaInv, RestInv, StopInv, ResetInv, Own,
       Want, Held, Inside, NoDma, StaleInDma, Settled, Awaited, ResetDone, PollStarts
  <2>3. PollInv'
    BY <2>1, TransferAssumption DEF IInv, TypeInv, Places, Flags, Words, Registers,
       HandlerInv, Inside, OwnerInv, Own, Kept, PollInv, CommandInv, Want, PollStarts
  <2> QED
    BY <2>2, <2>3 DEF Kept
<1> QED  BY <1>1, <1>2, <1>3, <1>4 DEF IInv

LEMMA StepPollSynced ==
  ASSUME IInv, PollSynced
  PROVE  IInv'
<1>1. TypeInv'
  BY DEF IInv, TypeInv, Places, Flags, Words, Registers, PollSynced
<1>2. HandlerInv' /\ OwnerInv'
  BY DEF IInv, HandlerInv, Inside, OwnerInv, Own, PollSynced
<1>3. PolledInv'
  BY DEF IInv, PolledInv, PollSynced
<1>4. ASSUME ~resetLost'
      PROVE  Kept'
  <2>1. Kept
    BY <1>4 DEF IInv, PollSynced
  <2>2. /\ CommandInv' /\ FillInv' /\ FifoInv' /\ DmaInv'
        /\ PollInv' /\ StopInv' /\ ResetInv'
    BY <2>1 DEF Kept, CommandInv, FillInv, FifoInv, DmaInv, PollInv, StopInv, ResetInv, Own,
       Want, Held, Inside, NoDma, StaleInDma, Awaited, ResetDone, PollSynced
  <2>3. RestInv'
    BY <2>1 DEF IInv, HandlerInv, Inside, Kept, RestInv, Own, Held, NoDma, StaleInDma,
       Settled, PollSynced
  <2> QED
    BY <2>2, <2>3 DEF Kept
<1> QED  BY <1>1, <1>2, <1>3, <1>4 DEF IInv

LEMMA StepPollSetupFails ==
  ASSUME IInv, PollSetupFails
  PROVE  IInv'
<1>1. TypeInv'
  BY DEF IInv, TypeInv, Places, Flags, Words, Registers, PollSetupFails
<1>2. HandlerInv' /\ OwnerInv'
  BY DEF IInv, HandlerInv, Inside, OwnerInv, Own, PollSetupFails
<1>3. PolledInv'
  BY DEF IInv, PolledInv, PollSetupFails
<1>4. ASSUME ~resetLost'
      PROVE  Kept'
  <2>1. Kept
    BY <1>4 DEF IInv, PollSetupFails
  <2> QED
    BY <2>1 DEF Kept, CommandInv, FillInv, FifoInv, DmaInv, PollInv, RestInv, StopInv,
       ResetInv, Own, Want, Held, Inside, NoDma, StaleInDma, Settled, Awaited, ResetDone,
       PollSetupFails
<1> QED  BY <1>1, <1>2, <1>3, <1>4 DEF IInv

LEMMA StepPollCommands ==
  ASSUME IInv, PollCommands
  PROVE  IInv'
<1>1. TypeInv'
  BY DEF IInv, TypeInv, Places, Flags, Words, Registers, PollCommands
<1>2. HandlerInv' /\ OwnerInv'
  BY DEF IInv, HandlerInv, Inside, OwnerInv, Own, PollCommands
<1>3. PolledInv'
  BY DEF IInv, PolledInv, HandlerInv, Inside, PollCommands
<1>4. ASSUME ~resetLost'
      PROVE  Kept'
  <2>1. Kept
    BY <1>4 DEF IInv, PollCommands
  <2>2. CommandInv' /\ FifoInv' /\ DmaInv' /\ StopInv' /\ ResetInv'
    BY <2>1 DEF Kept, CommandInv, FifoInv, DmaInv, StopInv, ResetInv, Own, Want, Held,
       Inside, NoDma, StaleInDma, Awaited, ResetDone, PollCommands
  <2>3. FillInv'
    BY <2>1 DEF IInv, TypeInv, Flags, Registers, HandlerInv, Inside, OwnerInv, Own, Kept,
       FillInv, CommandInv, Held, PollCommands
  <2>4. PollInv'
    BY <2>1 DEF IInv, TypeInv, Words, Flags, OwnerInv, Own, Kept, PollInv, CommandInv,
       PollCommands
  <2>5. RestInv'
    BY <2>1 DEF IInv, HandlerInv, Inside, Kept, RestInv, Own, Held, NoDma, StaleInDma,
       Settled, PollCommands
  <2> QED
    BY <2>2, <2>3, <2>4, <2>5 DEF Kept
<1> QED  BY <1>1, <1>2, <1>3, <1>4 DEF IInv

LEMMA StepPollSees ==
  ASSUME IInv, PollSees
  PROVE  IInv'
<1>1. TypeInv'
  BY DEF IInv, TypeInv, Places, Flags, Words, Registers, PollSees
<1>2. HandlerInv' /\ OwnerInv'
  BY DEF IInv, HandlerInv, Inside, OwnerInv, Own, PollSees
<1>3. PolledInv'
  BY DEF IInv, PolledInv, PollSees
<1>4. ASSUME ~resetLost'
      PROVE  Kept'
  <2>1. Kept
    BY <1>4 DEF IInv, PollSees
  <2> QED
    BY <2>1 DEF Kept, CommandInv, FillInv, FifoInv, DmaInv, PollInv, RestInv, StopInv,
       ResetInv, Own, Want, Held, Inside, NoDma, StaleInDma, Settled, Awaited, ResetDone,
       PollSees
<1> QED  BY <1>1, <1>2, <1>3, <1>4 DEF IInv

(* The end of a polled command finds everything moved but what is in the   *)
(* RX FIFO.                                                                *)
LEMMA PollActsKeeps ==
  ASSUME IInv, PollActs, Kept
  PROVE  CommandInv' /\ PollInv'
<1>1. /\ pc = "poll_seen"
      /\ unmoved' = [tx |-> unmoved["tx"] - Written, rx |-> unmoved["rx"] - Read]
      /\ fifo' = [tx |-> fifo["tx"] + Written, rx |-> fifo["rx"] - Read]
      /\ pc' = IF "done" \in seen.m THEN "restore" ELSE "poll"
      /\ cmd' = cmd /\ left' = left /\ finalized' = finalized /\ ended' = ended /\ ~Own
      /\ abort_failed' = abort_failed /\ cur_xfer' = cur_xfer /\ ipc' = ipc /\ ends' = ends
  BY DEF PollActs, IInv, OwnerInv
<1>2. ASSUME "done" \in seen.m
      PROVE  fifo' = Nil /\ unmoved' = Nil /\ ~watermark' /\ ~cmd /\ ended
  <2>1. ~cmd /\ ended /\ left = Nil
    BY <1>1, <1>2 DEF IInv, PolledInv, Kept, PollInv
  <2>2. fifo["tx"] = 0 /\ unmoved["tx"] = 0 /\ unmoved["rx"] = fifo["rx"]
    BY <1>1, <2>1 DEF IInv, TypeInv, Words, Kept, PollInv
  <2>3. Written = 0 /\ Read = fifo["rx"]
    BY <1>2, <2>2, WrittenBounds DEF IInv, TypeInv, Words
  <2>4. ~watermark'
    BY <1>2 DEF PollActs
  <2> QED
    BY <1>1, <2>1, <2>2, <2>3, <2>4 DEF IInv, TypeInv, Words
<1>3. CommandInv'
  BY <1>1, <1>2 DEF Kept, CommandInv, Own, PollActs
<1>4. PollInv'
  <2>1. ASSUME "done" \notin seen.m
        PROVE  watermark' <=> unmoved'["tx"] > 0
    <3>1. unmoved["tx"] \in Nat /\ unmoved'["tx"] \in Nat /\ unmoved'["tx"] <= unmoved["tx"]
      BY <1>1, WrittenBounds DEF IInv, TypeInv, Words
    <3>2. watermark <=> unmoved["tx"] > 0
      BY <1>1 DEF Kept, PollInv
    <3>3. watermark' <=> watermark /\ unmoved'["tx"] > 0
      BY <2>1 DEF PollActs
    <3> QED
      BY <3>1, <3>2, <3>3
  <2>2. /\ left'["tx"] = fifo'["tx"] + unmoved'["tx"]
        /\ unmoved'["rx"] = left'["rx"] + fifo'["rx"]
        /\ cmd' \/ left' = Nil
    BY <1>1, WrittenBounds DEF IInv, TypeInv, Words, Kept, PollInv
  <2>3. polled' # "short"
    BY <1>2 DEF PollActs, Kept, PollInv
  <2> QED
    BY <1>1, <2>1, <2>2, <2>3 DEF PollInv
<1> QED  BY <1>3, <1>4

LEMMA StepPollActs ==
  ASSUME IInv, PollActs
  PROVE  IInv'
<1>1. TypeInv'
  <2>1. Places'
    BY DEF IInv, TypeInv, Places, PollActs
  <2>2. Flags'
    BY DEF IInv, TypeInv, Flags, PollActs
  <2>3. Words'
    BY WrittenBounds DEF IInv, TypeInv, Words, PollActs
  <2>4. Registers'
    BY DEF IInv, TypeInv, Registers, Bits, DmaBits, PollActs
  <2> QED  BY <2>1, <2>2, <2>3, <2>4 DEF TypeInv
<1>2. HandlerInv' /\ OwnerInv'
  BY DEF IInv, HandlerInv, Inside, OwnerInv, Own, PollActs
<1>3. PolledInv'
  BY DEF IInv, PolledInv, PollActs
<1>4. ASSUME ~resetLost'
      PROVE  Kept'
  <2>1. Kept
    BY <1>4 DEF IInv, PollActs
  <2>2. CommandInv'
    BY <2>1, PollActsKeeps
  <2>3. FillInv'
    BY <2>1, TransferAssumption DEF IInv, TypeInv, Places, Flags, Words, Registers,
       HandlerInv, Inside, OwnerInv, Own, Kept, FillInv, CommandInv, Held, Want, PollActs,
       Written, Read, Least
  <2>4. FifoInv' /\ DmaInv' /\ StopInv' /\ ResetInv'
    BY <2>1 DEF Kept, FifoInv, DmaInv, StopInv, ResetInv, Own, Held, Inside, NoDma,
       StaleInDma, Awaited, ResetDone, PollActs
  <2>5. PollInv'
    BY <2>1, PollActsKeeps
  <2>6. RestInv'
    BY <2>1 DEF IInv, HandlerInv, Inside, Kept, RestInv, Own, Held, NoDma, StaleInDma,
       Settled, PollActs
  <2> QED
    BY <2>2, <2>3, <2>4, <2>5, <2>6 DEF Kept
<1> QED  BY <1>1, <1>2, <1>3, <1>4 DEF IInv

LEMMA StepPollFails ==
  ASSUME IInv, PollFails
  PROVE  IInv'
<1>1. TypeInv'
  <2>1. Places'
    BY DEF IInv, TypeInv, Places, PollFails
  <2>2. Flags'
    BY DEF IInv, TypeInv, Flags, PollFails
  <2>3. Words'
    BY DEF IInv, TypeInv, Words, PollFails
  <2>4. Registers'
    BY DEF IInv, TypeInv, Registers, Bits, DmaBits, PollFails
  <2> QED  BY <2>1, <2>2, <2>3, <2>4 DEF TypeInv
<1>2. HandlerInv' /\ OwnerInv'
  BY DEF IInv, HandlerInv, Inside, OwnerInv, Own, PollFails
<1>3. PolledInv'
  BY DEF IInv, PolledInv, PollFails
<1>4. ASSUME ~resetLost'
      PROVE  Kept'
  <2>1. Kept
    BY <1>4 DEF IInv, PollFails
  <2>2. CommandInv' /\ FifoInv' /\ DmaInv' /\ PollInv' /\ StopInv' /\ ResetInv'
    BY <2>1 DEF Kept, CommandInv, FifoInv, DmaInv, PollInv, StopInv, ResetInv, Own, Want,
       Held, Inside, NoDma, StaleInDma, Awaited, ResetDone, PollFails
  <2>3. FillInv'
    BY <2>1, TransferAssumption DEF IInv, TypeInv, Places, Flags, Words, Registers,
       HandlerInv, Inside, OwnerInv, Own, Kept, FillInv, CommandInv, Held, Want, PollFails
  <2>4. RestInv'
    BY <2>1 DEF IInv, HandlerInv, Inside, Kept, RestInv, Own, Held, NoDma, StaleInDma,
       Settled, PollFails
  <2> QED
    BY <2>2, <2>3, <2>4 DEF Kept
<1> QED  BY <1>1, <1>2, <1>3, <1>4 DEF IInv

LEMMA StepPollTimesOut ==
  ASSUME IInv, PollTimesOut
  PROVE  IInv'
<1>1. TypeInv'
  <2>1. Places'
    BY DEF IInv, TypeInv, Places, PollTimesOut
  <2>2. Flags'
    BY DEF IInv, TypeInv, Flags, PollTimesOut, Stopped
  <2>3. Words'
    BY DEF IInv, TypeInv, Words, PollTimesOut, Stopped
  <2>4. Registers'
    BY DEF IInv, TypeInv, Registers, Bits, DmaBits, PollTimesOut, Stopped
  <2> QED  BY <2>1, <2>2, <2>3, <2>4 DEF TypeInv
<1>2. HandlerInv' /\ OwnerInv'
  BY DEF IInv, HandlerInv, Inside, OwnerInv, Own, PollTimesOut
<1>3. PolledInv'
  BY DEF IInv, PolledInv, PollTimesOut
<1>4. ASSUME ~resetLost'
      PROVE  Kept'
  <2>1. Kept
    BY <1>4 DEF IInv, PollTimesOut
  <2>2. CommandInv'
    BY <2>1 DEF Kept, CommandInv, Own, Want, PollTimesOut, Stopped
  <2>3. FillInv'
    BY <2>1, TransferAssumption DEF IInv, TypeInv, Places, Flags, Words, Registers,
       HandlerInv, Inside, OwnerInv, Own, Kept, FillInv, CommandInv, Held, Want, PollTimesOut,
       Stopped
  <2>4. FifoInv' /\ DmaInv' /\ PollInv' /\ StopInv' /\ ResetInv'
    BY <2>1 DEF Kept, FifoInv, DmaInv, PollInv, StopInv, ResetInv, Own, Held, Inside, NoDma,
       StaleInDma, Awaited, ResetDone, PollTimesOut
  <2>5. RestInv'
    BY <2>1 DEF IInv, HandlerInv, Inside, Kept, RestInv, Own, Held, NoDma, StaleInDma,
       Settled, PollTimesOut
  <2> QED
    BY <2>2, <2>3, <2>4, <2>5 DEF Kept
<1> QED  BY <1>1, <1>2, <1>3, <1>4 DEF IInv

LEMMA StepPollRestores ==
  ASSUME IInv, PollRestores
  PROVE  IInv'
<1>1. TypeInv'
  <2>1. Places'
    BY DEF IInv, TypeInv, Places, PollRestores
  <2>2. Flags'
    BY DEF IInv, TypeInv, Flags, PollRestores
  <2>3. Words'
    BY DEF IInv, TypeInv, Words, PollRestores
  <2>4. Registers'
    BY DEF IInv, TypeInv, Registers, Bits, DmaBits, PollRestores
  <2> QED  BY <2>1, <2>2, <2>3, <2>4 DEF TypeInv
<1>2. HandlerInv' /\ OwnerInv'
  BY DEF IInv, HandlerInv, Inside, OwnerInv, Own, PollRestores
<1>3. PolledInv'
  BY DEF IInv, PolledInv, PollRestores
<1>4. ASSUME ~resetLost'
      PROVE  Kept'
  <2>1. Kept
    BY <1>4 DEF IInv, PollRestores
  <2>2. CommandInv' /\ FifoInv' /\ DmaInv' /\ PollInv' /\ StopInv' /\ ResetInv'
    BY <2>1 DEF Kept, CommandInv, FifoInv, DmaInv, PollInv, StopInv, ResetInv, Own, Want,
       Held, Inside, NoDma, StaleInDma, Awaited, ResetDone, PollRestores
  <2>3. FillInv'
    BY <2>1 DEF IInv, HandlerInv, Inside, Kept, FillInv, Held, PollRestores
  <2>4. RestInv'
    BY <2>1 DEF IInv, HandlerInv, Inside, Kept, RestInv, Own, Held, NoDma, StaleInDma,
       Settled, PollRestores
  <2> QED
    BY <2>2, <2>3, <2>4 DEF Kept
<1> QED  BY <1>1, <1>2, <1>3, <1>4 DEF IInv

-----------------------------------------------------------------------------
LEMMA InitHolds == Init => IInv
<1> SUFFICES ASSUME Init PROVE IInv
  OBVIOUS
<1> USE DEF Init
<1>1. TypeInv
  <2>1. Places
    BY TransferAssumption DEF Places
  <2>2. Flags
    BY DEF Flags
  <2>3. Words
    BY TransferAssumption DEF Words, TxWm
  <2>4. Registers
    BY DEF Registers, Bits, DmaBits
  <2> QED  BY <2>1, <2>2, <2>3, <2>4 DEF TypeInv
<1>2. HandlerInv /\ OwnerInv /\ PolledInv
  BY DEF HandlerInv, Inside, OwnerInv, Own, PolledInv
<1>3. CommandInv /\ FillInv /\ FifoInv /\ DmaInv /\ PollInv
  BY TransferAssumption DEF CommandInv, FillInv, FifoInv, DmaInv, PollInv, Own, Held, Inside,
     TxWm
<1>4. RestInv /\ StopInv /\ ResetInv
  BY DEF RestInv, StopInv, ResetInv, NoDma, StaleInDma, Settled, Own, Held, Inside
<1> QED  BY <1>1, <1>2, <1>3, <1>4 DEF IInv, Kept

LEMMA StutterStep ==
  ASSUME IInv, UNCHANGED vars
  PROVE  IInv'
<1> USE DEF vars
<1>1. TypeInv'
  BY DEF IInv, TypeInv, Places, Flags, Words, Registers
<1>2. HandlerInv' /\ OwnerInv' /\ PolledInv'
  BY DEF IInv, HandlerInv, Inside, OwnerInv, Own, PolledInv
<1>3. ASSUME ~resetLost' PROVE Kept'
  <2>1. Kept
    BY <1>3 DEF IInv
  <2>2. CommandInv' /\ FillInv' /\ FifoInv' /\ DmaInv' /\ PollInv'
    BY <2>1 DEF Kept, CommandInv, FillInv, FifoInv, DmaInv, PollInv, Own, Want, Held, Inside
  <2>3. RestInv' /\ StopInv' /\ ResetInv'
    BY <2>1 DEF Kept, RestInv, StopInv, ResetInv, NoDma, StaleInDma, Settled, Awaited, Own,
       Held, Inside
  <2> QED  BY <2>2, <2>3 DEF Kept
<1> QED  BY <1>1, <1>2, <1>3 DEF IInv

LEMMA NextStep ==
  ASSUME IInv, [Next]_vars
  PROVE  IInv'
<1>1. CASE Se
  BY <1>1, StepSeSends, StepSeReceives, StepSeWatermark, StepSeDone, StepSeDmaDone DEF Se
<1>2. CASE Isr
  BY <1>2, StepIsrEnters, StepIsrFifo, StepIsrDma, StepIsrAcks, StepIsrClears
     DEF Isr, IsrRuns
<1>3. CASE Transfer
  BY <1>3, StepTransfer
<1>4. CASE Setup
  BY <1>4, StepSetupOwns, StepSetupFails, StepCountsTx, StepCountsRx, StepSetupMode,
     StepSetupStarts DEF Setup
<1>5. CASE Waits
  BY <1>5, StepWaits
<1>6. CASE HandleErr
  BY <1>6, StepCancels, StepAborts, StepStops, StepResetsTx, StepResetsRx, StepWaitsTx,
     StepWaitsRx DEF HandleErr
<1>7. CASE PollStarts
  BY <1>7, StepPollStarts
<1>8. CASE Polled
  BY <1>8, StepPollSynced, StepPollSetupFails, StepPollCommands, StepPollSees, StepPollActs,
     StepPollFails, StepPollTimesOut, StepPollRestores DEF Polled
<1>9. CASE UNCHANGED vars
  BY <1>9, StutterStep
<1> QED
  BY <1>1, <1>2, <1>3, <1>4, <1>5, <1>6, <1>7, <1>8, <1>9 DEF Next, Pump

(* What the proofs below rest on; its parts are explained with their       *)
(* definitions.                                                            *)
THEOREM Invariant == Spec => []IInv
<1>1. Spec => Init /\ [][Next]_vars
  BY PTL DEF Spec
<1> QED
  BY <1>1, InitHolds, NextStep, PTL

(* TypeOK: as long as no DMA reset has timed out, neither the pump nor the *)
(* handler ever writes a word into a FIFO that is full, although neither   *)
(* looks at how full it is.                                                *)
THEOREM FifosHold == Spec => []TypeOK
<1>1. IInv => TypeOK
  BY DEF IInv, TypeInv, Places, Words, Registers, Bits, HandlerInv, Inside, Kept, FillInv,
     TypeOK
<1> QED
  BY <1>1, Invariant, PTL

(* OwnCompletion: a transfer is finalized by the end of its own command,   *)
(* in FIFO mode with all its words moved; a polled transfer succeeds only  *)
(* by the end of its own command, which finds nothing unmoved.             *)
THEOREM CompletedByItsOwnEnd == Spec => []OwnCompletion
<1>1. IInv => OwnCompletion
  BY DEF IInv, OwnerInv, PolledInv, Kept, CommandInv, PollInv, RestInv, OwnCompletion
<1> QED
  BY <1>1, Invariant, PTL

(* StaysInHand: without exception, a transfer that has been started and    *)
(* not finalized is the one the handler will finalize.                     *)
THEOREM TransfersStayInHand == Spec => []StaysInHand
<1>1. IInv => StaysInHand
  BY DEF IInv, OwnerInv, Own, StaysInHand
<1> QED
  BY <1>1, Invariant, PTL
=============================================================================

--------------------------- MODULE GpiQspi_proofs ---------------------------
(***************************************************************************)
(* GpiQspi for any number of calls, any length of the event ring and of    *)
(* the transfer rings.  First its types, and that a deferred TX completion *)
(* always has a wakeup; then, while the hardware reports no error behind a *)
(* deferral, that its descriptor is neither freed nor forgotten.  Then,    *)
(* with errors, all the rest: events and callbacks stay with their call    *)
(* and the rings in order, as long as no event is a lap of the ring late.  *)
(* The tasklet may run at any point of gpi_terminate_all; what the second  *)
(* and third part say ends when it defers a TX behind the clearing of the  *)
(* slot, which "strayed" remembers.                                        *)
(***************************************************************************)
EXTENDS GpiQspi, SequenceTheorems, TLAPS

USE DEF client, rings, deferral, tasklet, hardware

-----------------------------------------------------------------------------
(* Rings, lists of descriptors and the event ring.                         *)

Descriptor == [of : Call, db : Slots]
Given == [of : Call, db : Slots, tre : 0 .. 2]

LEMMA SlotsClosed ==
  /\ \A p \in Slots : Succ(p) \in Slots /\ Pred(p) \in Slots
  /\ \A x \in Int : x % RingSize \in Slots
  /\ 0 \in Slots
BY RingAssumption DEF Slots, Succ, Pred

LEMMA UnlinkedType ==
  ASSUME NEW S, NEW list \in Seq(S), NEW of
  PROVE  Unlinked(list, of) \in Seq(S)
<1>1. CASE of \in Listed(list)
  <2> DEFINE k == CHOOSE i \in DOMAIN list : list[i].of = of
  <2>1. k \in 1 .. Len(list)
    BY <1>1 DEF Listed
  <2> HIDE DEF k
  <2>2. SubSeq(list, 1, k - 1) \in Seq(S) /\ SubSeq(list, k + 1, Len(list)) \in Seq(S)
    <3>1. \A i \in 1 .. k - 1 : i \in 1 .. Len(list)
      BY <2>1
    <3>2. \A i \in k + 1 .. Len(list) : i \in 1 .. Len(list)
      BY <2>1
    <3> QED
      BY <2>1, <3>1, <3>2, SubSeqProperties
  <2> QED
    BY <1>1, <2>2 DEF Unlinked, k
<1>2. CASE of \notin Listed(list)
  BY <1>2 DEF Unlinked
<1> QED
  BY <1>1, <1>2

LEMMA ListedKeeps ==
  ASSUME NEW list \in Seq(Descriptor)
  PROVE  /\ \A d \in Descriptor : Listed(list) \subseteq Listed(Append(list, d))
         /\ list # << >> => /\ Head(list) \in Descriptor
                           /\ Head(list).of \in Listed(list)
<1>1. ASSUME NEW d \in Descriptor
      PROVE  Listed(list) \subseteq Listed(Append(list, d))
  BY DEF Listed
<1>2. list # << >> => Head(list) = list[1] /\ 1 \in DOMAIN list
  OBVIOUS
<1>3. list # << >> => Head(list) \in Descriptor
  OBVIOUS
<1> QED
  BY <1>1, <1>2, <1>3 DEF Listed

(* gpi_mark_stale_events rewrites events in place.                         *)
LEMMA MarkStaleKeeps ==
  ASSUME evq \in Seq(Events), NEW ch \in Chan
  PROVE  /\ MarkStale(ch) \in Seq(Events) /\ Len(MarkStale(ch)) = Len(evq)
         /\ DOMAIN MarkStale(ch) = DOMAIN evq
         /\ \A i \in DOMAIN evq : MarkStale(ch)[i].code = evq[i].code
<1>1. DOMAIN evq = 1 .. Len(evq) /\ Len(evq) \in Nat
  OBVIOUS
<1>2. ASSUME NEW i \in DOMAIN evq
      PROVE  MarkStale(ch)[i] \in Events /\ MarkStale(ch)[i].code = evq[i].code
  <2>1. evq[i] \in Events
    BY <1>1
  <2>2. /\ [evq[i] EXCEPT !.type = "stale"] \in Events
        /\ [evq[i] EXCEPT !.type = "stale"].code = evq[i].code
    BY <2>1 DEF Events
  <2> QED
    BY <2>1, <2>2 DEF MarkStale
<1>3. MarkStale(ch) \in [1 .. Len(evq) -> Events]
  BY <1>1, <1>2 DEF MarkStale
<1>4. MarkStale(ch) \in Seq(Events)
  BY <1>1, <1>3, SeqDef
<1> QED
  BY <1>1, <1>2, <1>3, <1>4

-----------------------------------------------------------------------------
(* Types, by owner.  The event ring is no longer than its bound, and the   *)
(* tasklet has not counted more events than there are.                     *)

ClientType ==
  /\ pcC \in {"idle", "issue_rx", "issue_tx", "wait_rx", "wait_tx", "status",
              "clear", "stop", "reset", "start"}
  /\ n \in 0 .. MaxTransfers /\ kind \in {"pair", "write"}
  /\ outcome \in [Chan -> {"none", "ok", "bad"}]
  /\ round \in 1 .. 2 /\ ti \in Chan

RingType ==
  /\ chan \in [Chan -> {"active", "prepare"}]
  /\ rp \in [Chan -> Slots] /\ wp \in [Chan -> Slots]
  /\ issued \in [Chan -> Seq(Descriptor)]

DeferralType ==
  /\ slot \in [of : 0 .. MaxTransfers, ok : BOOLEAN]
  /\ grace \in BOOLEAN /\ armed \in BOOLEAN /\ firing \in BOOLEAN
  /\ strayed \in BOOLEAN

EventType ==
  /\ evq \in Seq(Events) /\ Len(evq) <= EventBound
  /\ snap \in Nat /\ snap <= Len(evq)

TaskletType ==
  /\ sched \in BOOLEAN
  /\ pcK \in {"idle", "events", "retire", "reread", "finish"}
  /\ retiring \in [ch : Chan, of : 0 .. MaxTransfers, next : {"events", "leave"}]

HardwareType ==
  /\ hw \in [Chan -> Seq(Given)]
  /\ late \subseteq Events
  /\ ieob \in BOOLEAN /\ masked \in BOOLEAN

TypeInv ==
  ClientType /\ RingType /\ DeferralType /\ EventType /\ TaskletType /\ HardwareType

LEMMA TypeInvSuffices == TypeInv => TypeOK
<1>1. ASSUME EventType
      PROVE  snap \in 0 .. EventBound
  BY <1>1, BoundAssumption DEF EventType
<1> QED
  BY <1>1 DEF TypeInv, TypeOK, ClientType, RingType, DeferralType, EventType, TaskletType,
       HardwareType, Descriptors, Descriptor, Given

LEMMA Frame ==
  ASSUME TypeInv
  PROVE  /\ UNCHANGED client => ClientType'
         /\ UNCHANGED rings => RingType'
         /\ UNCHANGED deferral => DeferralType'
         /\ UNCHANGED <<evq, snap>> => EventType'
         /\ UNCHANGED tasklet => TaskletType'
         /\ UNCHANGED hardware => HardwareType'
BY DEF TypeInv, ClientType, RingType, DeferralType, EventType, TaskletType, HardwareType

(* What a delivery adds to the event ring.                                 *)
LEMMA DeliverKeeps ==
  ASSUME EventType, NEW e \in Events, Deliver(e), snap' = snap
  PROVE  EventType' /\ ieob' \in BOOLEAN
BY BoundAssumption DEF EventType, Deliver

LEMMA AftermathType ==
  ASSUME NEW d, d.of \in Call, d.db \in Slots
  PROVE  /\ Aftermath(d) \subseteq Events
         /\ \A e \in Aftermath(d) : e.code # "ERR"
<1>1. Event("qup", "TX", "none", 0, d.of, TRUE) \in Events
  BY SlotsClosed DEF Event, Events, Chan
<1>2. Event("xfer", "TX", "EOT", Pred(d.db), d.of, TRUE) \in Events
  BY SlotsClosed DEF Event, Events, Chan
<1>3. Event("xfer", "TX", "EOT", d.db, d.of, TRUE) \in Events
  BY SlotsClosed DEF Event, Events, Chan
<1>4. \A e \in Aftermath(d) : \/ e = Event("qup", "TX", "none", 0, d.of, TRUE)
                              \/ e = Event("xfer", "TX", "EOT", Pred(d.db), d.of, TRUE)
                              \/ e = Event("xfer", "TX", "EOT", d.db, d.of, TRUE)
  BY DEF Aftermath
<1>5. /\ Event("qup", "TX", "none", 0, d.of, TRUE).code # "ERR"
      /\ Event("xfer", "TX", "EOT", Pred(d.db), d.of, TRUE).code # "ERR"
      /\ Event("xfer", "TX", "EOT", d.db, d.of, TRUE).code # "ERR"
  BY DEF Event
<1>6. \A e \in Aftermath(d) : e \in Events /\ e.code # "ERR"
  BY <1>1, <1>2, <1>3, <1>4, <1>5
<1> QED
  BY <1>6

LEMMA HeadGiven ==
  ASSUME HardwareType, NEW ch \in Chan, hw[ch] # << >>
  PROVE  /\ Head(hw[ch]) \in Given /\ Head(hw[ch]) = hw[ch][1] /\ 1 \in DOMAIN hw[ch]
         /\ Tail(hw[ch]) \in Seq(Given)
<1>1. hw[ch] \in Seq(Given)
  BY DEF HardwareType
<1> QED
  BY <1>1

LEMMA TypeHw ==
  ASSUME TypeInv, Hw
  PROVE  TypeInv'
<1> USE DEF TypeInv
<1>1. CASE HwEob
  <2> DEFINE d == Head(hw["TX"])
  <2>1. PICK tre \in d.tre .. Tres["TX"] - 2 :
          /\ Deliver(Event("xfer", "TX", "EOB",
                           (d.db + RingSize - Tres["TX"] + tre) % RingSize, d.of, TRUE))
          /\ hw' = [hw EXCEPT !["TX"][1].tre = tre + 1]
    BY <1>1 DEF HwEob
  <2>2. "TX" \in Chan /\ hw["TX"] # << >> /\ Tres["TX"] = 3
    BY <1>1 DEF HwEob, Tres, Chan
  <2>3. d \in Given /\ d = hw["TX"][1] /\ 1 \in DOMAIN hw["TX"]
    BY <2>2, HeadGiven
  <2> HIDE DEF d
  <2>4. d.of \in Call /\ d.db \in Slots /\ d.tre \in 0 .. 2
    BY <2>3 DEF Given
  <2>5. tre + 1 \in 0 .. 2 /\ d.db + RingSize - Tres["TX"] + tre \in Int
    BY <2>2, <2>4, RingAssumption DEF Slots
  <2>6. Event("xfer", "TX", "EOB",
              (d.db + RingSize - Tres["TX"] + tre) % RingSize, d.of, TRUE) \in Events
    BY <2>4, <2>5, SlotsClosed DEF Event, Events, Chan
  <2>7. hw' \in [Chan -> Seq(Given)]
    <3>1. [d EXCEPT !.tre = tre + 1] \in Given
      BY <2>3, <2>5 DEF Given
    <3>2. [hw["TX"] EXCEPT ![1] = [d EXCEPT !.tre = tre + 1]] \in Seq(Given)
      <4>1. hw["TX"] \in Seq(Given)
        BY <2>2 DEF HardwareType
      <4> QED
        BY <4>1, <3>1, <2>3
    <3>3. hw' = [hw EXCEPT !["TX"] = [hw["TX"] EXCEPT ![1] = [d EXCEPT !.tre = tre + 1]]]
      BY <2>1, <2>3
    <3> QED
      BY <3>2, <3>3 DEF HardwareType
  <2>8. EventType' /\ ieob' \in BOOLEAN
    BY <1>1, <2>1, <2>6, DeliverKeeps DEF HwEob, d
  <2> QED
    BY <1>1, <2>7, <2>8, Frame DEF HwEob, HardwareType
<1>2. ASSUME NEW ch \in Chan, HwError(ch)
      PROVE  TypeInv'
  <2> DEFINE d == Head(hw[ch])
  <2>1. PICK back \in 1 .. Tres[ch] :
          Deliver(Event("xfer", ch, "ERR", (d.db + RingSize - back) % RingSize, d.of, FALSE))
    BY <1>2 DEF HwError
  <2>2. d \in Given /\ Tail(hw[ch]) \in Seq(Given)
    BY <1>2, HeadGiven DEF HwError
  <2> HIDE DEF d
  <2>3. d.of \in Call /\ d.db \in Slots /\ back \in Int
    BY <2>2 DEF Given, Tres, Chan
  <2>4. d.db + RingSize - back \in Int
    BY <2>3, RingAssumption DEF Slots
  <2>5. Event("xfer", ch, "ERR", (d.db + RingSize - back) % RingSize, d.of, FALSE)
          \in Events
    BY <2>3, <2>4, SlotsClosed DEF Event, Events
  <2>6. EventType' /\ ieob' \in BOOLEAN
    BY <1>2, <2>1, <2>5, DeliverKeeps DEF HwError, d
  <2>7. hw' \in [Chan -> Seq(Given)]
    BY <1>2, <2>2 DEF HwError, HardwareType
  <2> QED
    BY <1>2, <2>6, <2>7, Frame DEF HwError, HardwareType
<1>3. ASSUME NEW ch \in Chan, NEW ok \in BOOLEAN, HwEot(ch, ok)
      PROVE  TypeInv'
  <2> DEFINE d == Head(hw[ch])
  <2>1. d \in Given /\ Tail(hw[ch]) \in Seq(Given)
    BY <1>3, HeadGiven DEF HwEot
  <2>2. Deliver(Event("xfer", ch, "EOT", Pred(d.db), d.of, ok)) /\ snap' = snap
    BY <1>3 DEF HwEot
  <2>3. \/ late' = late
        \/ \E owed \in SUBSET Aftermath(d) : late' = late \cup owed
    BY <1>3 DEF HwEot, Owed
  <2> HIDE DEF d
  <2>4. d.of \in Call /\ d.db \in Slots /\ Pred(d.db) \in Slots
    BY <2>1, SlotsClosed DEF Given
  <2>5. Event("xfer", ch, "EOT", Pred(d.db), d.of, ok) \in Events
    BY <2>4 DEF Event, Events
  <2>6. EventType' /\ ieob' \in BOOLEAN
    BY <2>2, <2>5, DeliverKeeps
  <2>7. late' \subseteq Events
    BY <2>3, <2>4, AftermathType DEF HardwareType
  <2>8. hw' \in [Chan -> Seq(Given)]
    BY <1>3, <2>1 DEF HwEot, HardwareType
  <2> QED
    BY <1>3, <2>6, <2>7, <2>8, Frame DEF HwEot, HardwareType
<1>4. ASSUME NEW e \in late, HwLate(e)
      PROVE  TypeInv'
  <2>1. e \in Events
    BY DEF HardwareType
  <2>2. EventType' /\ ieob' \in BOOLEAN
    BY <1>4, <2>1, DeliverKeeps DEF HwLate
  <2> QED
    BY <1>4, <2>2, Frame DEF HwLate, HardwareType
<1> QED
  BY <1>1, <1>2, <1>3, <1>4 DEF Hw

LEMMA TypeIrqTimer ==
  ASSUME TypeInv, Irq \/ Timer
  PROVE  TypeInv'
<1> USE DEF TypeInv
<1>1. CASE Irq
  BY <1>1, Frame DEF Irq, EventType, TaskletType, HardwareType
<1>2. CASE TimerRead
  BY <1>2, Frame DEF TimerRead, EventType, DeferralType
<1>3. CASE TimerWrite
  BY <1>3, Frame DEF TimerWrite, EventType, DeferralType, TaskletType
<1> QED
  BY <1>1, <1>2, <1>3 DEF Timer

LEMMA CallbackKeeps ==
  ASSUME ClientType, TaskletType, NEW ch \in Chan, NEW of \in 0 .. MaxTransfers,
         NEW ok \in BOOLEAN, NEW next \in {"events", "leave"},
         Callback(ch, of, ok, next), UNCHANGED <<pcC, n, kind, round, ti, sched>>
  PROVE  ClientType' /\ TaskletType'
BY DEF ClientType, TaskletType, Callback

LEMMA CompleteDeferredKeeps ==
  ASSUME ClientType, TaskletType, DeferralType, NEW next \in {"events", "leave"},
         CompleteDeferred(next), UNCHANGED <<pcC, n, kind, round, ti, sched, firing, strayed>>
  PROVE  ClientType' /\ TaskletType' /\ DeferralType'
<1>1. slot.of \in 0 .. MaxTransfers /\ slot.ok \in BOOLEAN
  BY DEF DeferralType
<1>2. ClientType' /\ TaskletType'
  BY <1>1, CallbackKeeps DEF CompleteDeferred, Chan
<1>3. NoSlot \in [of : 0 .. MaxTransfers, ok : BOOLEAN]
  BY BoundAssumption DEF NoSlot
<1>4. DeferralType'
  BY <1>3 DEF CompleteDeferred, DeferralType
<1> QED
  BY <1>2, <1>4

LEMMA HeadIssued ==
  ASSUME RingType, NEW ch \in Chan, issued[ch] # << >>
  PROVE  /\ Head(issued[ch]) \in Descriptor
         /\ Head(issued[ch]).of \in 0 .. MaxTransfers
         /\ Head(issued[ch]).of \in Listed(issued[ch])
<1>1. issued[ch] \in Seq(Descriptor)
  BY DEF RingType
<1>2. Head(issued[ch]) \in Descriptor /\ Head(issued[ch]).of \in Listed(issued[ch])
  BY <1>1, ListedKeeps
<1> QED
  BY <1>2, BoundAssumption DEF Descriptor, Call

LEMMA TypeXferEvent ==
  ASSUME TypeInv, NEW e \in Events, XferEvent(e), UNCHANGED sched
  PROVE  ClientType' /\ RingType' /\ DeferralType' /\ TaskletType'
<1> USE DEF TypeInv
<1>1. e.ch \in Chan /\ e.ptr \in Slots /\ e.ok \in BOOLEAN /\ Succ(e.ptr) \in Slots
  BY SlotsClosed DEF Events
<1>2. AdvanceRp(e) /\ UNCHANGED <<chan, wp, issued>> => RingType'
  BY <1>1 DEF AdvanceRp, RingType
<1>3. CASE XferDiscard(e)
  BY <1>3, Frame DEF XferDiscard, TaskletType
<1>4. CASE XferEob(e)
  BY <1>2, <1>4, Frame DEF XferEob, TaskletType
<1>5. CASE XferDefer(e)
  <2>1. Head(issued["TX"]).of \in 0 .. MaxTransfers
    BY <1>1, <1>5, HeadIssued DEF XferDefer, Attributable
  <2>2. DeferralType'
    BY <1>1, <1>5, <2>1 DEF XferDefer, DeferralType
  <2> QED
    BY <1>2, <1>5, <2>2, Frame DEF XferDefer, TaskletType
<1>6. CASE XferDuplicate(e)
  BY <1>2, <1>6, Frame DEF XferDuplicate, TaskletType
<1>7. CASE XferComplete(e)
  <2>1. Head(issued[e.ch]).of \in 0 .. MaxTransfers
    BY <1>1, <1>7, HeadIssued DEF XferComplete, Attributable
  <2>2. ClientType' /\ TaskletType'
    BY <1>1, <1>7, <2>1, CallbackKeeps DEF XferComplete
  <2> QED
    BY <1>2, <1>7, <2>2, Frame DEF XferComplete
<1> QED
  BY <1>3, <1>4, <1>5, <1>6, <1>7 DEF XferEvent

LEMMA TypeTasklet ==
  ASSUME TypeInv, Tasklet
  PROVE  TypeInv'
<1> USE DEF TypeInv
<1>1. CASE TkStart
  <2>1. EventType' /\ TaskletType'
    <3>1. EventType'
      BY <1>1 DEF TkStart, EventType
    <3>2. TaskletType'
      BY <1>1 DEF TkStart, TaskletType
    <3> QED
      BY <3>1, <3>2
  <2> QED
    BY <1>1, <2>1, Frame DEF TkStart
<1>2. CASE TkEvent
  <2> DEFINE e == Head(evq)
  <2>1. /\ evq # << >> /\ e \in Events /\ EventType'
    <3>1. evq \in Seq(Events) /\ snap \in Nat /\ snap > 0 /\ snap <= Len(evq)
      BY <1>2 DEF TkEvent, EventType
    <3>2. evq # << >> /\ e \in Events
      BY <3>1
    <3>3. Tail(evq) \in Seq(Events) /\ Len(Tail(evq)) = Len(evq) - 1
      BY <3>1, <3>2
    <3>4. evq' = Tail(evq) /\ snap' = snap - 1
      BY <1>2 DEF TkEvent
    <3> QED
      BY <3>1, <3>2, <3>3, <3>4, BoundAssumption DEF EventType
  <2>2. XferEvent(e) \/ QupEvent(e) \/ StaleEvent(e)
    BY <1>2 DEF TkEvent
  <2> HIDE DEF e
  <2>3. sched' = sched /\ HardwareType'
    BY <1>2, Frame DEF TkEvent
  <2>4. CASE XferEvent(e)
    BY <2>1, <2>3, <2>4, TypeXferEvent
  <2>5. CASE QupEvent(e)
    <3>1. CASE UNCHANGED <<client, rings, deferral, pcK, retiring>>
      BY <2>1, <2>3, <3>1, Frame DEF TaskletType
    <3>2. CASE CompleteDeferred("events") /\ UNCHANGED <<pcC, n, kind, round, ti, rings, firing, strayed>>
      BY <2>1, <2>3, <3>2, Frame, CompleteDeferredKeeps
    <3> QED
      BY <2>5, <3>1, <3>2 DEF QupEvent
  <2>6. CASE StaleEvent(e)
    BY <2>1, <2>3, <2>6, Frame DEF StaleEvent, TaskletType
  <2> QED
    BY <2>2, <2>4, <2>5, <2>6
<1>3. CASE TkRetire
  <2>1. retiring.ch \in Chan
    BY DEF TaskletType
  <2>2. Unlinked(issued[retiring.ch], retiring.of) \in Seq(Descriptor)
    BY <2>1, UnlinkedType DEF RingType
  <2>3. RingType'
    BY <1>3, <2>1, <2>2 DEF TkRetire, RingType
  <2>4. TaskletType' /\ HardwareType'
    <3>1. Nobody \in [ch : Chan, of : 0 .. MaxTransfers, next : {"events", "leave"}]
      BY BoundAssumption DEF Nobody, Chan
    <3>2. TaskletType'
      BY <1>3, <3>1 DEF TkRetire, Leave, TaskletType
    <3>3. HardwareType'
      BY <1>3 DEF TkRetire, Leave, HardwareType
    <3> QED
      BY <3>2, <3>3
  <2> QED
    BY <1>3, <2>3, <2>4, Frame DEF TkRetire
<1>4. CASE TkClear
  BY <1>4, Frame DEF TkClear, TaskletType, HardwareType
<1>5. CASE TkReread
  <2>1. EventType' /\ TaskletType'
    BY <1>5 DEF TkReread, EventType, TaskletType
  <2> QED
    BY <1>5, <2>1, Frame DEF TkReread
<1>6. CASE TkFinish
  <2>1. EventType' /\ RingType' /\ HardwareType' /\ sched' = sched
    BY <1>6, Frame DEF TkFinish, Leave, CompleteDeferred, HardwareType
  <2>2. CASE CompleteDeferred("leave") /\ UNCHANGED <<pcC, n, kind, round, ti, firing, strayed>>
    BY <2>1, <2>2, CompleteDeferredKeeps
  <2>3. CASE Leave /\ UNCHANGED <<client, deferral, retiring>>
    BY <2>1, <2>3, Frame DEF Leave, TaskletType
  <2> QED
    BY <1>6, <2>2, <2>3 DEF TkFinish
<1> QED
  BY <1>1, <1>2, <1>3, <1>4, <1>5, <1>6 DEF Tasklet

LEMMA IssueKeeps ==
  ASSUME TypeInv, NEW ch \in Chan, n > 0, Issue(ch)
  PROVE  /\ RingType' /\ DeferralType' /\ EventType' /\ TaskletType' /\ HardwareType'
         /\ \A c \in Chan : Listed(issued[c]) \subseteq Listed(issued'[c])
<1> USE DEF TypeInv
<1> DEFINE db == NextWp(ch)
<1>1. /\ n \in Call
      /\ wp' = [wp EXCEPT ![ch] = db]
      /\ issued' = [issued EXCEPT ![ch] = Append(@, [of |-> n, db |-> db])]
      /\ hw' = [hw EXCEPT ![ch] = Append(@, [of |-> n, db |-> db, tre |-> 0])]
  BY DEF Issue, ClientType, Call
<1>2. UNCHANGED <<chan, rp, deferral, evq, tasklet, late, ieob, masked>>
  BY DEF Issue
<1>3. db \in Slots
  <2>1. rp[ch] \in Int /\ wp[ch] \in Int /\ RingSize \in Int /\ Tres[ch] \in Int
    BY RingAssumption DEF RingType, Slots, Tres, Chan
  <2>2. Avail(ch) \in Int
    BY <2>1 DEF Avail
  <2>3. Queued(ch) \in Int
    BY <2>1, <2>2 DEF Queued
  <2> QED
    BY <2>1, <2>3, SlotsClosed DEF NextWp
<1> HIDE DEF db
<1>4. issued[ch] \in Seq(Descriptor) /\ [of |-> n, db |-> db] \in Descriptor
  BY <1>1, <1>3 DEF RingType, Descriptor
<1>5. RingType'
  BY <1>1, <1>2, <1>3, <1>4 DEF RingType
<1>6. HardwareType'
  <2>1. hw[ch] \in Seq(Given)
    BY DEF HardwareType
  <2>2. [of |-> n, db |-> db, tre |-> 0] \in Given
    BY <1>1, <1>3 DEF Given
  <2> QED
    BY <1>1, <1>2, <2>1, <2>2 DEF HardwareType
<1>7. ASSUME NEW c \in Chan
      PROVE  Listed(issued[c]) \subseteq Listed(issued'[c])
  <2>1. CASE c = ch
    <3>1. issued'[c] = Append(issued[c], [of |-> n, db |-> db])
      BY <1>1, <2>1 DEF RingType
    <3> QED
      BY <1>4, <2>1, <3>1, ListedKeeps
  <2>2. CASE c # ch
    <3>1. issued'[c] = issued[c]
      BY <1>1, <2>2 DEF RingType
    <3> QED
      BY <3>1
  <2> QED
    BY <2>1, <2>2
<1> QED
  BY <1>2, <1>5, <1>6, <1>7, Frame

(* A call that issues or waits is the n-th, and n is not 0.                *)
CallInv == pcC \in {"issue_rx", "issue_tx"} => n > 0

LEMMA TypeTransfer ==
  ASSUME TypeInv, CallInv, Transfer
  PROVE  TypeInv'
<1> USE DEF TypeInv
<1>1. CASE IssueRx
  <2>1. Issue("RX") /\ n > 0 /\ "RX" \in Chan
    BY <1>1 DEF IssueRx, CallInv, Chan
  <2>2. ClientType'
    BY <1>1, <2>1 DEF IssueRx, Issue, ClientType
  <2> QED
    BY <2>1, <2>2, IssueKeeps
<1>2. CASE IssueTx
  <2>1. Issue("TX") /\ n > 0 /\ "TX" \in Chan
    BY <1>2 DEF IssueTx, CallInv, Chan
  <2>2. ClientType'
    BY <1>2, <2>1 DEF IssueTx, Issue, ClientType
  <2> QED
    BY <2>1, <2>2, IssueKeeps
<1>3. CASE WaitRx \/ WaitTx \/ ReadStatus
  <2>1. ClientType'
    BY <1>3 DEF WaitRx, WaitTx, ReadStatus, Judge, ClientType
  <2> QED
    BY <1>3, <2>1, Frame DEF WaitRx, WaitTx, ReadStatus
<1> QED
  BY <1>1, <1>2, <1>3 DEF Transfer

LEMMA TypeStart ==
  ASSUME TypeInv, NEW k \in {"pair", "write"}, Start(k)
  PROVE  TypeInv'
<1>1. ClientType'
  <2>1. n + 1 \in 0 .. MaxTransfers
    BY BoundAssumption DEF TypeInv, Start, ClientType
  <2>2. Silent \in [Chan -> {"none", "ok", "bad"}]
    BY DEF Silent
  <2> QED
    BY <2>1, <2>2 DEF Start, ClientType, Chan
<1> QED
  BY <1>1, Frame DEF TypeInv, Start

LEMMA TypeTerminate ==
  ASSUME TypeInv, Terminate
  PROVE  TypeInv'
<1> USE DEF TypeInv
<1>1. TerminateExit /\ UNCHANGED <<n, kind, outcome>> => ClientType'
  BY DEF TerminateExit, ClientType, Chan
<1>2. \A this, next \in {"stop", "reset", "start"} :
        NextChannel(this, next) /\ UNCHANGED <<n, kind, outcome, round>> => ClientType'
  BY DEF NextChannel, ClientType, Chan
<1>3. ti \in Chan
  BY DEF ClientType
<1>4. CASE TClear
  <2>1. NoSlot \in [of : 0 .. MaxTransfers, ok : BOOLEAN]
    BY BoundAssumption DEF NoSlot
  <2>2. DeferralType'
    BY <1>4, <2>1 DEF TClear, DeferralType
  <2>3. ClientType'
    BY <1>4 DEF TClear, ClientType
  <2> QED
    BY <1>4, <2>2, <2>3, Frame DEF TClear
<1>5. CASE TPrepare
  <2>1. ClientType'
    BY <1>2, <1>5 DEF TPrepare
  <2>2. RingType'
    BY <1>3, <1>5 DEF TPrepare, RingType
  <2>3. TaskletType'
    BY <1>5 DEF TPrepare, CommandIrq, TaskletType
  <2> QED
    BY <1>5, <2>1, <2>2, <2>3, Frame DEF TPrepare
<1>6. CASE TReset
  <2>1. ClientType'
    BY <1>2, <1>6 DEF TReset
  <2>2. RingType'
    <3>1. << >> \in Seq(Descriptor)
      OBVIOUS
    <3> QED
      BY <1>3, <1>6, <3>1, SlotsClosed DEF TReset, RingType
  <2>3. EventType'
    <3>1. evq \in Seq(Events) /\ evq' = MarkStale(ti) /\ snap' = snap
      BY <1>6 DEF EventType, TReset
    <3>2. MarkStale(ti) \in Seq(Events) /\ Len(MarkStale(ti)) = Len(evq)
      BY <1>3, <3>1, MarkStaleKeeps
    <3> QED
      BY <3>1, <3>2 DEF EventType
  <2>4. HardwareType'
    <3>1. << >> \in Seq(Given)
      OBVIOUS
    <3> QED
      BY <1>3, <1>6, <3>1 DEF TReset, HardwareType
  <2> QED
    BY <1>6, <2>1, <2>2, <2>3, <2>4, Frame DEF TReset
<1>7. CASE TStart
  <2>1. ClientType'
    BY <1>1, <1>7 DEF TStart, ClientType, Chan
  <2>2. RingType'
    BY <1>3, <1>7 DEF TStart, RingType
  <2>3. TaskletType'
    BY <1>7 DEF TStart, CommandIrq, TaskletType
  <2> QED
    BY <1>7, <2>1, <2>2, <2>3, Frame DEF TStart
<1>8. CASE TCommandFails
  BY <1>1, <1>8, Frame DEF TCommandFails
<1> QED
  BY <1>4, <1>5, <1>6, <1>7, <1>8 DEF Terminate

LEMMA CallNext ==
  ASSUME TypeInv, CallInv, Next
  PROVE  CallInv'
<1>1. CASE UNCHANGED <<pcC, n>>
  BY <1>1 DEF CallInv
<1>2. CASE Transfer
  BY <1>2 DEF Transfer, IssueRx, IssueTx, WaitRx, WaitTx, ReadStatus, Judge, Issue, CallInv
<1>3. CASE \E k \in {"pair", "write"} : Start(k)
  BY <1>3 DEF Start, TypeInv, ClientType, CallInv
<1>4. CASE Terminate
  BY <1>4 DEF Terminate, TClear, TPrepare, TReset, TStart, TCommandFails, NextChannel,
       TerminateExit, CallInv
<1>5. Hw \/ Irq \/ Timer \/ Tasklet => UNCHANGED <<pcC, n>>
  <2>1. Hw => UNCHANGED <<pcC, n>>
    BY DEF Hw, HwEob, HwError, HwEot, HwLate
  <2>2. Irq \/ Timer => UNCHANGED <<pcC, n>>
    BY DEF Irq, Timer, TimerRead, TimerWrite
  <2>3. Tasklet => UNCHANGED <<pcC, n>>
    BY DEF Tasklet, TkStart, TkEvent, TkRetire, TkClear, TkReread, TkFinish, XferEvent,
         XferDiscard, XferEob, XferDefer, XferDuplicate, XferComplete, QupEvent, StaleEvent
  <2> QED
    BY <2>1, <2>2, <2>3
<1> QED
  BY <1>1, <1>2, <1>3, <1>4, <1>5 DEF Next

LEMMA TypeNext ==
  ASSUME TypeInv, CallInv, [Next]_vars
  PROVE  TypeInv' /\ CallInv'
<1>1. CASE Next
  <2>1. TypeInv'
    BY <1>1, TypeHw, TypeIrqTimer, TypeTasklet, TypeTransfer, TypeStart, TypeTerminate
       DEF Next
  <2> QED
    BY <1>1, <2>1, CallNext
<1>2. CASE UNCHANGED vars
  BY <1>2, Frame DEF vars, TypeInv, CallInv
<1> QED
  BY <1>1, <1>2

-----------------------------------------------------------------------------
(* The deferred slot.                                                      *)

(* From the clearing of the slot to the last reset no TX is deferred, but  *)
(* one that strays: once the channel is marked the tasklet has no event    *)
(* for it.  The loops over the channels begin at TX.                       *)
TerminateInv ==
  /\ pcC \notin {"stop", "reset", "start"} => ti = "TX"
  /\ pcC = "stop" /\ ti = "TX" => slot = NoSlot
  /\ (pcC = "stop" /\ ti = "RX") \/ pcC = "reset" =>
       slot = NoSlot /\ chan["TX"] = "prepare"

(* While a TX is retired the slot is empty; an RX is not the last thing    *)
(* that the tasklet does.                                                  *)
RetireInv ==
  pcK = "retire" =>
    \/ retiring.ch = "TX" /\ slot = NoSlot
    \/ retiring.ch = "RX" /\ retiring.next = "events"

(* The tasklet leaves after a callback only with the slot empty, so that a *)
(* deferred descriptor keeps its wakeup.                                   *)
WakeInv ==
  /\ DeferredHasWakeup
  /\ pcK = "retire" /\ retiring.next = "leave" => slot = NoSlot

DeferralInv == DeferredIsLive /\ RetireLive /\ DeferredHasWakeup

SafeInv == TerminateInv /\ RetireInv /\ DeferralInv

(* The tasklet is about to give the TX channel an error while one of its   *)
(* descriptors is deferred.                                                *)
ErrorOnDeferred ==
  /\ pcK = "events" /\ snap > 0 /\ slot # NoSlot
  /\ LET e == Head(evq) IN
       e.type = "xfer" /\ e.ch = "TX" /\ e.code = "ERR" /\ Attributable(e)

(* Whatever the hardware sends and whenever the tasklet runs.              *)
LEMMA WakeNext ==
  ASSUME TypeInv, WakeInv, [Next]_vars
  PROVE  WakeInv'
<1> USE DEF WakeInv, DeferredHasWakeup
<1>1. CASE Hw
  <2>1. UNCHANGED <<deferral, tasklet>>
    BY <1>1 DEF Hw, HwEob, HwError, HwEot, HwLate
  <2> QED
    BY <2>1
<1>2. CASE Irq \/ Timer
  BY <1>2 DEF Irq, Timer, TimerRead, TimerWrite
<1>3. CASE Transfer \/ \E k \in {"pair", "write"} : Start(k)
  <2>1. UNCHANGED <<deferral, tasklet>>
    BY <1>3 DEF Transfer, IssueRx, IssueTx, Issue, WaitRx, WaitTx, ReadStatus, Start
  <2> QED
    BY <2>1
<1>4. CASE TClear
  <2>1. slot' = NoSlot
    BY <1>4 DEF TClear
  <2> QED
    BY <2>1
<1>5. CASE TPrepare \/ TReset \/ TStart \/ TCommandFails
  <2>1. UNCHANGED <<deferral, pcK, retiring>> /\ (sched => sched')
    BY <1>5 DEF TPrepare, TReset, TStart, TCommandFails, CommandIrq
  <2> QED
    BY <2>1
<1>6. CASE TkStart \/ TkClear \/ TkReread
  BY <1>6 DEF TkStart, TkClear, TkReread
<1>7. ASSUME NEW next, CompleteDeferred(next)
      PROVE  WakeInv'
  <2>1. slot' = NoSlot
    BY <1>7 DEF CompleteDeferred
  <2> QED
    BY <2>1
<1>8. CASE TkEvent
  <2> DEFINE e == Head(evq)
  <2>1. XferEvent(e) \/ QupEvent(e) \/ StaleEvent(e)
    BY <1>8 DEF TkEvent
  <2>2. pcK = "events" /\ sched' = sched
    BY <1>8 DEF TkEvent
  <2> HIDE DEF e
  <2>3. CASE UNCHANGED <<deferral, pcK, retiring>>
    BY <2>2, <2>3
  <2>4. CASE XferDefer(e)
    BY <2>2, <2>4 DEF XferDefer
  <2>5. CASE XferComplete(e)
    <3>1. UNCHANGED deferral /\ pcK' = "retire" /\ retiring'.next = "events"
      BY <2>5 DEF XferComplete, Callback
    <3> QED
      BY <3>1, <2>2
  <2> QED
    BY <1>7, <2>1, <2>3, <2>4, <2>5 DEF XferEvent, XferDiscard, XferEob, XferDuplicate,
         QupEvent, StaleEvent
<1>9. CASE TkRetire
  BY <1>9 DEF TkRetire, Leave, TypeInv, TaskletType
<1>10. CASE TkFinish
  BY <1>7, <1>10 DEF TkFinish, Leave
<1>11. CASE UNCHANGED vars
  BY <1>11 DEF vars
<1> QED
  BY <1>1, <1>2, <1>3, <1>4, <1>5, <1>6, <1>8, <1>9, <1>10, <1>11 DEF Next, Tasklet, Terminate

(* The hardware, the interrupt, the timer and the calls that issue or wait *)
(* touch neither the slot nor a list, but by appending to it.              *)
LEMMA SafeOthers ==
  ASSUME TypeInv, CallInv, SafeInv,
         Hw \/ Irq \/ Timer \/ Transfer \/ \E k \in {"pair", "write"} : Start(k)
  PROVE  TerminateInv' /\ RetireInv' /\ DeferralInv'
<1> USE DEF SafeInv
<1>1. CASE Hw
  <2>1. UNCHANGED <<client, rings, deferral, tasklet>>
    BY <1>1 DEF Hw, HwEob, HwError, HwEot, HwLate
  <2> QED
    BY <2>1 DEF TerminateInv, RetireInv, DeferralInv, DeferredIsLive, RetireLive,
         DeferredHasWakeup
<1>2. CASE Irq
  BY <1>2 DEF Irq, TerminateInv, RetireInv, DeferralInv, DeferredIsLive, RetireLive,
       DeferredHasWakeup
<1>3. CASE Timer
  <2>1. UNCHANGED <<client, rings, slot, pcK, retiring>>
    BY <1>3 DEF Timer, TimerRead, TimerWrite
  <2>2. DeferredHasWakeup'
    BY <1>3 DEF Timer, TimerRead, TimerWrite, DeferredHasWakeup
  <2> QED
    BY <2>1, <2>2 DEF TerminateInv, RetireInv, DeferralInv, DeferredIsLive, RetireLive
<1>4. CASE Transfer \/ \E k \in {"pair", "write"} : Start(k)
  <2>1. UNCHANGED <<chan, deferral, tasklet>>
    BY <1>4 DEF Transfer, IssueRx, IssueTx, Issue, WaitRx, WaitTx, ReadStatus, Start
  <2>2. TerminateInv'
    BY <1>4 DEF Transfer, IssueRx, IssueTx, Issue, WaitRx, WaitTx, ReadStatus, Judge, Start,
         TerminateInv
  <2>3. \A c \in Chan : Listed(issued[c]) \subseteq Listed(issued'[c])
    <3>1. CASE UNCHANGED issued
      BY <3>1
    <3>2. CASE \E ch \in Chan : n > 0 /\ Issue(ch)
      BY <3>2, IssueKeeps
    <3> QED
      BY <1>4, <3>1, <3>2 DEF Transfer, IssueRx, IssueTx, WaitRx, WaitTx, ReadStatus, Start,
           CallInv, Chan
  <2>4. DeferredIsLive' /\ RetireLive'
    BY <2>1, <2>3 DEF DeferralInv, DeferredIsLive, RetireLive, TypeInv, TaskletType, Chan
  <2>5. RetireInv' /\ DeferredHasWakeup'
    BY <2>1 DEF RetireInv, DeferralInv, DeferredHasWakeup
  <2> QED
    BY <2>2, <2>4, <2>5 DEF DeferralInv
<1> QED
  BY <1>1, <1>2, <1>3, <1>4

(* gpi_terminate_all empties the slot before it frees a descriptor.        *)
LEMMA SafeTerminate ==
  ASSUME TypeInv, SafeInv, Terminate
  PROVE  TerminateInv' /\ RetireInv' /\ DeferralInv'
<1> USE DEF SafeInv
<1>1. chan \in [Chan -> {"active", "prepare"}] /\ ti \in Chan
  BY DEF TypeInv, RingType, ClientType
<1>2. CASE TClear
  <2>1. slot' = NoSlot
    BY <1>2 DEF TClear
  <2>2. /\ pcC' = "stop" /\ ti' = "TX" /\ UNCHANGED <<rings, tasklet>>
    BY <1>2 DEF TClear, TerminateInv
  <2> QED
    BY <2>1, <2>2 DEF TerminateInv, RetireInv, DeferralInv, DeferredIsLive, RetireLive,
         DeferredHasWakeup
<1>3. CASE TPrepare
  <2>1. slot' = NoSlot /\ pcK' = "idle"
    BY <1>1, <1>3 DEF TPrepare, TaskletIdle, TerminateInv, Chan
  <2>2. TerminateInv'
    BY <1>1, <1>3, <2>1 DEF TPrepare, NextChannel, TerminateInv, Chan
  <2> QED
    BY <2>1, <2>2 DEF RetireInv, DeferralInv, DeferredIsLive, RetireLive,
         DeferredHasWakeup
<1>4. CASE TReset
  <2>1. slot' = NoSlot /\ pcK' = "idle" /\ chan' = chan
    BY <1>4 DEF TReset, TaskletIdle, TerminateInv
  <2>2. TerminateInv'
    BY <1>4, <2>1 DEF TReset, NextChannel, TerminateInv
  <2> QED
    BY <2>1, <2>2 DEF RetireInv, DeferralInv, DeferredIsLive, RetireLive,
         DeferredHasWakeup
<1>5. CASE TStart
  <2>1. pcK = "idle" /\ UNCHANGED <<issued, deferral, pcK, retiring>>
    BY <1>5 DEF TStart, TaskletIdle
  <2>2. TerminateInv'
    BY <1>5 DEF TStart, TerminateExit, TerminateInv
  <2>3. DeferredHasWakeup'
    BY <1>5, <2>1 DEF TStart, CommandIrq, DeferralInv, DeferredHasWakeup
  <2> QED
    BY <2>1, <2>2, <2>3 DEF RetireInv, DeferralInv, DeferredIsLive, RetireLive
<1>6. CASE TCommandFails
  <2>1. UNCHANGED <<rings, deferral, tasklet>>
    BY <1>6 DEF TCommandFails
  <2>2. TerminateInv'
    BY <1>6 DEF TCommandFails, TerminateExit, TerminateInv
  <2> QED
    BY <2>1, <2>2 DEF RetireInv, DeferralInv, DeferredIsLive, RetireLive, DeferredHasWakeup
<1> QED
  BY <1>2, <1>3, <1>4, <1>5, <1>6 DEF Terminate

(* A transfer event defers a TX, or completes an RX.                       *)
LEMMA SafeXferEvent ==
  ASSUME TypeInv, SafeInv, NEW e \in Events, pcK = "events", XferEvent(e), ~strayed',
         slot # NoSlot => ~(e.ch = "TX" /\ e.code = "ERR" /\ Attributable(e))
  PROVE  TerminateInv' /\ RetireInv' /\ DeferralInv'
<1> USE DEF SafeInv
<1>1. UNCHANGED <<pcC, ti, chan, issued>>
  BY DEF XferEvent, XferDiscard, XferEob, XferDefer, XferDuplicate, XferComplete
<1>3. CASE UNCHANGED <<deferral, pcK, retiring>>
  BY <1>1, <1>3 DEF TerminateInv, RetireInv, DeferralInv, DeferredIsLive, RetireLive,
       DeferredHasWakeup
<1>4. CASE XferDefer(e)
  <2>1. chan["TX"] = "active" /\ issued["TX"] # << >> /\ pcK' = "events"
    BY <1>4 DEF XferDefer, Attributable
  <2>2. TerminateInv'
    <3>1. ~(pcC = "stop" /\ ti = "TX")
      BY <1>4 DEF XferDefer, InWindow
    <3> QED
      BY <1>1, <2>1, <3>1 DEF TerminateInv
  <2>3. slot'.of = Head(issued["TX"]).of /\ armed'
    BY <1>4 DEF XferDefer
  <2>4. DeferredIsLive'
    BY <1>1, <2>1, <2>3, HeadIssued DEF DeferredIsLive, TypeInv, Chan
  <2> QED
    BY <2>1, <2>2, <2>3, <2>4 DEF RetireInv, DeferralInv, RetireLive, DeferredHasWakeup
<1>5. CASE XferComplete(e)
  <2>1. /\ e.ch \in Chan /\ issued[e.ch] # << >>
        /\ pcK' = "retire" /\ UNCHANGED deferral
        /\ retiring' = [ch |-> e.ch, of |-> Head(issued[e.ch]).of, next |-> "events"]
    BY <1>5 DEF XferComplete, Attributable, Callback, Events
  <2>2. e.ch = "TX" => slot = NoSlot
    BY <1>5 DEF XferComplete
  <2>3. RetireLive'
    BY <1>1, <2>1, HeadIssued DEF RetireLive, TypeInv
  <2>4. RetireInv'
    BY <2>1, <2>2 DEF RetireInv, Chan
  <2>5. DeferredIsLive' /\ DeferredHasWakeup'
    BY <1>1, <2>1 DEF DeferralInv, DeferredIsLive, DeferredHasWakeup
  <2>6. TerminateInv'
    BY <1>1, <2>1 DEF TerminateInv
  <2> QED
    BY <2>3, <2>4, <2>5, <2>6 DEF DeferralInv
<1> QED
  BY <1>3, <1>4, <1>5 DEF XferEvent, XferDiscard, XferEob, XferDuplicate

(* The deferred descriptor is completed out of the slot.                   *)
LEMMA SafeCompleteDeferred ==
  ASSUME SafeInv, pcK \in {"events", "finish"}, NEW next, CompleteDeferred(next),
         UNCHANGED <<pcC, ti, rings>>
  PROVE  TerminateInv' /\ RetireInv' /\ DeferralInv'
<1>1. /\ slot # NoSlot /\ slot' = NoSlot /\ pcK' = "retire"
      /\ retiring' = [ch |-> "TX", of |-> slot.of, next |-> next]
  BY DEF CompleteDeferred, Callback
<1>2. TerminateInv'
  BY <1>1 DEF SafeInv, TerminateInv
<1>3. RetireInv' /\ RetireLive' /\ DeferredIsLive' /\ DeferredHasWakeup'
  BY <1>1 DEF SafeInv, RetireInv, DeferralInv, RetireLive, DeferredIsLive,
       DeferredHasWakeup
<1> QED
  BY <1>2, <1>3 DEF DeferralInv

LEMMA SafeTasklet ==
  ASSUME TypeInv, SafeInv, ~ErrorOnDeferred, Tasklet, ~strayed'
  PROVE  TerminateInv' /\ RetireInv' /\ DeferralInv'
<1> USE DEF SafeInv
<1>1. CASE TkStart
  <2>1. pcK' = "events" /\ UNCHANGED <<client, rings, deferral>>
    BY <1>1 DEF TkStart
  <2> QED
    BY <2>1 DEF TerminateInv, RetireInv, DeferralInv, DeferredIsLive, RetireLive,
         DeferredHasWakeup
<1>2. CASE TkEvent
  <2> DEFINE e == Head(evq)
  <2>1. XferEvent(e) \/ QupEvent(e) \/ StaleEvent(e)
    BY <1>2 DEF TkEvent
  <2>2. e \in Events
    <3>1. evq \in Seq(Events) /\ evq # << >>
      BY <1>2 DEF TkEvent, TypeInv, EventType
    <3> QED
      BY <3>1
  <2>3. pcK = "events"
    BY <1>2 DEF TkEvent
  <2>7. XferEvent(e) /\ slot # NoSlot => ~(e.ch = "TX" /\ e.code = "ERR" /\ Attributable(e))
    BY <1>2 DEF TkEvent, ErrorOnDeferred, XferEvent
  <2> HIDE DEF e
  <2>4. CASE XferEvent(e)
    BY <2>2, <2>3, <2>4, <2>7, SafeXferEvent
  <2>5. CASE UNCHANGED <<client, rings, deferral, pcK, retiring>>
    BY <2>3, <2>5 DEF TerminateInv, RetireInv, DeferralInv, DeferredIsLive, RetireLive,
         DeferredHasWakeup
  <2>6. CASE CompleteDeferred("events") /\ UNCHANGED <<pcC, ti, rings>>
    BY <2>3, <2>6, SafeCompleteDeferred
  <2> QED
    BY <2>1, <2>4, <2>5, <2>6 DEF QupEvent, StaleEvent
<1>3. CASE TkRetire
  <2>1. /\ pcK = "retire" /\ pcK' \in {"events", "idle"}
        /\ UNCHANGED <<client, chan, deferral, sched>>
        /\ issued' = [issued EXCEPT ![retiring.ch] = Unlinked(@, retiring.of)]
    BY <1>3 DEF TkRetire, Leave
  <2>2. TerminateInv' /\ RetireInv' /\ RetireLive'
    BY <2>1 DEF TerminateInv, RetireInv, RetireLive
  <2>3. CASE slot = NoSlot
    BY <2>1, <2>2, <2>3 DEF DeferralInv, DeferredIsLive, DeferredHasWakeup
  <2>4. CASE retiring.ch = "RX" /\ retiring.next = "events"
    <3>1. issued'["TX"] = issued["TX"] /\ pcK' = "events"
      BY <1>3, <2>1, <2>4 DEF TkRetire, TypeInv, RingType, Chan
    <3> QED
      BY <2>1, <2>2, <3>1 DEF DeferralInv, DeferredIsLive, DeferredHasWakeup
  <2> QED
    BY <2>1, <2>3, <2>4 DEF RetireInv
<1>4. CASE TkClear \/ TkReread
  <2>1. /\ pcK \in {"events", "reread"} /\ pcK' \in {"reread", "finish", "events"}
        /\ UNCHANGED <<client, rings, deferral>>
    BY <1>4 DEF TkClear, TkReread
  <2> QED
    BY <2>1 DEF TerminateInv, RetireInv, DeferralInv, DeferredIsLive, RetireLive,
         DeferredHasWakeup
<1>5. CASE TkFinish
  <2>1. CASE CompleteDeferred("leave") /\ UNCHANGED <<pcC, ti, rings>>
    BY <1>5, <2>1, SafeCompleteDeferred DEF TkFinish
  <2>2. CASE ~(grace /\ slot # NoSlot) /\ Leave /\ UNCHANGED <<client, rings, deferral>>
    BY <1>5, <2>2 DEF TkFinish, Leave, TerminateInv, RetireInv, DeferralInv,
         DeferredIsLive, RetireLive, DeferredHasWakeup
  <2> QED
    BY <1>5, <2>1, <2>2 DEF TkFinish
<1> QED
  BY <1>1, <1>2, <1>3, <1>4, <1>5 DEF Tasklet

(* Nothing makes up for a TX that has strayed.                             *)
LEMMA StrayedStays ==
  ASSUME strayed \in BOOLEAN, [Next]_vars, strayed
  PROVE  strayed'
<1>1. UNCHANGED deferral => strayed'
  OBVIOUS
<1>2. Hw \/ Irq \/ Timer \/ Transfer \/ (\E k \in {"pair", "write"} : Start(k)) => strayed'
  BY DEF Hw, HwEob, HwError, HwEot, HwLate, Irq, Timer, TimerRead, TimerWrite, Transfer,
       IssueRx, IssueTx, Issue, WaitRx, WaitTx, ReadStatus, Start
<1>3. Terminate => strayed'
  BY DEF Terminate, TClear, TPrepare, TReset, TStart, TCommandFails
<1>4. Tasklet => strayed'
  <2>1. TkEvent => strayed'
    BY DEF TkEvent, XferEvent, XferDiscard, XferEob, XferDefer, XferDuplicate, XferComplete,
         QupEvent, StaleEvent
  <2>2. TkStart \/ TkRetire \/ TkClear \/ TkReread \/ TkFinish => strayed'
    BY DEF TkStart, TkRetire, TkClear, TkReread, TkFinish
  <2> QED
    BY <2>1, <2>2 DEF Tasklet
<1> QED
  BY <1>1, <1>2, <1>3, <1>4 DEF Next, vars

LEMMA SafeNext ==
  ASSUME TypeInv, CallInv, strayed \/ SafeInv, ~ErrorOnDeferred, [Next]_vars
  PROVE  strayed' \/ SafeInv'
<1>1. strayed => strayed'
  BY StrayedStays DEF TypeInv, DeferralType
<1>2. CASE Next /\ ~strayed'
  BY <1>1, <1>2, SafeOthers, SafeTerminate, SafeTasklet DEF Next, SafeInv
<1>3. CASE UNCHANGED vars
  BY <1>3 DEF vars, SafeInv, TerminateInv, RetireInv, DeferralInv, DeferredIsLive, RetireLive,
       DeferredHasWakeup
<1> QED
  BY <1>1, <1>2, <1>3

-----------------------------------------------------------------------------
(* The theorems.                                                           *)

LEMMA InitInv == Init => TypeInv /\ CallInv /\ WakeInv /\ SafeInv
<1> SUFFICES ASSUME Init
             PROVE  TypeInv /\ CallInv /\ WakeInv /\ SafeInv
  OBVIOUS
<1>1. ClientType
  BY BoundAssumption DEF Init, ClientType, Silent, Chan
<1>2. RingType
  <2>1. << >> \in Seq(Descriptor)
    OBVIOUS
  <2> QED
    BY <2>1, SlotsClosed DEF Init, RingType
<1>3. DeferralType /\ TaskletType
  <2>1. /\ NoSlot \in [of : 0 .. MaxTransfers, ok : BOOLEAN]
        /\ Nobody \in [ch : Chan, of : 0 .. MaxTransfers, next : {"events", "leave"}]
    BY BoundAssumption DEF NoSlot, Nobody, Chan
  <2> QED
    BY <2>1 DEF Init, DeferralType, TaskletType
<1>4. EventType
  <2>1. << >> \in Seq(Events) /\ Len(<< >>) = 0
    OBVIOUS
  <2> QED
    BY <2>1, BoundAssumption DEF Init, EventType
<1>5. HardwareType
  <2>1. << >> \in Seq(Given)
    OBVIOUS
  <2> QED
    BY <2>1 DEF Init, HardwareType
<1>6. CallInv /\ WakeInv /\ SafeInv
  BY DEF Init, CallInv, WakeInv, SafeInv, TerminateInv, RetireInv, DeferralInv,
       DeferredIsLive, RetireLive, DeferredHasWakeup
<1> QED
  BY <1>1, <1>2, <1>3, <1>4, <1>5, <1>6 DEF TypeInv

(* Every variable of the transfer machinery stays in its range, whatever   *)
(* the hardware sends and however long the rings are: no pointer leaves    *)
(* its ring, and the tasklet never reads beyond the events there are.      *)
THEOREM TypeCorrect == Spec => []TypeOK
<1>1. Init => TypeInv /\ CallInv
  BY InitInv
<1>2. TypeInv /\ CallInv /\ [Next]_vars => (TypeInv /\ CallInv)'
  BY TypeNext
<1>3. TypeInv => TypeOK
  BY TypeInvSuffices
<1> QED
  BY <1>1, <1>2, <1>3, PTL DEF Spec

(* A deferred descriptor is never forgotten: it has a timer that is        *)
(* pending or being handled, or the tasklet will still look at it.  This   *)
(* holds whatever the hardware sends, and also while gpi_terminate_all     *)
(* clears the slot and the tasklet defers another descriptor behind it.    *)
THEOREM DeferralWoken == Spec => []DeferredHasWakeup
<1>1. Init => TypeInv /\ CallInv /\ WakeInv
  BY InitInv
<1>2. TypeInv /\ CallInv /\ WakeInv /\ [Next]_vars => (TypeInv /\ CallInv /\ WakeInv)'
  BY TypeNext, WakeNext
<1>3. WakeInv => DeferredHasWakeup
  BY DEF WakeInv
<1> QED
  BY <1>1, <1>2, <1>3, PTL DEF Spec

(* As long as no error is given to the TX channel while a TX is deferred,  *)
(* the descriptor in the deferred slot is on the list of its channel and   *)
(* has a wakeup, and so is the one whose callback has run, until the       *)
(* tasklet has deferred a TX behind the clearing of the slot.              *)
THEOREM DeferralIsSound == Spec /\ []~ErrorOnDeferred => []DeferralSound
<1> DEFINE Inv == TypeInv /\ CallInv /\ WakeInv /\ (strayed \/ SafeInv)
<1>1. Init => Inv
  BY InitInv
<1>2. Inv /\ ~ErrorOnDeferred /\ [Next]_vars => Inv'
  BY TypeNext, WakeNext, SafeNext
<1>3. Inv => DeferralSound
  BY DEF SafeInv, DeferralInv, WakeInv, DeferralSound
<1> QED
  BY <1>1, <1>2, <1>3, PTL DEF Spec

-----------------------------------------------------------------------------
(* The lap of the ring: whose events the tasklet meets.                    *)

(* What the modulo of the ring comes to.                                   *)
LEMMA RingSums ==
  /\ \A p \in Slots : /\ Pred(p) = IF p = 0 THEN RingSize - 1 ELSE p - 1
                      /\ Succ(p) = IF p = RingSize - 1 THEN 0 ELSE p + 1
                      /\ Succ(Pred(p)) = p
                      /\ Pred(p) # p
  /\ \A x \in 0 .. 2 * RingSize - 1 : x % RingSize = IF x < RingSize THEN x ELSE x - RingSize
<1>1. ASSUME NEW x \in 0 .. 2 * RingSize - 1
      PROVE  x % RingSize = IF x < RingSize THEN x ELSE x - RingSize
  <2>1. CASE x < RingSize
    BY <2>1, RingAssumption
  <2>2. CASE x >= RingSize
    BY <2>2, RingAssumption
  <2> QED
    BY <2>1, <2>2, RingAssumption
<1>2. \A p \in Slots : p + 1 \in 0 .. 2 * RingSize - 1 /\ p + RingSize - 1 \in 0 .. 2 * RingSize - 1
  BY RingAssumption DEF Slots
<1>3. \A p \in Slots : /\ Pred(p) = IF p = 0 THEN RingSize - 1 ELSE p - 1
                       /\ Succ(p) = IF p = RingSize - 1 THEN 0 ELSE p + 1
  BY <1>1, <1>2, RingAssumption DEF Slots, Pred, Succ
<1> QED
  BY <1>1, <1>3, SlotsClosed, RingAssumption DEF Slots

(* Less than a lap later, neither TRE of an older descriptor is the        *)
(* terminal TRE of the newest one.                                         *)
LEMMA OtherTre ==
  ASSUME NEW q \in Slots, NEW w \in Slots, NEW j \in Nat, j > 0, 3 * j < RingSize,
         w = q + 3 * j \/ w = q + 3 * j - RingSize, NEW p, p = q \/ p = Pred(q)
  PROVE  p # Pred(w)
BY RingSums, RingAssumption DEF Slots

(* The hypothesis of the theorems below: no transfer event of the TX       *)
(* channel, unread or still owed by the hardware, is so old that the ring  *)
(* has come round to its TREs.                                             *)
InLap ==
  chan["TX"] = "active" =>
    \A e \in late \cup {evq[i] : i \in DOMAIN evq} :
       e.type = "xfer" /\ e.ch = "TX" => Tres["TX"] * (n - e.of) < RingSize

(* Words: a channel that is not being terminated; the channel whose        *)
(* callback has run; the last descriptor of its list; that descriptor is   *)
(* the one of the call in progress and has not been answered.              *)
Active(ch) == chan[ch] = "active"
Leaving(ch) == pcK = "retire" /\ retiring.ch = ch
Newest(ch) == issued[ch][Len(issued[ch])]
InHand(ch) == issued[ch] # << >> /\ Newest(ch).of = n /\ ~(Leaving(ch) /\ retiring.of = n)
About(e, ch) == e.type = "xfer" /\ e.ch = ch
Terminal(e) == e.code \in {"EOT", "ERR"}

(* A channel after its reset: nothing listed, given, unread or owed.       *)
Clean(ch) ==
  /\ issued[ch] = << >> /\ hw[ch] = << >> /\ rp[ch] = wp[ch]
  /\ \A i \in DOMAIN evq : ~About(evq[i], ch)
  /\ ch = "TX" => late = {}

(* Where gpi_terminate_all is, and what it has left behind.                *)
PhaseInv ==
  /\ pcC \notin {"stop", "reset", "start"} => ti = "TX"
  /\ pcC = "stop" /\ ti = "TX" => slot = NoSlot
  /\ pcC = "stop" /\ ti = "RX" => chan["TX"] = "prepare"
  /\ pcC = "reset" => \A ch \in Chan : chan[ch] = "prepare"
  /\ pcC = "reset" /\ ti = "RX" => Clean("TX")
  /\ pcC = "start" => chan["RX"] = "prepare" /\ Clean("RX") /\ Clean("TX")
  /\ pcC = "start" /\ ti = "TX" => chan["TX"] = "prepare"

(* A descriptor in hand ends at the write pointer, has not been answered   *)
(* and belongs to a call that is issuing or waiting.                       *)
InHandInv ==
  \A ch \in Chan : Active(ch) /\ InHand(ch) =>
    /\ Newest(ch).db = wp[ch] /\ outcome[ch] = "none"
    /\ pcC \notin {"idle", "issue_rx", "reset", "start"}
    /\ ch = "TX" => pcC # "issue_tx"
    /\ ch = "RX" => kind = "pair"

(* The list of a channel: nothing or the call in progress, behind the      *)
(* descriptor that is about to be unlinked.                                *)
ListInv ==
  \A ch \in Chan : Active(ch) =>
    /\ ~Leaving(ch) => issued[ch] = << >> \/ (Len(issued[ch]) = 1 /\ issued[ch][1].of = n)
    /\ Leaving(ch) =>
         /\ issued[ch] # << >> /\ issued[ch][1].of = retiring.of
         /\ \/ Len(issued[ch]) = 1
            \/ Len(issued[ch]) = 2 /\ issued[ch][2].of = n /\ retiring.of < n

(* What is retired: never of a later call; the tasklet leaves with no      *)
(* descriptor deferred, so that it needs no further wakeup.                *)
RetiringInv ==
  pcK = "retire" => /\ Active(retiring.ch) /\ retiring.of <= n
                    /\ retiring.next = "leave" => slot = NoSlot

(* Before a descriptor is issued nothing of its call can have been         *)
(* answered.                                                               *)
IssueInv ==
  /\ pcC = "issue_rx" => kind = "pair" /\ \A ch \in Chan : outcome[ch] = "none"
  /\ pcC = "issue_tx" => outcome["TX"] = "none"
  /\ pcK = "retire" /\ (pcC = "issue_rx" \/ (pcC = "issue_tx" /\ retiring.ch = "TX")) =>
       retiring.of < n

(* A write uses the TX channel only.                                       *)
WriteInv == kind = "write" => outcome["RX"] = "none"

(* What is deferred is the call in progress, done by the hardware.         *)
SlotInv ==
  slot # NoSlot => /\ Active("TX") /\ InHand("TX") /\ slot.of = n /\ hw["TX"] = << >>
                   /\ rp["TX"] = wp["TX"]

(* What the hardware works on is the call in progress, of whose end there  *)
(* is no event yet.                                                        *)
HwInv ==
  \A ch \in Chan : Active(ch) /\ hw[ch] # << >> =>
    /\ Len(hw[ch]) = 1 /\ hw[ch][1].of = n /\ hw[ch][1].db = wp[ch]
    /\ InHand(ch)
    /\ \A i \in DOMAIN evq : About(evq[i], ch) /\ Terminal(evq[i]) => evq[i].of # n
    /\ ch = "TX" => \A e \in late : e.type = "xfer" => e.of # n

(* There is at most one event of the RX channel, the end of the call in    *)
(* progress: only a TX is told of twice.                                   *)
RxInv ==
  Active("RX") =>
    \A i \in DOMAIN evq : About(evq[i], "RX") =>
      /\ evq[i].of = n /\ Terminal(evq[i])
      /\ evq[i].code = "EOT" => evq[i].ptr = Pred(wp["RX"])
      /\ evq[i].code = "ERR" => ~evq[i].ok
      /\ InHand("RX") /\ hw["RX"] = << >>
      /\ \A j \in DOMAIN evq : About(evq[j], "RX") => j = i

(* An EOT of call e.of is at one of the two TREs around the write pointer  *)
(* of that call, q, and j descriptors have been issued since.              *)
Near(e) ==
  \E j \in 0 .. n - e.of, q \in Slots :
    /\ wp["TX"] = q + 3 * j \/ wp["TX"] = q + 3 * j - RingSize
    /\ e.ptr = q \/ e.ptr = Pred(q)
    /\ pcC \in {"issue_rx", "issue_tx"} => j < n - e.of
    /\ InHand("TX") /\ e.of < n => j > 0

(* What the hardware owes.                                                 *)
LateInv ==
  \A e \in late :
    /\ e.ch = "TX"
    /\ Active("TX") => e.of <= n /\ (e.type = "xfer" => e.code = "EOT" /\ Near(e))

(* The unread events of the TX channel.                                    *)
TxInv ==
  Active("TX") =>
    \A i \in DOMAIN evq : About(evq[i], "TX") =>
      /\ evq[i].of <= n /\ evq[i].code \in {"EOB", "EOT", "ERR"}
      /\ evq[i].code = "EOT" => Near(evq[i])
      /\ evq[i].code = "EOB" => InHand("TX") /\ slot = NoSlot /\ evq[i].of = n

(* An error is the end of the call in progress, which is not answered by   *)
(* anything else.                                                          *)
ErrInv ==
  Active("TX") =>
    \A i \in DOMAIN evq : About(evq[i], "TX") /\ evq[i].code = "ERR" =>
      /\ evq[i].of = n /\ ~evq[i].ok /\ slot = NoSlot /\ hw["TX"] = << >>
      /\ outcome["TX"] # "ok" /\ pcC \notin {"idle", "issue_rx", "issue_tx"}
      /\ \A e \in late : e.type = "xfer" => e.of # n
      /\ \A j \in DOMAIN evq : About(evq[j], "TX") /\ evq[j].code = "EOT" => evq[j].of # n

(* No EOB comes behind the end of its descriptor.                          *)
OrderInv ==
  Active("TX") =>
    \A i, j \in DOMAIN evq :
      (i < j /\ About(evq[i], "TX") /\ Terminal(evq[i]) /\ evq[i].of = n /\ About(evq[j], "TX"))
        => evq[j].code # "EOB"

(* With nothing in hand the read pointer has caught up with the write      *)
(* pointer, or the call has failed and will terminate the channels.        *)
RpInv ==
  \A ch \in Chan : Active(ch) /\ ~InHand(ch) =>
    \/ rp[ch] = wp[ch]
    \/ outcome[ch] = "bad" /\ pcC \notin {"idle", "issue_rx", "start"}

OwnInv == /\ PhaseInv /\ InHandInv /\ ListInv /\ RetiringInv /\ WriteInv /\ SlotInv /\ HwInv
          /\ RxInv /\ LateInv /\ TxInv /\ ErrInv /\ OrderInv /\ RpInv /\ RoomToIssue
          /\ DeferredHasWakeup /\ IssueInv

-----------------------------------------------------------------------------
(* Steps that change little.                                               *)

(* The head of a list is the call in progress, but while the tasklet is    *)
(* retiring.                                                               *)
LEMMA ListShape ==
  ASSUME TypeInv, ListInv, NEW ch \in Chan, Active(ch), ~Leaving(ch), issued[ch] # << >>
  PROVE  /\ Head(issued[ch]) = Newest(ch) /\ Head(issued[ch]).of = n /\ InHand(ch)
         /\ Len(issued[ch]) = 1
<1>1. issued[ch] \in Seq(Descriptor)
  BY DEF TypeInv, RingType
<1> QED
  BY <1>1 DEF ListInv, Newest, InHand

(* What a step that leaves the lists alone leaves in hand.                 *)
SameHand == \A ch \in Chan : (InHand(ch)' <=> InHand(ch)) /\ (Leaving(ch)' <=> Leaving(ch))

(* A step that leaves the lists alone and does not retire keeps all        *)
(* hands.                                                                  *)
LEMMA HandKept ==
  ASSUME UNCHANGED <<issued, n>>,
         UNCHANGED <<pcK, retiring>> \/ (pcK # "retire" /\ pcK' # "retire")
  PROVE  SameHand /\ \A ch \in Chan : Newest(ch)' = Newest(ch)
BY DEF SameHand, InHand, Leaving, Newest

(* Near, while the write pointer stays.                                    *)
LEMMA NearKept ==
  ASSUME UNCHANGED <<n, wp>>, InHand("TX")' => InHand("TX"),
         pcC' \in {"issue_rx", "issue_tx"} => pcC \in {"issue_rx", "issue_tx"}
  PROVE  \A e : Near(e) => Near(e)'
BY DEF Near

(* Steps that change neither the call nor a ring, a list or the events.    *)
LEMMA OwnStill ==
  ASSUME OwnInv, UNCHANGED <<client, rings, slot, evq, hw, late>>,
         UNCHANGED <<pcK, retiring>> \/ (pcK # "retire" /\ pcK' # "retire"),
         DeferredHasWakeup'
  PROVE  OwnInv'
<1> USE DEF OwnInv
<1>0. "TX" \in Chan /\ "RX" \in Chan
  BY DEF Chan
<1>1. SameHand /\ \A ch \in Chan : Newest(ch)' = Newest(ch)
  BY HandKept
<1>2. \A e : Near(e) => Near(e)'
  BY <1>0, <1>1, NearKept DEF SameHand
<1>3. \A ch : Active(ch)' <=> Active(ch)
  BY DEF Active
<1>4. PhaseInv'
  BY DEF PhaseInv, Clean, Active, About
<1>5. InHandInv' /\ WriteInv' /\ IssueInv'
  BY <1>1, <1>3 DEF InHandInv, SameHand, WriteInv, IssueInv
<1>6. ListInv'
  BY <1>1, <1>3 DEF ListInv, SameHand, Leaving
<1>7. RetiringInv' /\ SlotInv'
  BY <1>0, <1>1, <1>3 DEF RetiringInv, SlotInv, SameHand, Active
<1>8. HwInv' /\ RxInv'
  BY <1>0, <1>1, <1>3 DEF HwInv, RxInv, SameHand, About, Terminal
<1>9. LateInv' /\ TxInv' /\ ErrInv' /\ OrderInv'
  BY <1>0, <1>1, <1>2, <1>3 DEF LateInv, TxInv, ErrInv, OrderInv, SameHand, About, Terminal
<1>10. RpInv' /\ RoomToIssue'
  BY <1>1, <1>3 DEF RpInv, RoomToIssue, SameHand, Avail
<1> QED
  BY <1>4, <1>5, <1>6, <1>7, <1>8, <1>9, <1>10

(* The interrupt, the timer and the tasklet between two events.            *)
LEMMA OwnQuiet ==
  ASSUME TypeInv, OwnInv,
         Irq \/ Timer \/ TkStart \/ TkClear \/ TkReread \/ UNCHANGED vars
  PROVE  OwnInv'
<1>1. /\ UNCHANGED <<client, rings, slot, evq, hw, late>>
      /\ UNCHANGED <<pcK, retiring>> \/ (pcK # "retire" /\ pcK' # "retire")
  BY DEF Irq, Timer, TimerRead, TimerWrite, TkStart, TkClear, TkReread, vars
<1>3. DeferredHasWakeup'
  <2>1. CASE Irq
    BY <2>1 DEF Irq, OwnInv, DeferredHasWakeup
  <2>2. CASE Timer
    BY <2>2 DEF Timer, TimerRead, TimerWrite, OwnInv, DeferredHasWakeup
  <2>3. CASE TkStart \/ TkClear \/ TkReread
    BY <2>3 DEF TkStart, TkClear, TkReread, OwnInv, DeferredHasWakeup
  <2>4. CASE UNCHANGED vars
    BY <2>4 DEF vars, OwnInv, DeferredHasWakeup
  <2> QED
    BY <2>1, <2>2, <2>3, <2>4
<1> QED
  BY <1>1, <1>3, OwnStill

(* An event that is delivered comes last.                                  *)
LEMMA DeliverShape ==
  ASSUME EventType, NEW e, Deliver(e)
  PROVE  /\ Len(evq) \in Nat /\ DOMAIN evq = 1 .. Len(evq) /\ DOMAIN evq' = 1 .. Len(evq) + 1
         /\ evq'[Len(evq) + 1] = e
         /\ \A i \in DOMAIN evq : i \in DOMAIN evq' /\ evq'[i] = evq[i] /\ i < Len(evq) + 1
         /\ \A i \in DOMAIN evq' : i \in DOMAIN evq \/ i = Len(evq) + 1
BY DEF EventType, Deliver

(* What the hardware may say, and how it goes on.                          *)
Sound(e) ==
  /\ About(e, "RX") /\ Active("RX") =>
       /\ e.of = n /\ Terminal(e)
       /\ e.code = "EOT" => e.ptr = Pred(wp["RX"])
       /\ e.code = "ERR" => ~e.ok
       /\ InHand("RX") /\ \A j \in DOMAIN evq : ~About(evq[j], "RX")
  /\ About(e, "TX") /\ Active("TX") =>
       /\ e.of <= n /\ e.code \in {"EOB", "EOT", "ERR"}
       /\ e.code = "EOT" => Near(e)
       /\ e.code = "EOB" =>
            /\ InHand("TX") /\ slot = NoSlot /\ e.of = n
            /\ \A i \in DOMAIN evq : About(evq[i], "TX") /\ Terminal(evq[i]) => evq[i].of # n
       /\ e.code = "ERR" =>
            /\ e.of = n /\ ~e.ok /\ slot = NoSlot /\ outcome["TX"] # "ok"
            /\ pcC \notin {"idle", "issue_rx", "issue_tx"}
            /\ \A j \in DOMAIN evq : About(evq[j], "TX") /\ evq[j].code = "EOT" => evq[j].of # n
       /\ e.code = "EOT" /\ e.of = n =>
            \A i \in DOMAIN evq : About(evq[i], "TX") => evq[i].code # "ERR"

GoesOn(e) ==
  /\ \A ch \in Chan : hw'[ch] # << >> => hw[ch] # << >>
  /\ \A ch \in Chan : Active(ch) /\ hw'[ch] # << >> =>
       /\ Len(hw'[ch]) = Len(hw[ch])
       /\ hw'[ch][1].of = hw[ch][1].of /\ hw'[ch][1].db = hw[ch][1].db
       /\ About(e, ch) /\ Terminal(e) => e.of # n
       /\ ch = "TX" => \A x \in late' : x.type = "xfer" => x.of # n
  /\ \A x \in late' :
       /\ x.ch = "TX"
       /\ Active("TX") => x.of <= n /\ (x.type = "xfer" => x.code = "EOT" /\ Near(x))
  /\ (Active("TX") /\ \E i \in DOMAIN evq' : About(evq'[i], "TX") /\ evq'[i].code = "ERR") =>
       hw'["TX"] = << >> /\ \A x \in late' : x.type = "xfer" => x.of # n
  /\ Active("RX") /\ About(e, "RX") => hw'["RX"] = << >>
  /\ \A ch \in Chan : Clean(ch) => ~About(e, ch) /\ hw'[ch] = << >> /\ (ch = "TX" => late' = {})

(* An event that is sound, from hardware that goes on as it should, keeps  *)
(* the invariant.                                                          *)
LEMMA OwnDelivered ==
  ASSUME TypeInv, OwnInv, NEW e, Deliver(e), Sound(e), GoesOn(e),
         UNCHANGED <<client, rings, deferral, tasklet>>
  PROVE  OwnInv'
<1> USE DEF OwnInv
<1>0. "TX" \in Chan /\ "RX" \in Chan
  BY DEF Chan
<1>1. SameHand /\ \A ch \in Chan : Newest(ch)' = Newest(ch)
  BY HandKept
<1>2. \A x : Near(x) => Near(x)'
  BY <1>0, <1>1, NearKept DEF SameHand
<1>3. \A ch : Active(ch)' <=> Active(ch)
  BY DEF Active
<1> DEFINE k == Len(evq) + 1
<1>4. /\ DOMAIN evq = 1 .. Len(evq) /\ DOMAIN evq' = 1 .. k /\ evq'[k] = e /\ k \in DOMAIN evq'
      /\ \A i \in DOMAIN evq : i \in DOMAIN evq' /\ evq'[i] = evq[i] /\ i < k
      /\ \A i \in DOMAIN evq' : i \in DOMAIN evq \/ i = k
      /\ k \notin DOMAIN evq /\ k \in Nat
  BY DeliverShape DEF TypeInv
<1> HIDE DEF k
<1>5. PhaseInv'
  <2>1. \A ch \in Chan : Clean(ch) => Clean(ch)'
    BY <1>4 DEF Clean, GoesOn, About
  <2> QED
    BY <1>0, <2>1 DEF PhaseInv
<1>6. InHandInv' /\ WriteInv' /\ IssueInv'
  BY <1>1, <1>3 DEF InHandInv, SameHand, WriteInv, IssueInv
<1>7. ListInv'
  BY <1>1, <1>3 DEF ListInv, SameHand, Leaving
<1>8. RetiringInv' /\ SlotInv'
  BY <1>0, <1>1, <1>3 DEF RetiringInv, SlotInv, SameHand, Active, GoesOn
<1>9. HwInv'
  <2>1. ASSUME NEW ch \in Chan, Active(ch)', hw'[ch] # << >>
        PROVE  /\ Len(hw'[ch]) = 1 /\ hw'[ch][1].of = n' /\ hw'[ch][1].db = wp'[ch]
               /\ InHand(ch)'
               /\ \A i \in DOMAIN evq' : About(evq'[i], ch) /\ Terminal(evq'[i]) => evq'[i].of # n'
               /\ ch = "TX" => \A x \in late' : x.type = "xfer" => x.of # n'
    BY <1>1, <1>3, <1>4, <2>1 DEF HwInv, GoesOn, SameHand
  <2> QED
    BY <2>1 DEF HwInv, About, Terminal
<1>10. RxInv'
  <2>1. ASSUME Active("RX"), NEW i \in DOMAIN evq', About(evq'[i], "RX")
        PROVE  /\ evq'[i].of = n' /\ Terminal(evq'[i])
               /\ evq'[i].code = "EOT" => evq'[i].ptr = Pred(wp'["RX"])
               /\ evq'[i].code = "ERR" => ~evq'[i].ok
               /\ InHand("RX")' /\ hw'["RX"] = << >>
               /\ \A j \in DOMAIN evq' : About(evq'[j], "RX") => j = i
    <3>1. CASE i = k
      BY <1>0, <1>1, <1>4, <2>1, <3>1 DEF Sound, GoesOn, SameHand
    <3>2. CASE i \in DOMAIN evq
      <4>1. RxInv /\ evq'[i] = evq[i] /\ ~About(e, "RX")
        BY <1>4, <2>1, <3>2 DEF Sound
      <4>2. hw'["RX"] = << >>
        BY <1>0, <2>1, <3>2, <4>1 DEF RxInv, GoesOn
      <4> QED
        BY <1>0, <1>1, <1>4, <2>1, <3>2, <4>1, <4>2 DEF RxInv, SameHand
    <3> QED
      BY <1>4, <3>1, <3>2
  <2> QED
    BY <1>3, <2>1 DEF RxInv, About, Terminal
<1>11. LateInv'
  BY <1>2, <1>3 DEF LateInv, GoesOn
<1>12. TxInv'
  <2>1. ASSUME Active("TX"), NEW i \in DOMAIN evq', About(evq'[i], "TX")
        PROVE  /\ evq'[i].of <= n' /\ evq'[i].code \in {"EOB", "EOT", "ERR"}
               /\ evq'[i].code = "EOT" => Near(evq'[i])
               /\ evq'[i].code = "EOB" => InHand("TX")' /\ slot' = NoSlot /\ evq'[i].of = n'
    BY <1>0, <1>1, <1>4, <2>1 DEF TxInv, Sound, SameHand
  <2> QED
    BY <1>2, <1>3, <2>1 DEF TxInv, About
<1>13. ErrInv'
  <2>1. ASSUME Active("TX"), NEW i \in DOMAIN evq', About(evq'[i], "TX"), evq'[i].code = "ERR"
        PROVE  /\ evq'[i].of = n' /\ ~evq'[i].ok /\ slot' = NoSlot /\ hw'["TX"] = << >>
               /\ outcome'["TX"] # "ok" /\ pcC' \notin {"idle", "issue_rx", "issue_tx"}
               /\ \A x \in late' : x.type = "xfer" => x.of # n'
               /\ \A j \in DOMAIN evq' :
                    About(evq'[j], "TX") /\ evq'[j].code = "EOT" => evq'[j].of # n'
    BY <1>4, <2>1 DEF ErrInv, Sound, GoesOn
  <2> QED
    BY <1>3, <2>1 DEF ErrInv, About
<1>14. OrderInv'
  <2>1. ASSUME Active("TX"), NEW i \in DOMAIN evq', NEW j \in DOMAIN evq', i < j,
               About(evq'[i], "TX"), Terminal(evq'[i]), evq'[i].of = n', About(evq'[j], "TX")
        PROVE  evq'[j].code # "EOB"
    BY <1>4, <2>1 DEF OrderInv, Sound
  <2> QED
    BY <1>3, <2>1 DEF OrderInv, About, Terminal
<1>15. RpInv' /\ RoomToIssue' /\ DeferredHasWakeup'
  BY <1>1, <1>3 DEF RpInv, RoomToIssue, SameHand, Avail, DeferredHasWakeup
<1> QED
  BY <1>5, <1>6, <1>7, <1>8, <1>9, <1>10, <1>11, <1>12, <1>13, <1>14, <1>15

(* What is in the hardware of an active channel is the call in progress,   *)
(* and its end has not been told.                                          *)
LEMMA GivenOwn ==
  ASSUME TypeInv, OwnInv, NEW ch \in Chan, hw[ch] # << >>
  PROVE  /\ Head(hw[ch]) = hw[ch][1] /\ hw[ch][1] \in Given /\ n \in Nat /\ wp[ch] \in Slots
         /\ ~Clean(ch)
         /\ Active(ch) =>
              /\ hw[ch][1].of = n /\ hw[ch][1].db = wp[ch] /\ Tail(hw[ch]) = << >>
              /\ InHand(ch) /\ outcome[ch] = "none"
              /\ pcC \notin {"idle", "issue_rx", "reset", "start"}
              /\ ch = "TX" => pcC # "issue_tx"
<1>1. hw[ch] \in Seq(Given) /\ n \in Nat /\ wp[ch] \in Slots
  BY BoundAssumption DEF TypeInv, HardwareType, ClientType, RingType
<1>2. Head(hw[ch]) = hw[ch][1] /\ hw[ch][1] \in Given
  BY <1>1
<1>3. ASSUME Active(ch)
      PROVE  /\ Len(hw[ch]) = 1 /\ hw[ch][1].of = n /\ hw[ch][1].db = wp[ch] /\ InHand(ch)
  BY <1>3 DEF OwnInv, HwInv
<1>4. ASSUME Active(ch)
      PROVE  Tail(hw[ch]) = << >>
  <2>1. Tail(hw[ch]) \in Seq(Given) /\ Len(Tail(hw[ch])) = 0
    BY <1>1, <1>3, <1>4
  <2> QED
    BY <2>1, EmptySeq
<1> QED
  BY <1>1, <1>2, <1>3, <1>4 DEF OwnInv, InHandInv, Clean

(* A TX in the hardware is not deferred, and nothing of it is owed.        *)
LEMMA GivenTx ==
  ASSUME TypeInv, OwnInv, Active("TX"), hw["TX"] # << >>
  PROVE  /\ slot = NoSlot
         /\ \A i \in DOMAIN evq : About(evq[i], "TX") =>
              evq[i].code # "ERR" /\ (Terminal(evq[i]) => evq[i].of # n)
         /\ \A e \in late : e.type = "xfer" => e.of # n
BY DEF OwnInv, SlotInv, ErrInv, HwInv, Chan

(* An RX in the hardware has not been told of.                             *)
LEMMA GivenRx ==
  ASSUME TypeInv, OwnInv, Active("RX"), hw["RX"] # << >>
  PROVE  \A i \in DOMAIN evq : ~About(evq[i], "RX")
BY DEF OwnInv, RxInv

(* The events of the newest descriptor are near.                           *)
LEMMA NearOwn ==
  ASSUME TypeInv, NEW e, e.of = n, e.ptr \in {wp["TX"], Pred(wp["TX"])},
         pcC \notin {"issue_rx", "issue_tx"}
  PROVE  Near(e)
<1>1. n \in Nat /\ wp["TX"] \in Slots
  BY BoundAssumption DEF TypeInv, ClientType, RingType, Chan
<1>2. 0 \in 0 .. n - e.of /\ wp["TX"] = wp["TX"] + 3 * 0
  BY <1>1 DEF Slots
<1> QED
  BY <1>1, <1>2 DEF Near

(* The four things the hardware does.                                      *)
LEMMA OwnHwEob ==
  ASSUME TypeInv, OwnInv, HwEob
  PROVE  OwnInv'
<1> DEFINE d == hw["TX"][1]
<1>0. "TX" \in Chan /\ "RX" \in Chan /\ hw["TX"] # << >>
  BY DEF HwEob, Chan
<1>1. d \in Given /\ Head(hw["TX"]) = d
  BY <1>0, GivenOwn
<1>2. PICK tre : /\ tre \in Int
                 /\ Deliver(Event("xfer", "TX", "EOB",
                          (d.db + RingSize - Tres["TX"] + tre) % RingSize, d.of, TRUE))
                 /\ hw' = [hw EXCEPT !["TX"][1].tre = tre + 1]
  <2>1. d.tre \in 0 .. 2 /\ Tres["TX"] = 3
    BY <1>0, <1>1 DEF Given, Tres
  <2>2. \A tre \in d.tre .. Tres["TX"] - 2 : tre \in Int
    BY <2>1
  <2> QED
    BY <1>1, <2>2 DEF HwEob
<1> DEFINE ptr == (d.db + RingSize - Tres["TX"] + tre) % RingSize
<1> HIDE DEF ptr
<1> DEFINE e == Event("xfer", "TX", "EOB", ptr, d.of, TRUE)
<1>3. /\ e.type = "xfer" /\ e.ch = "TX" /\ e.code = "EOB" /\ e.of = d.of
      /\ Deliver(e) /\ UNCHANGED <<client, rings, deferral, tasklet, late>>
  BY <1>2 DEF Event, HwEob, ptr
<1>4. /\ hw'["RX"] = hw["RX"] /\ hw'["TX"] # << >> /\ Len(hw'["TX"]) = Len(hw["TX"])
      /\ hw'["TX"][1].of = d.of /\ hw'["TX"][1].db = d.db
  <2>1. hw \in [Chan -> Seq(Given)]
    BY DEF TypeInv, HardwareType
  <2>2. hw' = [hw EXCEPT !["TX"] = [hw["TX"] EXCEPT ![1] = [d EXCEPT !.tre = tre + 1]]]
    BY <1>0, <1>1, <1>2, <2>1
  <2>3. [d EXCEPT !.tre = tre + 1].of = d.of /\ [d EXCEPT !.tre = tre + 1].db = d.db
    BY <1>1 DEF Given
  <2>4. hw["TX"] \in Seq(Given) /\ 1 \in DOMAIN hw["TX"]
    BY <1>0, <2>1
  <2> QED
    BY <1>0, <2>1, <2>2, <2>3, <2>4
<1> HIDE DEF e, d
<1>5. Sound(e)
  BY <1>0, <1>1, <1>3, GivenOwn, GivenTx DEF Sound, About, Terminal, d
<1>6. GoesOn(e)
  <2>1. \A i \in DOMAIN evq' : Active("TX") /\ About(evq'[i], "TX") => evq'[i].code # "ERR"
    BY <1>0, <1>3, GivenTx, DeliverShape DEF TypeInv, About
  <2>2. \A ch \in Chan : Clean(ch) => ~About(e, ch) /\ hw'[ch] = << >> /\ (ch = "TX" => late' = {})
    BY <1>0, <1>3, <1>4, GivenOwn DEF Clean, About, Chan
  <2>3. \A ch \in Chan :
          /\ hw'[ch] # << >> => hw[ch] # << >>
          /\ Len(hw'[ch]) = Len(hw[ch])
          /\ hw'[ch][1].of = hw[ch][1].of /\ hw'[ch][1].db = hw[ch][1].db
    BY <1>0, <1>4 DEF Chan, d
  <2> QED
    BY <1>0, <1>3, <2>1, <2>2, <2>3, GivenTx DEF GoesOn, About, Terminal, OwnInv, LateInv
<1> QED
  BY <1>3, <1>5, <1>6, OwnDelivered

(* The end of a descriptor: an EOT or an error.                            *)
LEMMA OwnHwEnd ==
  ASSUME TypeInv, OwnInv, NEW ch \in Chan, hw[ch] # << >>, NEW e,
         e.type = "xfer", e.ch = ch, Terminal(e), e.of = Head(hw[ch]).of,
         e.code = "EOT" => e.ptr = Pred(Head(hw[ch]).db), e.code = "ERR" => ~e.ok,
         Deliver(e), hw' = [hw EXCEPT ![ch] = Tail(@)],
         UNCHANGED <<client, rings, deferral, tasklet>>,
         late' = late \/ (ch = "TX" /\ e.code = "EOT"
                            /\ \E owed \in SUBSET Aftermath(Head(hw[ch])) : late' = late \cup owed)
  PROVE  OwnInv'
<1> DEFINE d == hw[ch][1]
<1>0. "TX" \in Chan /\ "RX" \in Chan
  BY DEF Chan
<1>1. /\ d \in Given /\ Head(hw[ch]) = d /\ n \in Nat /\ ~Clean(ch)
      /\ Active(ch) =>
           /\ d.of = n /\ d.db = wp[ch] /\ Tail(hw[ch]) = << >>
           /\ InHand(ch) /\ outcome[ch] = "none"
           /\ pcC \notin {"idle", "issue_rx", "reset", "start"}
           /\ ch = "TX" => pcC # "issue_tx"
  BY GivenOwn
<1> HIDE DEF d
<1>2. /\ \A c \in Chan : c # ch => hw'[c] = hw[c]
      /\ Active(ch) => hw'[ch] = << >>
  BY <1>1 DEF TypeInv, HardwareType
<1>3. Sound(e)
  <2>1. ASSUME ch = "RX", Active("RX")
        PROVE  /\ e.of = n /\ (e.code = "EOT" => e.ptr = Pred(wp["RX"]))
               /\ InHand("RX") /\ \A j \in DOMAIN evq : ~About(evq[j], "RX")
    BY <1>1, <2>1, GivenRx
  <2>2. ASSUME ch = "TX", Active("TX")
        PROVE  /\ e.of = n /\ e.code = "EOT" => Near(e)
               /\ slot = NoSlot /\ outcome["TX"] # "ok"
               /\ pcC \notin {"idle", "issue_rx", "issue_tx"}
               /\ \A j \in DOMAIN evq : About(evq[j], "TX") =>
                    evq[j].code # "ERR" /\ (Terminal(evq[j]) => evq[j].of # n)
    <3>1. e.code = "EOT" => Near(e)
      BY <1>1, <2>2, NearOwn
    <3> QED
      BY <1>1, <2>2, <3>1, GivenTx
  <2>3. n <= n
    BY <1>1
  <2> QED
    BY <1>1, <2>1, <2>2, <2>3 DEF Sound, About, Terminal
<1>4. ASSUME NEW x \in late'
      PROVE  /\ x.ch = "TX"
             /\ Active("TX") => x.of <= n /\ (x.type = "xfer" => x.code = "EOT" /\ Near(x))
  <2>1. CASE x \in late
    BY <2>1 DEF OwnInv, LateInv
  <2>2. CASE ch = "TX" /\ x \in Aftermath(d)
    <3>1. x.ch = "TX" /\ x.of = d.of /\ (x.type = "xfer" => x.code = "EOT")
          /\ (x.type = "xfer" => x.ptr = d.db \/ x.ptr = Pred(d.db))
      BY <2>2 DEF Aftermath, Event
    <3>2. Active("TX") =>
            d.of = n /\ d.db = wp["TX"] /\ pcC \notin {"issue_rx", "issue_tx"}
      BY <1>1, <2>2
    <3>3. Active("TX") /\ x.type = "xfer" => Near(x)
      BY <3>1, <3>2, NearOwn
    <3> QED
      BY <1>1, <3>1, <3>2, <3>3
  <2> QED
    BY <1>1, <2>1, <2>2
<1>5. GoesOn(e)
  <2>1. \A c \in Chan : Clean(c) => ~About(e, c) /\ hw'[c] = << >> /\ (c = "TX" => late' = {})
    BY <1>1, <1>2 DEF Clean, About
  <2>2. \A c \in Chan : hw'[c] # << >> => hw[c] # << >>
    BY <1>2
  <2>3. ASSUME NEW c \in Chan, Active(c), hw'[c] # << >>
        PROVE  /\ c # ch /\ hw'[c] = hw[c]
               /\ c = "TX" => late' = late /\ \A x \in late : x.type = "xfer" => x.of # n
    BY <1>2, <2>2, <2>3, GivenTx
  <2>4. ASSUME Active("TX"), NEW i \in DOMAIN evq', About(evq'[i], "TX"), evq'[i].code = "ERR"
        PROVE  hw'["TX"] = << >> /\ \A x \in late' : x.type = "xfer" => x.of # n
    <3>1. CASE ch = "TX"
      <4>1. evq'[i] = e
        BY <2>4, <3>1, GivenTx, DeliverShape DEF TypeInv
      <4>2. late' = late
        BY <2>4, <4>1, Zenon
      <4> QED
        BY <1>2, <2>4, <3>1, <4>2, GivenTx
    <3>2. CASE ch # "TX"
      <4>1. late' = late /\ hw'["TX"] = hw["TX"]
        BY <1>0, <1>2, <3>2
      <4>2. i \in DOMAIN evq /\ evq'[i] = evq[i]
        BY <2>4, <3>2, DeliverShape DEF TypeInv, About
      <4> QED
        BY <2>4, <4>1, <4>2 DEF OwnInv, ErrInv
    <3> QED
      BY <3>1, <3>2
  <2>5. Active("RX") /\ About(e, "RX") => hw'["RX"] = << >>
    BY <1>2 DEF About
  <2>6. \A c \in Chan : Active(c) /\ hw'[c] # << >> => ~About(e, c)
    BY <2>3 DEF About
  <2> QED
    BY <1>4, <2>1, <2>2, <2>3, <2>4, <2>5, <2>6 DEF GoesOn
<1> QED
  BY <1>3, <1>5, OwnDelivered

LEMMA OwnHwLate ==
  ASSUME TypeInv, OwnInv, NEW e \in late, HwLate(e)
  PROVE  OwnInv'
<1>0. "TX" \in Chan /\ "RX" \in Chan
  BY DEF Chan
<1>1. Deliver(e) /\ late' \subseteq late /\ UNCHANGED <<client, rings, deferral, tasklet, hw>>
  BY DEF HwLate
<1>2. /\ e.ch = "TX"
      /\ Active("TX") => e.of <= n /\ (e.type = "xfer" => e.code = "EOT" /\ Near(e))
  BY DEF OwnInv, LateInv
<1>3. ~About(e, "RX")
  BY <1>2 DEF About
<1>4. Sound(e)
  <2>1. ASSUME Active("TX"), About(e, "TX"), e.of = n, NEW i \in DOMAIN evq, About(evq[i], "TX")
        PROVE  evq[i].code # "ERR"
    BY <2>1 DEF OwnInv, ErrInv, About
  <2> QED
    BY <1>2, <1>3, <2>1 DEF Sound, About
<1>5. GoesOn(e)
  <2>1. \A ch \in Chan : Clean(ch) => ~About(e, ch) /\ hw'[ch] = << >> /\ (ch = "TX" => late' = {})
    BY <1>1, <1>3 DEF Clean, Chan
  <2>2. ASSUME NEW ch \in Chan, Active(ch), hw'[ch] # << >>
        PROVE  /\ About(e, ch) /\ Terminal(e) => e.of # n
               /\ ch = "TX" => \A x \in late' : x.type = "xfer" => x.of # n
    BY <1>0, <1>1, <1>3, <2>2, GivenTx DEF About, Chan
  <2>3. ASSUME Active("TX"), NEW i \in DOMAIN evq', About(evq'[i], "TX"), evq'[i].code = "ERR"
        PROVE  hw'["TX"] = << >> /\ \A x \in late' : x.type = "xfer" => x.of # n
    <3>1. i \in DOMAIN evq /\ evq'[i] = evq[i]
      BY <1>1, <1>2, <2>3, DeliverShape DEF TypeInv, About
    <3> QED
      BY <1>1, <2>3, <3>1 DEF OwnInv, ErrInv
  <2> QED
    BY <1>1, <1>3, <2>1, <2>2, <2>3 DEF GoesOn, OwnInv, LateInv
<1> QED
  BY <1>1, <1>4, <1>5, OwnDelivered

LEMMA OwnHw ==
  ASSUME TypeInv, OwnInv, Hw
  PROVE  OwnInv'
<1>1. ASSUME NEW ch \in Chan, HwError(ch)
      PROVE  OwnInv'
  <2> DEFINE d == Head(hw[ch])
  <2>1. PICK back : Deliver(Event("xfer", ch, "ERR", (d.db + RingSize - back) % RingSize, d.of, FALSE))
    BY <1>1 DEF HwError
  <2> DEFINE ptr == (d.db + RingSize - back) % RingSize
  <2> HIDE DEF ptr
  <2> DEFINE e == Event("xfer", ch, "ERR", ptr, d.of, FALSE)
  <2>2. Deliver(e)
    BY <2>1 DEF ptr
  <2>3. e.type = "xfer" /\ e.ch = ch /\ e.code = "ERR" /\ e.of = d.of /\ ~e.ok
    BY DEF Event
  <2>4. hw[ch] # << >> /\ hw' = [hw EXCEPT ![ch] = Tail(@)] /\ late' = late
        /\ UNCHANGED <<client, rings, deferral, tasklet>>
    BY <1>1 DEF HwError
  <2> HIDE DEF e
  <2> QED
    BY <2>2, <2>3, <2>4, OwnHwEnd DEF Terminal
<1>2. ASSUME NEW ch \in Chan, NEW ok \in BOOLEAN, HwEot(ch, ok)
      PROVE  OwnInv'
  <2> DEFINE d == Head(hw[ch])
             e == Event("xfer", ch, "EOT", Pred(d.db), d.of, ok)
  <2>1. Deliver(e)
    BY <1>2 DEF HwEot
  <2>2. e.type = "xfer" /\ e.ch = ch /\ e.code = "EOT" /\ e.of = d.of /\ e.ptr = Pred(d.db)
    BY DEF Event
  <2>3. hw[ch] # << >> /\ hw' = [hw EXCEPT ![ch] = Tail(@)]
        /\ UNCHANGED <<client, rings, deferral, tasklet>>
    BY <1>2 DEF HwEot
  <2>4. \/ late' = late
        \/ ch = "TX" /\ \E owed \in SUBSET Aftermath(d) : late' = late \cup owed
    BY <1>2 DEF HwEot, Owed, Chan
  <2> HIDE DEF e
  <2> QED
    BY <2>1, <2>2, <2>3, <2>4, OwnHwEnd DEF Terminal
<1> QED
  BY <1>1, <1>2, OwnHwEob, OwnHwLate DEF Hw

(* The tasklet takes the first event, or none; the rest moves up.          *)
Taken(k) ==
  \A i \in DOMAIN evq' : i \in Nat /\ i + k \in DOMAIN evq /\ evq'[i] = evq[i + k]

(* A turn of the inner loop of gpi_process_events takes the first event.   *)
LEMMA EventTaken ==
  ASSUME TypeInv, TkEvent
  PROVE  /\ 1 \in DOMAIN evq /\ Head(evq) = evq[1] /\ evq[1] \in Events /\ Taken(1)
         /\ \A i \in DOMAIN evq' : 1 < i + 1
         /\ pcK = "events" /\ UNCHANGED <<pcC, n, kind, round, ti, chan, wp, issued, hw, late>>
<1>1. evq \in Seq(Events) /\ evq # << >> /\ evq' = Tail(evq)
  BY DEF TypeInv, EventType, TkEvent
<1>2. /\ DOMAIN evq = 1 .. Len(evq) /\ DOMAIN evq' = 1 .. Len(evq) - 1 /\ Len(evq) \in Nat
      /\ \A i \in DOMAIN evq' : evq'[i] = evq[i + 1]
  BY <1>1
<1>3. 1 \in DOMAIN evq /\ Head(evq) = evq[1] /\ evq[1] \in Events
  BY <1>1
<1>4. Taken(1) /\ \A i \in DOMAIN evq' : 1 < i + 1
  BY <1>2 DEF Taken
<1> QED
  BY <1>3, <1>4 DEF TkEvent, XferEvent, XferDiscard, XferEob, XferDefer, XferDuplicate,
     XferComplete, QupEvent, StaleEvent, CompleteDeferred, Callback

(* What a turn of the tasklet has to leave as it is.                       *)
LEMMA OwnTaken ==
  ASSUME TypeInv, OwnInv, NEW k \in Nat, Taken(k), pcK \notin {"idle", "retire"},
         UNCHANGED <<pcC, n, kind, round, ti, chan, wp, issued, hw, late>>,
         \A ch \in Chan : InHand(ch)' => InHand(ch) /\ outcome'[ch] = outcome[ch],
         \A ch \in Chan : /\ Active(ch) /\ hw[ch] # << >> => InHand(ch)'
                          /\ ~Active(ch) \/ issued[ch] = << >> => rp'[ch] = rp[ch],
         \A i \in DOMAIN evq' :
            /\ About(evq'[i], "RX") /\ Active("RX") => InHand("RX")'
            /\ About(evq'[i], "TX") /\ Active("TX") =>
                 /\ evq'[i].code = "EOB" => InHand("TX")' /\ slot' = NoSlot
                 /\ evq'[i].code = "ERR" => slot' = NoSlot /\ outcome'["TX"] # "ok",
         kind = "write" => outcome'["RX"] = "none", InWindow => slot' \in {slot, NoSlot},
         ListInv', RetiringInv', SlotInv', RpInv', DeferredHasWakeup', IssueInv'
  PROVE  OwnInv'
<1> USE DEF OwnInv
<1>0. "TX" \in Chan /\ "RX" \in Chan
  BY DEF Chan
<1>1. \A ch : Active(ch)' <=> Active(ch)
  BY DEF Active
<1>2. \A e : Near(e) => Near(e)'
  BY <1>0, NearKept
<1>3. \A i \in DOMAIN evq' : i \in Nat /\ i + k \in DOMAIN evq /\ evq'[i] = evq[i + k]
  BY DEF Taken
<1>4. \A ch \in Chan : Newest(ch)' = Newest(ch)
  BY DEF Newest
<1>5. PhaseInv'
  <2>1. pcC = "stop" /\ ti = "TX" => slot' = NoSlot
    BY DEF PhaseInv, InWindow
  <2>2. \A ch \in Chan : Clean(ch) => Clean(ch)'
    BY <1>3 DEF Clean, About
  <2> QED
    BY <1>0, <2>1, <2>2 DEF PhaseInv
<1>6. InHandInv' /\ WriteInv'
  BY <1>1, <1>4 DEF InHandInv, WriteInv
<1>7. HwInv'
  BY <1>1, <1>3 DEF HwInv, About, Terminal
<1>8. RxInv'
  <2>1. ASSUME Active("RX"), NEW i \in DOMAIN evq', About(evq'[i], "RX")
        PROVE  /\ evq'[i].of = n' /\ Terminal(evq'[i])
               /\ evq'[i].code = "EOT" => evq'[i].ptr = Pred(wp'["RX"])
               /\ evq'[i].code = "ERR" => ~evq'[i].ok
               /\ InHand("RX")' /\ hw'["RX"] = << >>
               /\ \A j \in DOMAIN evq' : About(evq'[j], "RX") => j = i
    <3>1. i + k \in DOMAIN evq /\ evq'[i] = evq[i + k]
      BY <1>3
    <3>2. \A j \in DOMAIN evq' : About(evq'[j], "RX") => j + k = i + k
      BY <1>3, <2>1, <3>1 DEF RxInv
    <3>3. \A j \in DOMAIN evq' : About(evq'[j], "RX") => j = i
      BY <1>3, <3>2
    <3> QED
      BY <2>1, <3>1, <3>3 DEF RxInv
  <2> QED
    BY <1>1, <2>1 DEF RxInv, About, Terminal
<1>9. LateInv'
  BY <1>1, <1>2 DEF LateInv
<1>10. TxInv'
  BY <1>1, <1>2, <1>3 DEF TxInv, About
<1>11. ErrInv'
  BY <1>1, <1>3 DEF ErrInv, About
<1>12. OrderInv'
  <2>1. ASSUME Active("TX"), NEW i \in DOMAIN evq', NEW j \in DOMAIN evq', i < j,
               About(evq'[i], "TX"), Terminal(evq'[i]), evq'[i].of = n', About(evq'[j], "TX")
        PROVE  evq'[j].code # "EOB"
    <3>1. /\ i + k \in DOMAIN evq /\ evq'[i] = evq[i + k]
          /\ j + k \in DOMAIN evq /\ evq'[j] = evq[j + k] /\ i + k < j + k
      BY <1>3, <2>1
    <3> QED
      BY <2>1, <3>1 DEF OrderInv
  <2> QED
    BY <1>1, <2>1 DEF OrderInv, About, Terminal
<1>13. RoomToIssue'
  <2>1. ASSUME NEW ch \in Chan, pcC = "issue_rx" \/ (pcC = "issue_tx" /\ ch = "TX")
        PROVE  rp'[ch] = rp[ch]
    <3>1. ASSUME Active(ch), issued[ch] # << >>
          PROVE  InHand(ch)
      BY <3>1, ListShape DEF Leaving
    <3> QED
      BY <2>1, <3>1 DEF InHandInv
  <2> QED
    BY <1>0, <2>1 DEF RoomToIssue, Avail
<1> QED
  BY <1>5, <1>6, <1>7, <1>8, <1>9, <1>10, <1>11, <1>12, <1>13

(* A transfer event that is attributed is about the call in progress.      *)
LEMMA Attributed ==
  ASSUME TypeInv, OwnInv, InLap, pcK = "events", 1 \in DOMAIN evq, NEW e, e = evq[1],
         e.type = "xfer", e.ch \in Chan, Attributable(e)
  PROVE  /\ Active(e.ch) /\ InHand(e.ch) /\ e.of = n
         /\ Head(issued[e.ch]).of = n /\ Head(issued[e.ch]) = Newest(e.ch)
         /\ Len(issued[e.ch]) = 1
         /\ e.code = "EOT" => Succ(e.ptr) = wp[e.ch]
<1>1. /\ Active(e.ch) /\ issued[e.ch] # << >> /\ ~Leaving(e.ch)
      /\ e.code = "EOT" => e.ptr = Pred(Head(issued[e.ch]).db)
  BY DEF Attributable, OfTerminalTre, Active, Leaving
<1>2. /\ Head(issued[e.ch]) = Newest(e.ch) /\ Head(issued[e.ch]).of = n /\ InHand(e.ch)
      /\ Len(issued[e.ch]) = 1 /\ Newest(e.ch).db = wp[e.ch]
  BY <1>1, ListShape DEF OwnInv, InHandInv
<1>3. wp[e.ch] \in Slots /\ n \in Nat
  BY BoundAssumption DEF TypeInv, RingType, ClientType
<1>4. e.code = "EOT" => e.ptr = Pred(wp[e.ch]) /\ Succ(e.ptr) = wp[e.ch]
  BY <1>1, <1>2, <1>3, RingSums
<1>5. CASE e.ch = "RX"
  BY <1>1, <1>2, <1>4, <1>5 DEF OwnInv, RxInv, About
<1>6. CASE e.ch = "TX"
  <2>1. /\ e.of <= n /\ e.code \in {"EOB", "EOT", "ERR"} /\ e.of \in Nat
        /\ e.code = "EOT" => Near(e)
        /\ e.code \in {"EOB", "ERR"} => e.of = n
    <3>1. evq[1] \in Events
      BY DEF TypeInv, EventType
    <3>2. e.of \in Nat
      BY <3>1, BoundAssumption DEF Events, Call
    <3> QED
      BY <1>1, <1>6, <3>2 DEF OwnInv, TxInv, ErrInv, About
  <2>2. ASSUME e.code = "EOT", e.of # n
        PROVE  FALSE
    <3>1. PICK j \in 0 .. n - e.of, q \in Slots :
            /\ wp["TX"] = q + 3 * j \/ wp["TX"] = q + 3 * j - RingSize
            /\ e.ptr = q \/ e.ptr = Pred(q)
            /\ j > 0
      BY <1>2, <1>3, <1>6, <2>1, <2>2 DEF Near
    <3>2. 3 * (n - e.of) < RingSize
      BY <1>1, <1>6 DEF InLap, Tres, Chan, Active
    <3>3. j \in Nat /\ 3 * j < RingSize
      BY <1>3, <2>1, <3>1, <3>2, RingAssumption
    <3> QED
      BY <1>3, <1>4, <1>6, <2>2, <3>1, <3>3, OtherTre
  <2> QED
    BY <1>1, <1>2, <1>4, <1>6, <2>1, <2>2
<1> QED
  BY <1>5, <1>6 DEF Chan

(* A turn that is not the last thing the list sees: nothing is retired.    *)
LEMMA OwnNoted ==
  ASSUME TypeInv, OwnInv, Taken(1), pcK = "events", pcK' = "events",
         UNCHANGED <<client, chan, wp, issued, hw, late, retiring>>,
         \A ch \in Chan : rp'[ch] = rp[ch] \/ (Active(ch) /\ InHand(ch)),
         SlotInv', DeferredHasWakeup', InWindow => slot' \in {slot, NoSlot},
         slot' = slot \/ \A i \in DOMAIN evq' : About(evq'[i], "TX") => evq'[i].code = "EOT"
  PROVE  OwnInv'
<1>0. "TX" \in Chan /\ "RX" \in Chan /\ 1 \in Nat
  BY DEF Chan
<1>1. SameHand
  BY HandKept
<1>2. \A ch : Active(ch)' <=> Active(ch)
  BY DEF Active
<1>3. \A i \in DOMAIN evq' : i + 1 \in DOMAIN evq /\ evq'[i] = evq[i + 1]
  BY DEF Taken
<1>4. \A ch \in Chan : /\ Active(ch) /\ hw[ch] # << >> => InHand(ch)'
                       /\ ~Active(ch) \/ issued[ch] = << >> => rp'[ch] = rp[ch]
  BY <1>1 DEF OwnInv, HwInv, SameHand, InHand
<1>5. ASSUME NEW i \in DOMAIN evq'
      PROVE  /\ About(evq'[i], "RX") /\ Active("RX") => InHand("RX")'
             /\ About(evq'[i], "TX") /\ Active("TX") =>
                  /\ evq'[i].code = "EOB" => InHand("TX")' /\ slot' = NoSlot
                  /\ evq'[i].code = "ERR" => slot' = NoSlot /\ outcome'["TX"] # "ok"
  BY <1>0, <1>1, <1>3 DEF OwnInv, RxInv, TxInv, ErrInv, SameHand
<1>6. ListInv' /\ RetiringInv'
  BY <1>1, <1>2 DEF OwnInv, ListInv, RetiringInv, SameHand, Leaving
<1>7. RpInv'
  BY <1>1, <1>2 DEF OwnInv, RpInv, SameHand
<1>8. \A ch \in Chan : InHand(ch)' => InHand(ch) /\ outcome'[ch] = outcome[ch]
  BY <1>1 DEF SameHand
<1>9. (kind = "write" => outcome'["RX"] = "none") /\ IssueInv'
  BY DEF OwnInv, WriteInv, IssueInv
<1> QED
  BY <1>0, <1>4, <1>5, <1>6, <1>7, <1>8, <1>9, OwnTaken

(* Behind the EOT of the call in progress there is neither an EOB nor an   *)
(* error.                                                                  *)
LEMMA AfterEot ==
  ASSUME OwnInv, Taken(1), 1 \in DOMAIN evq, \A i \in DOMAIN evq' : 1 < i + 1,
         About(evq[1], "TX"), Active("TX"), evq[1].code = "EOT", evq[1].of = n
  PROVE  \A i \in DOMAIN evq' : About(evq'[i], "TX") => evq'[i].code = "EOT"
<1>1. ASSUME NEW i \in DOMAIN evq', About(evq'[i], "TX")
      PROVE  evq'[i].code = "EOT"
  <2>1. i + 1 \in DOMAIN evq /\ evq'[i] = evq[i + 1] /\ 1 < i + 1
    BY DEF Taken
  <2>2. evq[i + 1].code \in {"EOB", "EOT", "ERR"}
    BY <1>1, <2>1 DEF OwnInv, TxInv
  <2>3. evq[i + 1].code # "EOB"
    BY <1>1, <2>1 DEF OwnInv, OrderInv, Terminal
  <2>4. evq[i + 1].code # "ERR"
    BY <1>1, <2>1 DEF OwnInv, ErrInv
  <2> QED
    BY <2>1, <2>2, <2>3, <2>4
<1> QED
  BY <1>1

(* The read pointer of the other channel stays.                            *)
LEMMA AdvanceKeeps ==
  ASSUME TypeInv, NEW e, e.ch \in Chan, AdvanceRp(e)
  PROVE  /\ rp'[e.ch] = Succ(e.ptr) /\ \A ch \in Chan : ch # e.ch => rp'[ch] = rp[ch]
BY DEF TypeInv, RingType, AdvanceRp

(* What is known while a descriptor is deferred.                           *)
LEMMA SlotOwn ==
  ASSUME OwnInv, slot # NoSlot
  PROVE  /\ Active("TX") /\ InHand("TX") /\ slot.of = n /\ hw["TX"] = << >>
         /\ rp["TX"] = wp["TX"] /\ outcome["TX"] = "none" /\ pcC # "idle"
BY DEF OwnInv, SlotInv, InHandInv, Chan

(* One descriptor leaves, and the rest stays as it was.                    *)
LEMMA OwnLeaves ==
  ASSUME TypeInv, OwnInv, NEW k \in Nat, Taken(k), pcK \in {"events", "finish"},
         UNCHANGED <<pcC, n, kind, round, ti, chan, wp, issued, hw, late>>,
         NEW ch \in Chan, Active(ch), InHand(ch), hw[ch] = << >>,
         NEW ok \in BOOLEAN, NEW next, Callback(ch, n, ok, next),
         ch = "RX" => \A i \in DOMAIN evq' : ~About(evq'[i], "RX"),
         ch = "TX" => \A i \in DOMAIN evq' : About(evq'[i], "TX") =>
                        evq'[i].code # "EOB" /\ (ok => evq'[i].code # "ERR"),
         slot' = slot \/ slot' = NoSlot, ch = "TX" \/ next = "leave" => slot' = NoSlot,
         DeferredHasWakeup',
         \A c \in Chan : c # ch => rp'[c] = rp[c],
         rp'[ch] = wp[ch] \/ ~ok
  PROVE  OwnInv'
<1>0. "TX" \in Chan /\ "RX" \in Chan /\ n \in Nat
  BY BoundAssumption DEF Chan, TypeInv, ClientType
<1>1. /\ pcK' = "retire" /\ retiring'.ch = ch /\ retiring'.of = n /\ retiring'.next = next
      /\ outcome' = [outcome EXCEPT ![ch] = IF ok THEN "ok" ELSE "bad"]
      /\ outcome \in [Chan -> {"none", "ok", "bad"}]
  BY DEF Callback, TypeInv, ClientType
<1>2. /\ ~InHand(ch)' /\ Leaving(ch)'
      /\ \A c \in Chan : c # ch => /\ InHand(c)' <=> InHand(c)
                                   /\ ~Leaving(c)' /\ outcome'[c] = outcome[c]
      /\ \A c \in Chan : ~Leaving(c)
  BY <1>1 DEF InHand, Leaving, Newest
<1>3. \A c : Active(c)' <=> Active(c)
  BY DEF Active
<1>4. \A i \in DOMAIN evq' : i + k \in DOMAIN evq /\ evq'[i] = evq[i + k]
  BY DEF Taken
<1>5. outcome[ch] = "none" /\ pcC \notin {"idle", "issue_rx", "start"} /\ (ch = "RX" => kind = "pair")
      /\ issued[ch] # << >>
  BY DEF OwnInv, InHandInv, InHand
<1>6. \A c \in Chan : InHand(c)' => InHand(c) /\ outcome'[c] = outcome[c]
  BY <1>2
<1>7. \A c \in Chan : /\ Active(c) /\ hw[c] # << >> => InHand(c)'
                      /\ ~Active(c) \/ issued[c] = << >> => rp'[c] = rp[c]
  BY <1>2, <1>5 DEF OwnInv, HwInv
<1>8. ASSUME NEW i \in DOMAIN evq'
      PROVE  /\ About(evq'[i], "RX") /\ Active("RX") => InHand("RX")'
             /\ About(evq'[i], "TX") /\ Active("TX") =>
                  /\ evq'[i].code = "EOB" => InHand("TX")' /\ slot' = NoSlot
                  /\ evq'[i].code = "ERR" => slot' = NoSlot /\ outcome'["TX"] # "ok"
  <2>1. CASE ch = "RX"
    BY <1>0, <1>2, <1>4, <2>1 DEF OwnInv, TxInv, ErrInv
  <2>2. CASE ch = "TX"
    BY <1>0, <1>1, <1>2, <1>4, <2>2 DEF OwnInv, RxInv
  <2> QED
    BY <2>1, <2>2 DEF Chan
<1>9. kind = "write" => outcome'["RX"] = "none"
  BY <1>0, <1>2, <1>5 DEF OwnInv, WriteInv
<1>10. ListInv' /\ RetiringInv'
  <2>1. issued[ch] # << >> /\ Len(issued[ch]) = 1 /\ issued[ch][1].of = n
    BY <1>2, <1>5 DEF OwnInv, ListInv
  <2>2. RetiringInv'
    BY <1>0, <1>1, <1>3 DEF RetiringInv
  <2>3. ListInv'
    BY <1>1, <1>2, <1>3, <2>1 DEF OwnInv, ListInv
  <2> QED
    BY <2>2, <2>3
<1>11. SlotInv'
  <2>1. CASE ch = "RX"
    BY <1>0, <1>2, <1>3, <2>1 DEF OwnInv, SlotInv
  <2>2. CASE ch = "TX"
    BY <2>2 DEF SlotInv
  <2> QED
    BY <2>1, <2>2 DEF Chan
<1>12. RpInv' /\ IssueInv'
  <2>1. RpInv'
    BY <1>1, <1>2, <1>3, <1>5 DEF OwnInv, RpInv
  <2>2. ch = "TX" => pcC # "issue_tx"
    BY DEF OwnInv, InHandInv
  <2> QED
    BY <1>0, <1>1, <1>2, <1>5, <2>1, <2>2 DEF OwnInv, IssueInv
<1> QED
  BY <1>6, <1>7, <1>8, <1>9, <1>10, <1>11, <1>12, OwnTaken

(* The deferred descriptor is completed, by a notification or by the       *)
(* grace timer.                                                            *)
LEMMA OwnCompleteDeferred ==
  ASSUME TypeInv, OwnInv, NEW k \in Nat, Taken(k), pcK \in {"events", "finish"},
         NEW next, CompleteDeferred(next),
         UNCHANGED <<pcC, n, kind, round, ti, rings, hw, late>>
  PROVE  OwnInv'
<1>1. /\ Active("TX") /\ InHand("TX") /\ slot.of = n /\ hw["TX"] = << >> /\ rp["TX"] = wp["TX"]
      /\ slot # NoSlot /\ slot' = NoSlot /\ Callback("TX", n, slot.ok, next)
  BY SlotOwn DEF CompleteDeferred
<1>2. slot.ok \in BOOLEAN /\ "TX" \in Chan
  BY DEF TypeInv, DeferralType, Chan
<1>3. \A i \in DOMAIN evq' : About(evq'[i], "TX") => evq'[i].code \notin {"EOB", "ERR"}
  BY <1>1 DEF Taken, OwnInv, TxInv, ErrInv
<1>4. DeferredHasWakeup'
  BY <1>1 DEF DeferredHasWakeup
<1> QED
  BY <1>1, <1>2, <1>3, <1>4, OwnLeaves

(* One turn of gpi_process_events.                                         *)
LEMMA OwnEvent ==
  ASSUME TypeInv, OwnInv, InLap, TkEvent, ~strayed'
  PROVE  OwnInv'
<1> DEFINE e == evq[1]
<1>0. "TX" \in Chan /\ "RX" \in Chan /\ 1 \in Nat
  BY DEF Chan
<1>1. /\ 1 \in DOMAIN evq /\ e \in Events /\ Taken(1) /\ \A i \in DOMAIN evq' : 1 < i + 1
      /\ pcK = "events" /\ UNCHANGED <<pcC, n, kind, round, ti, chan, wp, issued, hw, late, sched>>
      /\ XferEvent(e) \/ QupEvent(e) \/ StaleEvent(e)
  BY EventTaken DEF TkEvent
<1>2. e.ch \in Chan /\ e.ok \in BOOLEAN
  BY <1>1 DEF Events
<1> HIDE DEF e
<1>3. CASE UNCHANGED <<client, rings, deferral, pcK, retiring>>
  <2>1. SameHand
    BY <1>3, HandKept
  <2>2. SlotInv' /\ DeferredHasWakeup'
    BY <1>0, <1>1, <1>3, <2>1 DEF OwnInv, SlotInv, DeferredHasWakeup, SameHand, Active
  <2> QED
    BY <1>1, <1>3, <2>2, OwnNoted
<1>4. CASE e.type = "xfer" /\ Attributable(e)
            /\ (XferEob(e) \/ XferDefer(e) \/ XferDuplicate(e) \/ XferComplete(e))
  <2>1. /\ Active(e.ch) /\ InHand(e.ch) /\ e.of = n /\ Head(issued[e.ch]).of = n
        /\ e.code = "EOT" => Succ(e.ptr) = wp[e.ch]
    BY <1>1, <1>2, <1>4, Attributed DEF e
  <2>2. About(evq[1], e.ch) /\ e.code \in {"EOB", "EOT", "ERR"}
    BY <1>4 DEF About, e, XferEob, XferDefer, XferDuplicate, XferComplete
  <2>3. rp'[e.ch] = Succ(e.ptr) /\ \A ch \in Chan : ch # e.ch => rp'[ch] = rp[ch]
    BY <1>2, <1>4, AdvanceKeeps DEF XferEob, XferDefer, XferDuplicate, XferComplete
  <2>4. CASE XferEob(e)
    <3>1. e.ch = "TX" /\ slot = NoSlot
      BY <1>1, <1>2, <2>1, <2>2, <2>4
         DEF OwnInv, RxInv, TxInv, Terminal, XferEob, About, Chan, e
    <3>2. UNCHANGED <<client, chan, wp, issued, deferral, pcK, retiring>>
      BY <2>4 DEF XferEob
    <3>3. SlotInv' /\ DeferredHasWakeup'
      BY <3>1, <3>2 DEF SlotInv, DeferredHasWakeup
    <3> QED
      BY <1>1, <2>1, <2>3, <3>2, <3>3, OwnNoted
  <2>5. CASE XferDefer(e) \/ XferDuplicate(e)
    <3>1. /\ e.ch = "TX" /\ e.code = "EOT" /\ pcK' = pcK
          /\ UNCHANGED <<client, chan, wp, issued, retiring>>
      BY <2>5 DEF XferDefer, XferDuplicate
    <3>2. \A i \in DOMAIN evq' : About(evq'[i], "TX") => evq'[i].code = "EOT"
      BY <1>1, <2>1, <2>2, <3>1, AfterEot DEF e
    <3>3. SameHand
      BY <3>1, HandKept
    <3>4. hw["TX"] = << >>
      BY <1>0, <1>1, <2>1, <2>2, <3>1 DEF OwnInv, HwInv, Terminal, e
    <3>5. rp'["TX"] = wp'["TX"]
      BY <2>1, <2>3, <3>1
    <3>6. slot' # NoSlot => slot'.of = n
      BY <2>1, <2>5, <3>1, SlotOwn DEF XferDefer, XferDuplicate
    <3>7. SlotInv'
      BY <1>0, <1>1, <2>1, <3>1, <3>3, <3>4, <3>5, <3>6 DEF SlotInv, SameHand, Active
    <3>8. DeferredHasWakeup'
      BY <1>1, <2>5, <3>1 DEF XferDefer, XferDuplicate, OwnInv, DeferredHasWakeup
    <3>9. InWindow => slot' \in {slot, NoSlot}
      BY <2>5 DEF XferDefer, XferDuplicate
    <3> QED
      BY <1>1, <2>1, <2>3, <3>1, <3>2, <3>7, <3>8, <3>9, OwnNoted
  <2>6. CASE XferComplete(e)
    <3>1. /\ Callback(e.ch, n, e.ok, "events")
          /\ UNCHANGED <<pcC, n, kind, round, ti, chan, wp, issued, deferral>>
          /\ e.code = "ERR" \/ (e.code = "EOT" /\ e.ch = "RX")
          /\ Terminal(e)
      BY <2>1, <2>6 DEF XferComplete, Terminal
    <3>2. DeferredHasWakeup'
      BY <1>1, <3>1 DEF Callback, OwnInv, DeferredHasWakeup
    <3>3. CASE e.ch = "RX"
      <4>1. /\ hw["RX"] = << >> /\ (e.code = "ERR" => ~e.ok)
            /\ \A j \in DOMAIN evq : About(evq[j], "RX") => j = 1
        BY <1>1, <2>1, <2>2, <3>3 DEF OwnInv, RxInv, e
      <4>2. \A i \in DOMAIN evq' : ~About(evq'[i], "RX")
        BY <1>1, <4>1 DEF Taken
      <4>3. rp'["RX"] = wp["RX"] \/ ~e.ok
        BY <2>1, <2>3, <3>1, <3>3, <4>1
      <4> QED
        BY <1>0, <1>1, <1>2, <2>1, <2>3, <3>1, <3>2, <3>3, <4>1, <4>2, <4>3, OwnLeaves
    <3>4. CASE e.ch = "TX"
      <4>1. e.code = "ERR" /\ ~e.ok /\ slot = NoSlot /\ hw["TX"] = << >>
        BY <1>1, <2>1, <2>2, <3>1, <3>4 DEF OwnInv, ErrInv, e
      <4>2. \A i \in DOMAIN evq' : About(evq'[i], "TX") => evq'[i].code # "EOB"
        BY <1>1, <2>1, <2>2, <3>1, <3>4, <4>1 DEF Taken, OwnInv, OrderInv, Terminal, e
      <4> QED
        BY <1>0, <1>1, <1>2, <2>1, <2>3, <3>1, <3>2, <3>4, <4>1, <4>2, OwnLeaves
    <3> QED
      BY <1>2, <3>3, <3>4 DEF Chan
  <2> QED
    BY <1>4, <2>4, <2>5, <2>6
<1>5. CASE CompleteDeferred("events") /\ UNCHANGED <<pcC, n, kind, round, ti, rings, firing, strayed>>
  BY <1>0, <1>1, <1>5, OwnCompleteDeferred
<1> QED
  BY <1>1, <1>3, <1>4, <1>5 DEF XferEvent, QupEvent, StaleEvent, XferDiscard, XferEob, XferDefer,
     XferDuplicate, XferComplete

(* The first descriptor of a list is unlinked.                             *)
LEMMA UnlinkFirst ==
  ASSUME NEW list \in Seq(Descriptor), NEW of, list # << >>, list[1].of = of,
         \A i \in DOMAIN list : i = 1 \/ list[i].of # of
  PROVE  Unlinked(list, of) = SubSeq(list, 2, Len(list))
<1>1. 1 \in DOMAIN list /\ of \in Listed(list)
  <2>1. 1 \in DOMAIN list
    OBVIOUS
  <2> QED
    BY <2>1 DEF Listed
<1> DEFINE k == CHOOSE i \in DOMAIN list : list[i].of = of
<1>2. k \in DOMAIN list /\ list[k].of = of
  BY <1>1
<1>3. k = 1
  BY <1>2
<1>4. Unlinked(list, of) = SubSeq(list, 1, k - 1) \o SubSeq(list, k + 1, Len(list))
  BY <1>1 DEF Unlinked
<1> HIDE DEF k
<1>5. k - 1 = 0 /\ k + 1 = 2
  BY <1>3
<1>6. SubSeq(list, 1, 0) = << >> /\ SubSeq(list, 2, Len(list)) \in Seq(Descriptor)
  OBVIOUS
<1>7. << >> \o SubSeq(list, 2, Len(list)) = SubSeq(list, 2, Len(list))
  BY <1>6, ConcatEmptySeq
<1> QED
  BY <1>4, <1>5, <1>6, <1>7, Zenon

(* What is left of a list of two.                                          *)
LEMMA SecondOfTwo ==
  ASSUME NEW S, NEW list \in Seq(S), Len(list) = 2, NEW rest, rest = SubSeq(list, 2, Len(list))
  PROVE  Len(rest) = 1 /\ rest # << >> /\ rest[1] = list[2]
<1>1. Len(rest) = 1 /\ rest[1] = list[2]
  OBVIOUS
<1>2. rest # << >>
  BY <1>1
<1> QED
  BY <1>1, <1>2

(* The descriptor whose callback has run leaves the list; a descriptor that*)
(* has been issued since stays.                                            *)
LEMMA Retired ==
  ASSUME TypeInv, OwnInv, TkRetire
  PROVE  /\ \A ch \in Chan : ~Leaving(ch)' /\ (InHand(ch)' <=> InHand(ch))
         /\ \A ch \in Chan : InHand(ch) => Newest(ch)' = Newest(ch)
         /\ \A ch \in Chan : Active(ch) =>
              issued'[ch] = << >> \/ (Len(issued'[ch]) = 1 /\ issued'[ch][1].of = n)
         /\ \A ch \in Chan : issued[ch] = << >> => issued'[ch] = << >>
<1>0. PICK c \in Chan : c = retiring.ch
  BY DEF TypeInv, TaskletType
<1> DEFINE list == issued[c]
<1>1. /\ pcK = "retire" /\ list \in Seq(Descriptor) /\ n \in Nat
      /\ issued' = [issued EXCEPT ![c] = Unlinked(list, retiring.of)]
      /\ issued \in [Chan -> Seq(Descriptor)] /\ pcK' \in {"events", "idle"} /\ n' = n
  BY <1>0, BoundAssumption DEF TypeInv, RingType, TaskletType, ClientType, TkRetire, Leave
<1>2. /\ Active(c) /\ list # << >> /\ list[1].of = retiring.of
      /\ \/ Len(list) = 1
         \/ Len(list) = 2 /\ list[2].of = n /\ retiring.of < n
  BY <1>0, <1>1 DEF OwnInv, RetiringInv, ListInv, Leaving
<1>3. \A i \in DOMAIN list : i = 1 \/ list[i].of # retiring.of
  <2>1. DOMAIN list = 1 .. Len(list)
    BY <1>1
  <2> QED
    BY <1>1, <1>2, <2>1
<1>4. /\ issued'[c] = SubSeq(list, 2, Len(list))
      /\ \A ch \in Chan : ch # c => issued'[ch] = issued[ch] /\ ~Leaving(ch)
      /\ \A ch \in Chan : ~Leaving(ch)'
  BY <1>0, <1>1, <1>2, <1>3, UnlinkFirst DEF Leaving
<1> HIDE DEF list
<1>5. CASE Len(list) = 1
  <2>1. issued'[c] = << >>
    <3>1. SubSeq(list, 2, 1) = << >>
      BY <1>1
    <3> QED
      BY <1>4, <1>5, <3>1
  <2>2. ~InHand(c)
    BY <1>0, <1>1, <1>2, <1>5 DEF InHand, Newest, Leaving, list
  <2> QED
    BY <1>1, <1>2, <1>4, <2>1, <2>2 DEF InHand, Newest, OwnInv, ListInv
<1>6. CASE Len(list) = 2
  <2>1. Len(issued'[c]) = 1 /\ issued'[c] # << >> /\ issued'[c][1] = list[2]
    <3>1. list \in Seq(Descriptor) /\ Len(list) = 2
      BY <1>1, <1>6
    <3> QED
      BY <1>4, <3>1, SecondOfTwo
  <2>2. InHand(c) /\ Newest(c) = list[2]
    BY <1>1, <1>2, <1>6 DEF InHand, Newest, list
  <2>3. InHand(c)' /\ Newest(c)' = list[2]
    <3>1. Newest(c)' = list[2]
      BY <2>1 DEF Newest
    <3>2. ~Leaving(c)'
      BY <1>1, <1>4
    <3> QED
      BY <1>1, <1>2, <1>6, <2>1, <3>1, <3>2 DEF InHand
  <2> QED
    BY <1>1, <1>2, <1>4, <1>6, <2>1, <2>2, <2>3 DEF InHand, Newest, OwnInv, ListInv, list
<1> QED
  BY <1>2, <1>5, <1>6

(* The descriptor is unlinked.                                             *)
LEMMA OwnRetire ==
  ASSUME TypeInv, OwnInv, TkRetire
  PROVE  OwnInv'
<1> USE DEF OwnInv
<1>0. "TX" \in Chan /\ "RX" \in Chan
  BY DEF Chan
<1>1. /\ UNCHANGED <<client, chan, rp, wp, deferral, evq, sched, hw, late>>
      /\ pcK = "retire" /\ pcK' # "retire"
      /\ pcK' = "idle" => retiring.next = "leave"
  BY DEF TkRetire, Leave, TypeInv, TaskletType
<1>2. \A ch \in Chan : InHand(ch)' <=> InHand(ch)
  BY Retired
<1>3. /\ \A ch \in Chan : ~Leaving(ch)'
      /\ \A ch \in Chan : InHand(ch) => Newest(ch)' = Newest(ch)
      /\ \A ch \in Chan : Active(ch) =>
           issued'[ch] = << >> \/ (Len(issued'[ch]) = 1 /\ issued'[ch][1].of = n)
      /\ \A ch \in Chan : issued[ch] = << >> => issued'[ch] = << >>
  BY Retired
<1>4. \A ch : Active(ch)' <=> Active(ch)
  BY <1>1 DEF Active
<1>5. \A e : Near(e) => Near(e)'
  BY <1>0, <1>1, <1>2, NearKept
<1>6. PhaseInv'
  <2>1. \A ch \in Chan : Clean(ch) => Clean(ch)'
    BY <1>1, <1>3 DEF Clean, About
  <2> QED
    BY <1>0, <1>1, <2>1 DEF PhaseInv
<1>7. InHandInv' /\ WriteInv' /\ IssueInv'
  BY <1>1, <1>2, <1>3, <1>4 DEF InHandInv, WriteInv, IssueInv
<1>8. ListInv' /\ RetiringInv'
  BY <1>1, <1>3, <1>4 DEF ListInv, RetiringInv
<1>9. SlotInv'
  BY <1>0, <1>1, <1>2, <1>4 DEF SlotInv
<1>10. HwInv' /\ RxInv'
  BY <1>0, <1>1, <1>2, <1>4 DEF HwInv, RxInv, About, Terminal
<1>11. LateInv' /\ TxInv' /\ ErrInv' /\ OrderInv'
  BY <1>0, <1>1, <1>2, <1>4, <1>5 DEF LateInv, TxInv, ErrInv, OrderInv, About, Terminal
<1>12. RpInv' /\ RoomToIssue'
  BY <1>1, <1>2, <1>4 DEF RpInv, RoomToIssue, Avail
<1>13. DeferredHasWakeup'
  BY <1>1 DEF DeferredHasWakeup, RetiringInv
<1> QED
  BY <1>6, <1>7, <1>8, <1>9, <1>10, <1>11, <1>12, <1>13

(* The end of the tasklet.                                                 *)
LEMMA OwnFinish ==
  ASSUME TypeInv, OwnInv, TkFinish
  PROVE  OwnInv'
<1>1. CASE CompleteDeferred("leave") /\ UNCHANGED <<pcC, n, kind, round, ti, firing, masked>>
  <2>1. pcK = "finish" /\ UNCHANGED <<rings, evq, hw, late>>
    BY DEF TkFinish
  <2>2. evq \in Seq(Events)
    BY DEF TypeInv, EventType
  <2>3. \A i \in DOMAIN evq : i \in Nat /\ i + 0 = i
    BY <2>2
  <2>4. Taken(0)
    BY <2>1, <2>3 DEF Taken
  <2> QED
    BY <1>1, <2>1, <2>4, OwnCompleteDeferred
<1>2. CASE ~(grace /\ slot # NoSlot) /\ Leave /\ UNCHANGED <<client, deferral, retiring>>
  <2>1. /\ UNCHANGED <<client, rings, slot, evq, hw, late>> /\ pcK = "finish" /\ pcK' = "idle"
        /\ UNCHANGED sched
    BY <1>2 DEF TkFinish, Leave
  <2>2. DeferredHasWakeup'
    BY <1>2, <2>1 DEF OwnInv, DeferredHasWakeup
  <2> QED
    BY <2>1, <2>2, OwnStill
<1> QED
  BY <1>1, <1>2 DEF TkFinish

(* All of the tasklet.                                                     *)
LEMMA OwnTasklet ==
  ASSUME TypeInv, OwnInv, InLap, Tasklet, ~strayed'
  PROVE  OwnInv'
BY OwnQuiet, OwnEvent, OwnRetire, OwnFinish DEF Tasklet

(* Between two transfers nothing is in hand on an active channel.          *)
LEMMA NothingInHand ==
  ASSUME TypeInv, OwnInv, NEW ch \in Chan, Active(ch), ~InHand(ch)
  PROVE  /\ hw[ch] = << >>
         /\ ~Leaving(ch) => issued[ch] = << >>
         /\ Leaving(ch) => Len(issued[ch]) = 1 /\ issued[ch][1].of = retiring.of
         /\ ch = "RX" => \A i \in DOMAIN evq : ~About(evq[i], "RX")
         /\ ch = "TX" => /\ slot = NoSlot
                         /\ \A i \in DOMAIN evq : About(evq[i], "TX") => evq[i].code # "EOB"
<1>1. hw[ch] = << >>
  BY DEF OwnInv, HwInv
<1>2. ~Leaving(ch) => issued[ch] = << >>
  BY ListShape DEF OwnInv
<1>3. Leaving(ch) => Len(issued[ch]) = 1 /\ issued[ch][1].of = retiring.of
  <2>1. ASSUME Leaving(ch), Len(issued[ch]) = 2, issued[ch][2].of = n, retiring.of < n,
               issued[ch] # << >>
        PROVE  FALSE
    <3>1. n \in Nat /\ retiring.of \in Nat
      BY BoundAssumption DEF TypeInv, ClientType, TaskletType
    <3> QED
      BY <2>1, <3>1 DEF InHand, Newest
  <2> QED
    BY <2>1 DEF OwnInv, ListInv
<1> QED
  BY <1>1, <1>2, <1>3 DEF OwnInv, RxInv, TxInv, SlotInv

(* A call begins: what was left of the last one is older.                  *)
LEMMA OwnStart ==
  ASSUME TypeInv, OwnInv, NEW k \in {"pair", "write"}, Start(k)
  PROVE  OwnInv'
<1> USE DEF OwnInv
<1>0. "TX" \in Chan /\ "RX" \in Chan /\ n \in Nat
  BY BoundAssumption DEF Chan, TypeInv, ClientType
<1>1. /\ pcC = "idle" /\ n' = n + 1 /\ kind' = k /\ outcome' = Silent /\ ti' = "TX"
      /\ UNCHANGED <<rings, deferral, evq, tasklet, hardware>>
      /\ pcC' \in {"issue_rx", "issue_tx", "clear"}
      /\ pcC' = "issue_rx" => k = "pair" /\ HasRoom(k)
      /\ pcC' = "issue_tx" => k = "write" /\ HasRoom(k)
  BY DEF Start
<1>2. \A ch \in Chan : Active(ch)' <=> Active(ch)
  BY <1>1 DEF Active
<1>3. \A ch \in Chan : Active(ch) => ~InHand(ch)
  BY <1>1 DEF InHandInv
<1>4. \A ch \in Chan : Leaving(ch)' <=> Leaving(ch)
  BY <1>1 DEF Leaving
<1>5. ASSUME NEW ch \in Chan, Active(ch)
      PROVE  ~InHand(ch)'
  <2>1. issued[ch] \in Seq(Descriptor)
    BY DEF TypeInv, RingType
  <2>2. CASE ~Leaving(ch)
    BY <1>1, <1>3, <1>5, <2>2, NothingInHand DEF InHand
  <2>3. CASE Leaving(ch)
    <3>1. Len(issued[ch]) = 1 /\ issued[ch][1].of = retiring.of
      BY <1>3, <1>5, <2>3, NothingInHand
    <3>2. retiring.of <= n /\ retiring.of \in Nat
      BY <2>3, BoundAssumption DEF Leaving, RetiringInv, TypeInv, TaskletType
    <3> QED
      BY <1>0, <1>1, <3>1, <3>2 DEF InHand, Newest
  <2> QED
    BY <2>2, <2>3
<1>6. ASSUME NEW e, e.of <= n, e.of \in Nat, Near(e), Active("TX")
      PROVE  Near(e)' /\ e.of <= n'
  <2>1. PICK j \in 0 .. n - e.of, q \in Slots :
            /\ wp["TX"] = q + 3 * j \/ wp["TX"] = q + 3 * j - RingSize
            /\ e.ptr = q \/ e.ptr = Pred(q)
    BY <1>6 DEF Near
  <2>2. j \in 0 .. n' - e.of /\ j < n' - e.of /\ e.of <= n'
    BY <1>0, <1>1, <1>6
  <2>3. wp' = wp /\ ~InHand("TX")'
    BY <1>0, <1>1, <1>5, <1>6
  <2> QED
    BY <2>1, <2>2, <2>3 DEF Near
<1>7. \A e \in Events : e.of \in Nat
  BY BoundAssumption DEF Events, Call
<1>8. (\A i \in DOMAIN evq : evq[i] \in Events) /\ \A e \in late : e \in Events
  BY DEF TypeInv, EventType, HardwareType
<1>9. PhaseInv' /\ WriteInv'
  BY <1>0, <1>1 DEF PhaseInv, WriteInv, Silent
<1>10. InHandInv' /\ HwInv'
  BY <1>0, <1>1, <1>2, <1>3, <1>5, NothingInHand DEF InHandInv, HwInv
<1>11. ListInv'
  BY <1>1, <1>2, <1>3, <1>4, NothingInHand DEF ListInv
<1>12. RetiringInv' /\ IssueInv'
  <2>1. pcK = "retire" => retiring.of < n' /\ retiring.of <= n'
    <3>1. retiring.of \in Nat
      BY BoundAssumption DEF TypeInv, TaskletType
    <3> QED
      BY <1>0, <1>1, <3>1 DEF RetiringInv
  <2>2. RetiringInv'
    BY <1>1, <2>1 DEF RetiringInv, Active
  <2>3. IssueInv'
    BY <1>0, <1>1, <2>1 DEF IssueInv, Silent
  <2> QED
    BY <2>2, <2>3
<1>13. SlotInv' /\ DeferredHasWakeup'
  BY <1>0, <1>1, <1>3, NothingInHand DEF SlotInv, DeferredHasWakeup
<1>14. RxInv'
  BY <1>0, <1>1, <1>2, <1>3, NothingInHand DEF RxInv, About
<1>15. LateInv'
  <2>1. ASSUME NEW e \in late, Active("TX")
        PROVE  e.of <= n' /\ (e.type = "xfer" => e.code = "EOT" /\ Near(e)')
    <3>1. e.of \in Nat /\ e.of <= n /\ (e.type = "xfer" => e.code = "EOT" /\ Near(e))
      BY <1>7, <1>8, <2>1 DEF LateInv
    <3> QED
      BY <1>0, <1>1, <1>6, <2>1, <3>1
  <2> QED
    BY <1>1, <1>0, <1>2, <2>1 DEF LateInv
<1>16. TxInv' /\ ErrInv' /\ OrderInv'
  <2>1. ASSUME Active("TX"), NEW i \in DOMAIN evq, About(evq[i], "TX")
        PROVE  /\ evq[i].of <= n' /\ evq[i].code = "EOT" /\ Near(evq[i])'
    <3>1. evq[i].code \in {"EOB", "EOT", "ERR"} /\ evq[i].code # "EOB" /\ evq[i].of <= n
      BY <1>0, <1>3, <2>1, NothingInHand DEF TxInv
    <3>2. evq[i].code # "ERR"
      BY <1>1, <2>1 DEF ErrInv
    <3>3. Near(evq[i])
      BY <2>1, <3>1, <3>2 DEF TxInv
    <3> QED
      BY <1>1, <1>6, <1>7, <1>8, <2>1, <3>1, <3>2, <3>3
  <2> QED
    BY <1>0, <1>1, <1>2, <2>1 DEF TxInv, ErrInv, OrderInv, About
<1>17. RpInv'
  BY <1>1, <1>2, <1>3 DEF RpInv
<1>18. RoomToIssue'
  BY <1>1 DEF RoomToIssue, HasRoom, Used, Avail
<1> QED
  BY <1>9, <1>10, <1>11, <1>12, <1>13, <1>14, <1>15, <1>16, <1>17, <1>18

(* The waits change nothing but the place of the thread.                   *)
LEMMA OwnWaits ==
  ASSUME TypeInv, OwnInv, WaitRx \/ WaitTx \/ ReadStatus
  PROVE  OwnInv'
<1> USE DEF OwnInv
<1>0. "TX" \in Chan /\ "RX" \in Chan
  BY DEF Chan
<1>1. /\ UNCHANGED <<n, kind, outcome, round, ti, rings, deferral, evq, tasklet, hardware>>
      /\ pcC \in {"wait_rx", "wait_tx", "status"}
      /\ pcC' \in {"wait_tx", "clear", "idle", "status"}
      /\ pcC' = "idle" => \A ch \in Used(kind) : outcome[ch] = "ok"
  BY DEF WaitRx, WaitTx, ReadStatus, Judge
<1>2. \A ch : Active(ch)' <=> Active(ch)
  BY <1>1 DEF Active
<1>3. SameHand /\ \A ch \in Chan : Newest(ch)' = Newest(ch)
  BY <1>1, HandKept
<1>4. \A e : Near(e) => Near(e)'
  BY <1>0, <1>1, <1>3, NearKept DEF SameHand
<1>5. ASSUME pcC' = "idle", NEW ch \in Chan, Active(ch)
      PROVE  ~InHand(ch) /\ outcome[ch] # "bad" /\ (ch = "TX" => outcome["TX"] = "ok")
  <2>1. kind \in {"pair", "write"}
    BY DEF TypeInv, ClientType
  <2> QED
    BY <1>1, <1>5, <2>1 DEF InHandInv, WriteInv, Used, Chan
<1>6. PhaseInv' /\ WriteInv' /\ IssueInv'
  BY <1>1 DEF PhaseInv, WriteInv, IssueInv
<1>7. InHandInv'
  BY <1>1, <1>2, <1>3, <1>5 DEF InHandInv, SameHand
<1>8. ListInv' /\ RetiringInv' /\ SlotInv'
  BY <1>0, <1>1, <1>2, <1>3 DEF ListInv, RetiringInv, SlotInv, SameHand, Leaving, Active
<1>9. HwInv' /\ RxInv' /\ LateInv' /\ TxInv' /\ OrderInv'
  BY <1>0, <1>1, <1>2, <1>3, <1>4
     DEF HwInv, RxInv, LateInv, TxInv, OrderInv, SameHand, About, Terminal
<1>10. ErrInv'
  BY <1>0, <1>1, <1>2, <1>5 DEF ErrInv, About
<1>11. RpInv'
  BY <1>1, <1>2, <1>3, <1>5 DEF RpInv, SameHand
<1>12. RoomToIssue' /\ DeferredHasWakeup'
  BY <1>1 DEF RoomToIssue, DeferredHasWakeup
<1> QED
  BY <1>6, <1>7, <1>8, <1>9, <1>10, <1>11, <1>12

(* What gpi_issue_pending leaves alone.                                    *)
LEMMA IssueFrame ==
  ASSUME TypeInv, NEW ch \in Chan, Issue(ch)
  PROVE  /\ UNCHANGED <<n, kind, outcome, round, ti, chan, rp, deferral, evq, tasklet, late>>
         /\ \A c \in Chan : c # ch => /\ wp'[c] = wp[c] /\ issued'[c] = issued[c] /\ hw'[c] = hw[c]
                                      /\ InHand(c)' <=> InHand(c)
                                      /\ Newest(c)' = Newest(c)
         /\ \A c \in Chan : (Leaving(c)' <=> Leaving(c)) /\ (Active(c)' <=> Active(c))
BY DEF Issue, TypeInv, RingType, HardwareType, InHand, Newest, Leaving, Active

(* What is issued on an active channel with room and nothing in hand.      *)
LEMMA IssueShape ==
  ASSUME TypeInv, OwnInv, NEW ch \in Chan, Issue(ch), Active(ch), ~InHand(ch),
         Avail(ch) >= Tres[ch], Leaving(ch) => retiring.of < n
  PROVE  /\ wp'[ch] = (wp[ch] + Tres[ch]) % RingSize
         /\ InHand(ch)' /\ Newest(ch)'.db = wp'[ch] /\ issued'[ch] # << >>
         /\ Leaving(ch) => /\ Len(issued'[ch]) = 2 /\ issued'[ch][1].of = retiring.of
                           /\ issued'[ch][2].of = n
         /\ ~Leaving(ch) => Len(issued'[ch]) = 1 /\ issued'[ch][1].of = n
         /\ Len(hw'[ch]) = 1 /\ hw'[ch][1].of = n /\ hw'[ch][1].db = wp'[ch]
<1>1. /\ issued[ch] \in Seq(Descriptor) /\ hw[ch] = << >> /\ wp[ch] \in Slots
      /\ n \in Nat /\ retiring.of \in Nat
  BY NothingInHand, BoundAssumption DEF TypeInv, RingType, ClientType, TaskletType
<1>2. Avail(ch) \in Int
  BY RingAssumption DEF Avail, TypeInv, RingType, Slots
<1>3. NextWp(ch) = (wp[ch] + Tres[ch]) % RingSize
  BY <1>2 DEF NextWp, Queued, Tres
<1> DEFINE x == [of |-> n, db |-> NextWp(ch)]
<1>4. /\ wp'[ch] = NextWp(ch) /\ issued'[ch] = Append(issued[ch], x)
      /\ hw'[ch] = Append(<< >>, [of |-> n, db |-> NextWp(ch), tre |-> 0])
      /\ n' = n /\ (Leaving(ch)' <=> Leaving(ch)) /\ retiring' = retiring
  BY <1>1 DEF Issue, TypeInv, RingType, HardwareType, Leaving
<1>5. x.of = n /\ x.db = NextWp(ch)
  OBVIOUS
<1> HIDE DEF x
<1>6. Len(hw'[ch]) = 1 /\ hw'[ch][1] = [of |-> n, db |-> NextWp(ch), tre |-> 0]
  BY <1>4
<1>7. CASE Leaving(ch)
  <2>1. Len(issued[ch]) = 1 /\ issued[ch][1].of = retiring.of
    BY <1>7, NothingInHand
  <2>2. Len(issued'[ch]) = 2 /\ issued'[ch][1] = issued[ch][1] /\ issued'[ch][2] = x
    BY <1>1, <1>4, <2>1
  <2>3. issued'[ch] # << >>
    BY <2>2
  <2>4. Newest(ch)' = x
    BY <2>2 DEF Newest
  <2>5. InHand(ch)'
    BY <1>1, <1>4, <1>5, <1>7, <2>3, <2>4 DEF InHand
  <2> QED
    BY <1>3, <1>4, <1>5, <1>6, <1>7, <2>1, <2>2, <2>3, <2>4, <2>5
<1>8. CASE ~Leaving(ch)
  <2>1. issued[ch] = << >>
    BY <1>8, NothingInHand
  <2>2. Len(issued'[ch]) = 1 /\ issued'[ch][1] = x
    BY <1>4, <2>1
  <2>3. issued'[ch] # << >>
    BY <2>2
  <2>4. Newest(ch)' = x
    BY <2>2 DEF Newest
  <2>5. InHand(ch)'
    BY <1>4, <1>5, <1>8, <2>3, <2>4 DEF InHand
  <2> QED
    BY <1>3, <1>4, <1>5, <1>6, <1>8, <2>1, <2>2, <2>3, <2>4, <2>5
<1> QED
  BY <1>7, <1>8

(* The RX descriptor of a read pair is issued ...                          *)
LEMMA OwnIssueRx ==
  ASSUME TypeInv, OwnInv, IssueRx
  PROVE  OwnInv'
<1> USE DEF OwnInv
<1>0. "TX" \in Chan /\ "RX" \in Chan /\ Chan = {"TX", "RX"}
  BY DEF Chan
<1>1. pcC = "issue_rx" /\ pcC' = "issue_tx" /\ Issue("RX")
  BY DEF IssueRx
<1>2. /\ UNCHANGED <<n, kind, outcome, round, ti, chan, rp, deferral, evq, tasklet, late>>
      /\ wp'["TX"] = wp["TX"] /\ issued'["TX"] = issued["TX"] /\ hw'["TX"] = hw["TX"]
      /\ Newest("TX")' = Newest("TX")
  BY <1>0, <1>1, IssueFrame
<1>3. InHand("TX")' <=> InHand("TX")
  BY <1>0, <1>1, IssueFrame
<1>4. \A c \in Chan : (Leaving(c)' <=> Leaving(c)) /\ (Active(c)' <=> Active(c))
  BY <1>0, <1>1, IssueFrame
<1>5. \A c \in Chan : Active(c) => ~InHand(c)
  BY <1>1 DEF InHandInv
<1>6. ASSUME Active("RX")
      PROVE  /\ InHand("RX")' /\ Newest("RX")'.db = wp'["RX"] /\ issued'["RX"] # << >>
             /\ Leaving("RX") => /\ Len(issued'["RX"]) = 2 /\ issued'["RX"][1].of = retiring.of
                                 /\ issued'["RX"][2].of = n /\ retiring.of < n
             /\ ~Leaving("RX") => Len(issued'["RX"]) = 1 /\ issued'["RX"][1].of = n
             /\ Len(hw'["RX"]) = 1 /\ hw'["RX"][1].of = n /\ hw'["RX"][1].db = wp'["RX"]
  <2>1. Avail("RX") >= Tres["RX"] /\ (Leaving("RX") => retiring.of < n)
    BY <1>0, <1>1 DEF RoomToIssue, IssueInv, Leaving
  <2> QED
    BY <1>0, <1>1, <1>5, <1>6, <2>1, IssueShape
<1>7. \A e : Near(e) => Near(e)'
  BY <1>1, <1>2, <1>3 DEF Near
<1>8. PhaseInv' /\ WriteInv'
  BY <1>1, <1>2 DEF PhaseInv, WriteInv
<1>9. InHandInv'
  BY <1>0, <1>1, <1>2, <1>3, <1>4, <1>5, <1>6 DEF InHandInv, IssueInv
<1>10. ListInv'
  <2>1. ASSUME Active("TX")
        PROVE  /\ ~Leaving("TX") => issued["TX"] = << >>
               /\ Leaving("TX") => Len(issued["TX"]) = 1 /\ issued["TX"][1].of = retiring.of
                                   /\ issued["TX"] # << >>
    BY <1>0, <1>5, <2>1, NothingInHand DEF ListInv
  <2> QED
    BY <1>0, <1>2, <1>4, <1>6, <2>1 DEF ListInv
<1>11. RetiringInv' /\ IssueInv'
  BY <1>0, <1>1, <1>2, <1>4 DEF RetiringInv, IssueInv, Active
<1>12. SlotInv' /\ DeferredHasWakeup'
  BY <1>0, <1>2, <1>3, <1>4 DEF SlotInv, DeferredHasWakeup
<1>13. HwInv'
  <2>1. Active("TX") => hw["TX"] = << >>
    BY <1>0, <1>5, NothingInHand
  <2>2. Active("RX") => \A i \in DOMAIN evq : ~About(evq[i], "RX")
    BY <1>0, <1>5, NothingInHand
  <2> QED
    BY <1>0, <1>2, <1>4, <1>6, <2>1, <2>2 DEF HwInv, About, Terminal
<1>14. RxInv'
  <2>1. Active("RX") => \A i \in DOMAIN evq : ~About(evq[i], "RX")
    BY <1>0, <1>5, NothingInHand
  <2> QED
    BY <1>0, <1>2, <1>4, <2>1 DEF RxInv, About
<1>15. LateInv'
  BY <1>0, <1>2, <1>4, <1>7 DEF LateInv
<1>16. TxInv' /\ OrderInv'
  BY <1>0, <1>2, <1>3, <1>4, <1>7 DEF TxInv, OrderInv, About, Terminal
<1>17. ErrInv'
  BY <1>0, <1>1, <1>2, <1>4 DEF ErrInv, About
<1>18. RpInv'
  BY <1>0, <1>1, <1>2, <1>3, <1>4, <1>6 DEF RpInv
<1>19. RoomToIssue'
  BY <1>0, <1>1, <1>2 DEF RoomToIssue, Avail
<1> QED
  BY <1>8, <1>9, <1>10, <1>11, <1>12, <1>13, <1>14, <1>15, <1>16, <1>17, <1>18, <1>19

(* A late event falls one descriptor behind when the next TX is issued.    *)
LEMMA NearNext ==
  ASSUME TypeInv, pcC = "issue_tx", pcC' \notin {"issue_rx", "issue_tx"}, n' = n,
         wp'["TX"] = (wp["TX"] + 3) % RingSize,
         NEW e, e.of \in Nat, Near(e), 3 * (n - e.of) < RingSize
  PROVE  e.of < n /\ Near(e)'
<1>1. n \in Nat /\ wp["TX"] \in Slots /\ RingSize \in Nat /\ RingSize >= 4
  BY BoundAssumption, RingAssumption DEF TypeInv, ClientType, RingType, Chan
<1>2. PICK j \in 0 .. n - e.of, q \in Slots :
        /\ wp["TX"] = q + 3 * j \/ wp["TX"] = q + 3 * j - RingSize
        /\ e.ptr = q \/ e.ptr = Pred(q)
        /\ j < n - e.of
  BY DEF Near
<1>3. j \in Nat /\ e.of < n /\ j + 1 \in 0 .. n - e.of /\ 3 * (j + 1) < RingSize /\ j + 1 > 0
  BY <1>1, <1>2
<1>4. wp'["TX"] = q + 3 * (j + 1) \/ wp'["TX"] = q + 3 * (j + 1) - RingSize
  <2>1. q + 3 * j < 2 * RingSize /\ q + 3 * (j + 1) < 2 * RingSize
    BY <1>1, <1>2, <1>3 DEF Slots
  <2>2. PICK w \in Slots : w = wp["TX"]
    BY <1>1
  <2>3. PICK x \in 0 .. 2 * RingSize - 1 : x = w + 3
    BY RingAssumption DEF Slots
  <2>4. x % RingSize = IF x < RingSize THEN x ELSE x - RingSize
    BY RingSums
  <2>5. wp'["TX"] = IF w + 3 < RingSize THEN w + 3 ELSE w + 3 - RingSize
    <3>1. wp["TX"] + 3 = x
      BY <2>2, <2>3
    <3>2. wp'["TX"] = x % RingSize
      BY <3>1, Zenon
    <3>3. x < RingSize <=> w + 3 < RingSize
      BY <2>3, RingAssumption DEF Slots
    <3>4. x - RingSize = w + 3 - RingSize
      BY <2>3, RingAssumption DEF Slots
    <3> QED
      BY <2>3, <2>4, <3>2, <3>3, <3>4, Zenon
  <2>6. w = q + 3 * j \/ w = q + 3 * j - RingSize
    BY <1>2, <2>2
  <2> QED
    BY <1>1, <1>3, <2>1, <2>5, <2>6 DEF Slots
<1>5. j + 1 \in 0 .. n' - e.of
  BY <1>3
<1> DEFINE i == j + 1
<1>6. /\ i \in 0 .. n' - e.of /\ i > 0
      /\ wp'["TX"] = q + 3 * i \/ wp'["TX"] = q + 3 * i - RingSize
  BY <1>3, <1>4, <1>5
<1> HIDE DEF i
<1> QED
  BY <1>2, <1>3, <1>6 DEF Near

(* ... and the TX descriptor.                                              *)
LEMMA OwnIssueTx ==
  ASSUME TypeInv, OwnInv, InLap, IssueTx
  PROVE  OwnInv'
<1> USE DEF OwnInv
<1>0. "TX" \in Chan /\ "RX" \in Chan /\ Chan = {"TX", "RX"} /\ Tres["TX"] = 3
  BY DEF Chan, Tres
<1>1. pcC = "issue_tx" /\ pcC' \in {"wait_rx", "wait_tx"} /\ Issue("TX")
  BY DEF IssueTx
<1>2. /\ UNCHANGED <<n, kind, outcome, round, ti, chan, rp, deferral, evq, tasklet, late>>
      /\ wp'["RX"] = wp["RX"] /\ issued'["RX"] = issued["RX"] /\ hw'["RX"] = hw["RX"]
      /\ Newest("RX")' = Newest("RX")
  BY <1>0, <1>1, IssueFrame
<1>3. InHand("RX")' <=> InHand("RX")
  BY <1>0, <1>1, IssueFrame
<1>4. \A c \in Chan : (Leaving(c)' <=> Leaving(c)) /\ (Active(c)' <=> Active(c))
  BY <1>0, <1>1, IssueFrame
<1>5. Active("TX") => ~InHand("TX")
  BY <1>0, <1>1 DEF InHandInv
<1>6. ASSUME Active("TX")
      PROVE  /\ InHand("TX")' /\ Newest("TX")'.db = wp'["TX"] /\ issued'["TX"] # << >>
             /\ Leaving("TX") => /\ Len(issued'["TX"]) = 2 /\ issued'["TX"][1].of = retiring.of
                                 /\ issued'["TX"][2].of = n /\ retiring.of < n
             /\ ~Leaving("TX") => Len(issued'["TX"]) = 1 /\ issued'["TX"][1].of = n
             /\ Len(hw'["TX"]) = 1 /\ hw'["TX"][1].of = n /\ hw'["TX"][1].db = wp'["TX"]
             /\ wp'["TX"] = (wp["TX"] + 3) % RingSize
  <2>1. Avail("TX") >= Tres["TX"] /\ (Leaving("TX") => retiring.of < n)
    BY <1>0, <1>1 DEF RoomToIssue, IssueInv, Leaving
  <2> QED
    BY <1>0, <1>1, <1>5, <1>6, <2>1, IssueShape
<1>7. Active("TX") => /\ slot = NoSlot /\ hw["TX"] = << >>
                      /\ \A i \in DOMAIN evq : About(evq[i], "TX") => evq[i].code = "EOT"
  <2>1. ASSUME Active("TX"), NEW i \in DOMAIN evq, About(evq[i], "TX")
        PROVE  evq[i].code = "EOT"
    <3>1. evq[i].code \in {"EOB", "EOT", "ERR"} /\ evq[i].code # "EOB"
      BY <1>0, <1>5, <2>1, NothingInHand DEF TxInv
    <3> QED
      BY <1>1, <2>1, <3>1 DEF ErrInv
  <2> QED
    BY <1>0, <1>5, <2>1, NothingInHand
<1>8. /\ \A e \in late : e \in Events
      /\ \A i \in DOMAIN evq : evq[i] \in Events
      /\ \A e \in Events : e.of \in Nat
  <2>1. \A e \in Events : e.of \in Nat
    BY BoundAssumption DEF Events, Call
  <2> QED
    BY <2>1 DEF TypeInv, EventType, HardwareType
<1>9. ASSUME Active("TX"), NEW e \in late, e.type = "xfer"
      PROVE  e.of < n /\ Near(e)'
  <2>1. Near(e) /\ e.ch = "TX" /\ e.of \in Nat
    BY <1>8, <1>9 DEF LateInv
  <2>2. 3 * (n - e.of) < RingSize
    BY <1>0, <1>9, <2>1 DEF InLap, Active
  <2> QED
    BY <1>1, <1>2, <1>6, <1>9, <2>1, <2>2, NearNext
<1>10. ASSUME Active("TX"), NEW e, NEW i \in DOMAIN evq, e = evq[i], About(e, "TX")
      PROVE  e.of < n /\ Near(e)'
  <2>1. Near(e) /\ e.ch = "TX" /\ e.of \in Nat /\ e.type = "xfer"
    BY <1>7, <1>8, <1>10 DEF TxInv, About
  <2>2. 3 * (n - e.of) < RingSize
    BY <1>0, <1>10, <2>1 DEF InLap, Active
  <2> QED
    BY <1>1, <1>2, <1>6, <1>10, <2>1, <2>2, NearNext
<1>11. n \in Nat
  BY BoundAssumption DEF TypeInv, ClientType
<1>12. PhaseInv' /\ WriteInv' /\ IssueInv'
  BY <1>1, <1>2 DEF PhaseInv, WriteInv, IssueInv
<1>13. InHandInv'
  BY <1>0, <1>1, <1>2, <1>3, <1>4, <1>5, <1>6 DEF InHandInv, IssueInv
<1>14. ListInv'
  BY <1>0, <1>2, <1>4, <1>6 DEF ListInv
<1>15. RetiringInv'
  BY <1>2 DEF RetiringInv, Active
<1>16. SlotInv' /\ DeferredHasWakeup'
  BY <1>0, <1>2, <1>4, <1>7 DEF SlotInv, DeferredHasWakeup
<1>17. HwInv'
  <2>1. Active("TX") => \A i \in DOMAIN evq : About(evq[i], "TX") => evq[i].of # n
    BY <1>8, <1>10, <1>11
  <2>2. Active("TX") => \A e \in late : e.type = "xfer" => e.of # n
    BY <1>8, <1>9, <1>11
  <2>3. ASSUME Active("TX")
        PROVE  /\ Len(hw'["TX"]) = 1 /\ hw'["TX"][1].of = n' /\ hw'["TX"][1].db = wp'["TX"]
               /\ InHand("TX")'
               /\ \A i \in DOMAIN evq' : About(evq'[i], "TX") /\ Terminal(evq'[i]) => evq'[i].of # n'
               /\ \A e \in late' : e.type = "xfer" => e.of # n'
    BY <1>2, <1>6, <2>1, <2>2, <2>3
  <2>4. ASSUME Active("RX"), hw'["RX"] # << >>
        PROVE  /\ Len(hw'["RX"]) = 1 /\ hw'["RX"][1].of = n' /\ hw'["RX"][1].db = wp'["RX"]
               /\ InHand("RX")'
               /\ \A i \in DOMAIN evq' : About(evq'[i], "RX") /\ Terminal(evq'[i]) => evq'[i].of # n'
    BY <1>0, <1>2, <1>3, <2>4 DEF HwInv
  <2> QED
    BY <1>0, <1>4, <2>3, <2>4 DEF HwInv, About, Terminal
<1>18. RxInv'
  BY <1>0, <1>2, <1>3, <1>4 DEF RxInv, About, Terminal
<1>19. LateInv'
  BY <1>0, <1>2, <1>4, <1>9 DEF LateInv
<1>20. TxInv'
  <2>1. ASSUME Active("TX"), NEW i \in DOMAIN evq', About(evq'[i], "TX")
        PROVE  evq'[i].of <= n' /\ evq'[i].code = "EOT" /\ Near(evq[i])'
    <3>1. evq'[i] = evq[i] /\ i \in DOMAIN evq
      BY <1>2
    <3>2. evq[i].of < n /\ evq[i].code = "EOT"
      BY <1>7, <1>10, <2>1, <3>1
    <3>3. PICK e : e = evq[i]
      OBVIOUS
    <3>4. Near(e)'
      BY <1>10, <2>1, <3>1, <3>3
    <3> QED
      BY <1>2, <1>8, <1>11, <3>1, <3>2, <3>3, <3>4
  <2> QED
    BY <1>0, <1>4, <2>1 DEF TxInv, About
<1>21. ErrInv' /\ OrderInv'
  BY <1>0, <1>2, <1>4, <1>7 DEF ErrInv, OrderInv, About, Terminal
<1>22. RpInv'
  BY <1>0, <1>1, <1>2, <1>3, <1>4, <1>6 DEF RpInv
<1>23. RoomToIssue'
  BY <1>1 DEF RoomToIssue
<1> QED
  BY <1>12, <1>13, <1>14, <1>15, <1>16, <1>17, <1>18, <1>19, <1>20, <1>21, <1>22, <1>23

(* All of a call.                                                          *)
LEMMA OwnTransfer ==
  ASSUME TypeInv, OwnInv, InLap, Transfer
  PROVE  OwnInv'
BY OwnIssueRx, OwnIssueTx, OwnWaits DEF Transfer

(* The slot is cleared.                                                    *)
LEMMA OwnClear ==
  ASSUME TypeInv, OwnInv, TClear
  PROVE  OwnInv'
<1> USE DEF OwnInv
<1>0. "TX" \in Chan /\ "RX" \in Chan
  BY DEF Chan
<1>1. /\ pcC = "clear" /\ pcC' = "stop" /\ slot' = NoSlot
      /\ UNCHANGED <<n, kind, outcome, round, ti, rings, evq, tasklet, hardware>>
  BY DEF TClear
<1>2. \A ch : Active(ch)' <=> Active(ch)
  BY <1>1 DEF Active
<1>3. SameHand /\ \A ch \in Chan : Newest(ch)' = Newest(ch)
  BY <1>1, HandKept
<1>4. \A e : Near(e) => Near(e)'
  BY <1>0, <1>1, <1>3, NearKept DEF SameHand
<1>5. PhaseInv' /\ WriteInv' /\ IssueInv'
  BY <1>1 DEF PhaseInv, WriteInv, IssueInv
<1>6. InHandInv' /\ ListInv' /\ RetiringInv'
  BY <1>1, <1>2, <1>3 DEF InHandInv, ListInv, RetiringInv, SameHand, Leaving
<1>7. SlotInv' /\ DeferredHasWakeup' /\ RoomToIssue'
  BY <1>1 DEF SlotInv, DeferredHasWakeup, RoomToIssue
<1>8. HwInv' /\ RxInv' /\ LateInv' /\ TxInv' /\ ErrInv' /\ OrderInv'
  BY <1>0, <1>1, <1>2, <1>3, <1>4
     DEF HwInv, RxInv, LateInv, TxInv, ErrInv, OrderInv, SameHand, About, Terminal
<1>9. RpInv'
  BY <1>1, <1>2, <1>3 DEF RpInv, SameHand
<1> QED
  BY <1>5, <1>6, <1>7, <1>8, <1>9

(* A channel is marked and stopped.                                        *)
LEMMA OwnPrepare ==
  ASSUME TypeInv, OwnInv, TPrepare
  PROVE  OwnInv'
<1> USE DEF OwnInv
<1>0. "TX" \in Chan /\ "RX" \in Chan /\ Chan = {"TX", "RX"}
  BY DEF Chan
<1>1. /\ pcC = "stop" /\ pcK = "idle" /\ pcK' = "idle" /\ ti \in Chan
      /\ UNCHANGED <<n, kind, outcome, round, rp, wp, issued, deferral, evq, snap,
                     retiring, hardware>>
      /\ chan \in [Chan -> {"active", "prepare"}] /\ chan' = [chan EXCEPT ![ti] = "prepare"]
      /\ \/ ti = "TX" /\ pcC' = "stop" /\ ti' = "RX"
         \/ ti = "RX" /\ pcC' = "reset" /\ ti' = "TX"
  BY DEF TPrepare, TaskletIdle, NextChannel, TypeInv, ClientType, RingType, Chan
<1>2. \A ch \in Chan : (Active(ch)' => Active(ch)) /\ (ch = ti => ~Active(ch)')
  BY <1>1 DEF Active
<1>3. SameHand /\ \A ch \in Chan : Newest(ch)' = Newest(ch)
  BY <1>1 DEF SameHand, InHand, Leaving, Newest
<1>4. \A e : Near(e) => Near(e)'
  BY <1>0, <1>1, <1>3, NearKept DEF SameHand
<1>5. slot = NoSlot
  BY <1>0, <1>1 DEF PhaseInv, SlotInv, Active
<1>6. PhaseInv'
  BY <1>0, <1>1 DEF PhaseInv
<1>7. WriteInv' /\ IssueInv' /\ RetiringInv'
  BY <1>1 DEF WriteInv, IssueInv, RetiringInv
<1>8. InHandInv'
  <2>1. pcC' = "reset" => ~Active("TX")'
    BY <1>0, <1>1 DEF PhaseInv, Active
  <2> QED
    BY <1>0, <1>1, <1>2, <1>3, <2>1 DEF InHandInv, SameHand
<1>9. ListInv'
  BY <1>1, <1>2, <1>3 DEF ListInv, SameHand, Leaving
<1>10. SlotInv' /\ DeferredHasWakeup' /\ RoomToIssue'
  BY <1>1, <1>5 DEF SlotInv, DeferredHasWakeup, RoomToIssue
<1>11. HwInv' /\ RxInv' /\ LateInv' /\ TxInv' /\ ErrInv' /\ OrderInv'
  BY <1>0, <1>1, <1>2, <1>3, <1>4
     DEF HwInv, RxInv, LateInv, TxInv, ErrInv, OrderInv, SameHand, About, Terminal
<1>12. RpInv'
  BY <1>1, <1>2, <1>3 DEF RpInv, SameHand
<1> QED
  BY <1>6, <1>7, <1>8, <1>9, <1>10, <1>11, <1>12

(* When nothing is left of the channels that are active, all is well.      *)
LEMMA OwnFresh ==
  ASSUME TypeInv, PhaseInv', \A ch \in Chan : Active(ch)' => Clean(ch)',
         pcK' # "retire", slot' = NoSlot, WriteInv',
         pcC' \notin {"issue_rx", "issue_tx"}, \A e \in late' : e.ch = "TX"
  PROVE  OwnInv'
<1>0. "TX" \in Chan /\ "RX" \in Chan
  BY DEF Chan
<1>1. InHandInv' /\ ListInv' /\ RetiringInv' /\ IssueInv'
  BY DEF InHandInv, ListInv, RetiringInv, IssueInv, Clean, InHand, Leaving
<1>2. SlotInv' /\ DeferredHasWakeup' /\ RoomToIssue'
  BY DEF SlotInv, DeferredHasWakeup, RoomToIssue
<1>3. HwInv' /\ RxInv' /\ LateInv' /\ TxInv' /\ ErrInv' /\ OrderInv' /\ RpInv'
  BY <1>0 DEF HwInv, RxInv, LateInv, TxInv, ErrInv, OrderInv, RpInv, Clean
<1> QED
  BY <1>1, <1>2, <1>3 DEF OwnInv

(* A channel is reset and its events become stale.                         *)
LEMMA OwnReset ==
  ASSUME TypeInv, OwnInv, TReset
  PROVE  OwnInv'
<1>0. "TX" \in Chan /\ "RX" \in Chan /\ Chan = {"TX", "RX"}
  BY DEF Chan
<1>1. /\ pcC = "reset" /\ pcK = "idle" /\ ti \in Chan
      /\ UNCHANGED <<n, kind, outcome, round, chan, deferral, tasklet>>
      /\ rp' = [rp EXCEPT ![ti] = 0] /\ wp' = [wp EXCEPT ![ti] = 0]
      /\ issued' = [issued EXCEPT ![ti] = << >>] /\ hw' = [hw EXCEPT ![ti] = << >>]
      /\ evq' = MarkStale(ti) /\ late' = IF ti = "TX" THEN {} ELSE late
      /\ \/ ti = "TX" /\ pcC' = "reset" /\ ti' = "RX"
         \/ ti = "RX" /\ pcC' = "start" /\ ti' = "TX"
  BY DEF TReset, TaskletIdle, NextChannel, TypeInv, ClientType, Chan
<1>2. /\ rp \in [Chan -> Slots] /\ wp \in [Chan -> Slots]
      /\ issued \in [Chan -> Seq(Descriptor)] /\ hw \in [Chan -> Seq(Given)]
  BY DEF TypeInv, RingType, HardwareType
<1>3. /\ DOMAIN evq' = DOMAIN evq
      /\ \A i \in DOMAIN evq : /\ About(evq'[i], "TX") => ti # "TX" /\ About(evq[i], "TX")
                               /\ About(evq'[i], "RX") => ti # "RX" /\ About(evq[i], "RX")
  <2>1. evq \in Seq(Events)
    BY DEF TypeInv, EventType
  <2>2. DOMAIN evq' = DOMAIN evq
    BY <1>1, <2>1, MarkStaleKeeps
  <2>3. ASSUME NEW i \in DOMAIN evq
        PROVE  evq'[i] = IF evq[i].ch = ti THEN [evq[i] EXCEPT !.type = "stale"] ELSE evq[i]
    BY <1>1, <2>3 DEF MarkStale
  <2>4. \A i \in DOMAIN evq : evq[i] \in Events
    BY <2>1
  <2>5. ASSUME NEW i \in DOMAIN evq, evq[i].ch = ti
        PROVE  evq'[i].type = "stale"
    BY <2>3, <2>4, <2>5 DEF Events
  <2> QED
    BY <2>2, <2>3, <2>5 DEF About
<1>4. ASSUME NEW ch \in Chan, ch = ti \/ Clean(ch)
      PROVE  Clean(ch)'
  <2>1. CASE ch = ti
    BY <1>0, <1>1, <1>2, <1>3, <2>1 DEF Clean
  <2>2. CASE ch # ti /\ Clean(ch)
    BY <1>0, <1>1, <1>2, <1>3, <2>2 DEF Clean
  <2> QED
    BY <1>4, <2>1, <2>2
<1>5. \A ch \in Chan : ~Active(ch) /\ ~Active(ch)'
  BY <1>1 DEF OwnInv, PhaseInv, Active
<1>6. slot' = NoSlot
  BY <1>0, <1>1, <1>5 DEF OwnInv, SlotInv
<1>7. PhaseInv'
  <2>1. ti = "RX" => Clean("TX")' /\ Clean("RX")'
    BY <1>0, <1>1, <1>4 DEF OwnInv, PhaseInv
  <2>2. ti = "TX" => Clean("TX")'
    BY <1>0, <1>4
  <2>3. \A ch \in Chan : chan'[ch] = "prepare"
    BY <1>1 DEF OwnInv, PhaseInv
  <2> QED
    BY <1>0, <1>1, <2>1, <2>2, <2>3 DEF PhaseInv
<1>8. WriteInv' /\ \A e \in late' : e.ch = "TX"
  BY <1>1 DEF OwnInv, WriteInv, LateInv
<1> QED
  BY <1>1, <1>5, <1>6, <1>7, <1>8, OwnFresh

(* A channel is started, or a command fails and the rest is skipped.       *)
LEMMA OwnRestart ==
  ASSUME TypeInv, OwnInv, TStart \/ TCommandFails
  PROVE  OwnInv'
<1>0. "TX" \in Chan /\ "RX" \in Chan /\ Chan = {"TX", "RX"}
  BY DEF Chan
<1>1. /\ UNCHANGED <<n, kind, outcome, rp, wp, issued, deferral, evq, pcK, retiring, hardware>>
      /\ pcC \in {"reset", "start"} /\ ti \in Chan
      /\ \/ pcC' \in {"clear", "idle"} /\ ti' = "TX"
         \/ pcC = "start" /\ ti = "TX" /\ pcC' = "start" /\ ti' = "RX"
  BY DEF TStart, TCommandFails, TerminateExit, TypeInv, ClientType
<1>2. /\ chan \in [Chan -> {"active", "prepare"}]
      /\ \/ chan' = chan
         \/ pcC = "start" /\ chan' = [chan EXCEPT ![ti] = "active"]
  BY DEF TStart, TCommandFails, TypeInv, RingType
<1>3. ASSUME NEW ch \in Chan
      PROVE  /\ Clean(ch) => Clean(ch)'
             /\ pcC = "start" => Clean(ch)
             /\ pcC = "reset" => ~Active(ch) /\ ~Active(ch)'
  <2>1. Clean(ch) => Clean(ch)'
    BY <1>1 DEF Clean, About
  <2> QED
    BY <1>0, <1>2, <2>1 DEF OwnInv, PhaseInv, Active
<1>4. \A ch \in Chan : Active(ch) => Clean(ch)
  BY <1>1, <1>3
<1>5. \A ch \in Chan : Active(ch)' => Clean(ch)'
  BY <1>1, <1>3
<1>6. slot' = NoSlot
  BY <1>0, <1>1, <1>4 DEF OwnInv, SlotInv, InHand, Clean
<1>7. pcK' # "retire"
  <2>1. ASSUME pcK = "retire"
        PROVE  FALSE
    <3>1. retiring.ch \in Chan
      BY DEF TypeInv, TaskletType
    <3>2. Active(retiring.ch) /\ issued[retiring.ch] # << >>
      BY <2>1, <3>1 DEF OwnInv, RetiringInv, ListInv, Leaving
    <3> QED
      BY <1>4, <3>1, <3>2 DEF Clean
  <2> QED
    BY <1>1, <2>1
<1>8. PhaseInv'
  <2>1. CASE pcC' \in {"clear", "idle"} /\ ti' = "TX"
    BY <2>1 DEF PhaseInv
  <2>2. CASE pcC = "start" /\ ti = "TX" /\ pcC' = "start" /\ ti' = "RX"
    <3>1. chan'["RX"] = "prepare" /\ Clean("RX")' /\ Clean("TX")'
      BY <1>0, <1>2, <1>3, <2>2 DEF OwnInv, PhaseInv
    <3> QED
      BY <2>2, <3>1 DEF PhaseInv
  <2> QED
    BY <1>1, <2>1, <2>2
<1>9. WriteInv' /\ \A e \in late' : e.ch = "TX"
  BY <1>1 DEF OwnInv, WriteInv, LateInv
<1> QED
  BY <1>1, <1>5, <1>6, <1>7, <1>8, <1>9, OwnFresh

(* All of gpi_terminate_all.                                               *)
LEMMA OwnTerminate ==
  ASSUME TypeInv, OwnInv, Terminate
  PROVE  OwnInv'
BY OwnClear, OwnPrepare, OwnReset, OwnRestart DEF Terminate

-----------------------------------------------------------------------------
(* All steps, and what follows.                                            *)

(* Every step keeps the invariant.                                         *)
LEMMA OwnNext ==
  ASSUME TypeInv, OwnInv, InLap, [Next]_vars, ~strayed'
  PROVE  OwnInv'
<1>1. CASE Next
  BY <1>1, OwnHw, OwnQuiet, OwnTasklet, OwnTransfer, OwnTerminate, OwnStart DEF Next
<1>2. CASE UNCHANGED vars
  BY <1>2, OwnQuiet
<1> QED
  BY <1>1, <1>2

(* It holds at first.                                                      *)
LEMMA OwnInit == Init => OwnInv
<1> SUFFICES ASSUME Init
             PROVE  OwnInv
  OBVIOUS
<1>1. /\ pcC = "idle" /\ ti = "TX" /\ pcK = "idle" /\ slot = NoSlot /\ kind = "pair" /\ late = {}
      /\ "TX" \in Chan /\ "RX" \in Chan
      /\ \A ch \in Chan : issued[ch] = << >> /\ hw[ch] = << >> /\ rp[ch] = wp[ch]
      /\ evq = << >>
  BY DEF Init, Chan
<1>2. \A i \in DOMAIN evq : FALSE
  BY <1>1
<1>3. PhaseInv /\ InHandInv /\ ListInv /\ RetiringInv /\ WriteInv /\ IssueInv
  BY <1>1 DEF PhaseInv, InHandInv, ListInv, RetiringInv, WriteInv, IssueInv, InHand, Leaving
<1>4. SlotInv /\ HwInv /\ RpInv /\ RoomToIssue /\ DeferredHasWakeup /\ LateInv
  BY <1>1 DEF SlotInv, HwInv, RpInv, RoomToIssue, DeferredHasWakeup, LateInv
<1>5. RxInv /\ TxInv /\ ErrInv /\ OrderInv
  BY <1>2 DEF RxInv, TxInv, ErrInv, OrderInv
<1> QED
  BY <1>3, <1>4, <1>5 DEF OwnInv

(* What the invariant says of the deferred slot and of the rings.          *)
LEMMA OwnSafe ==
  ASSUME TypeInv, OwnInv
  PROVE  DeferralSound /\ RingSafe
<1>1. \A ch \in Chan : issued[ch] # << >> =>
        /\ issued[ch][1].of \in Listed(issued[ch])
        /\ Newest(ch).of \in Listed(issued[ch])
  <2>1. ASSUME NEW ch \in Chan, issued[ch] # << >>
        PROVE  /\ issued[ch][1].of \in Listed(issued[ch])
               /\ Newest(ch).of \in Listed(issued[ch])
    <3>1. issued[ch] \in Seq(Descriptor)
      BY DEF TypeInv, RingType
    <3>2. 1 \in DOMAIN issued[ch] /\ Len(issued[ch]) \in DOMAIN issued[ch]
      BY <2>1, <3>1
    <3> QED
      BY <3>2 DEF Listed, Newest
  <2> QED
    BY <2>1
<1>2. DeferredIsLive
  BY <1>1 DEF OwnInv, SlotInv, InHand, DeferredIsLive, Chan
<1>3. RetireLive
  <2>1. pcK = "retire" => retiring.ch \in Chan
    BY DEF TypeInv, TaskletType
  <2> QED
    BY <1>1, <2>1 DEF OwnInv, RetiringInv, ListInv, Leaving, RetireLive
<1>4. RingQuiet
  BY DEF OwnInv, RpInv, RingQuiet, Active, InHand
<1> QED
  BY <1>2, <1>3, <1>4 DEF OwnInv, DeferralSound, RingSafe

(* Where a callback runs, and for which descriptor.                        *)
LEMMA CallbackOwn ==
  ASSUME TypeInv, OwnInv, InLap, [Next]_vars, pcK # "retire", pcK' = "retire"
  PROVE  /\ retiring'.ch \in Chan /\ retiring'.of = n
         /\ pcC # "idle" /\ outcome[retiring'.ch] = "none"
         /\ pcK = "events" /\ snap > 0 /\ Head(evq).type = "xfer" => Head(evq).of = n
<1>1. TkEvent \/ TkFinish
  <2>1. Hw \/ Irq \/ Timer \/ Transfer \/ Terminate \/ (\E k \in {"pair", "write"} : Start(k))
          \/ UNCHANGED vars => pcK' = pcK
    BY DEF Hw, HwEob, HwEot, HwError, HwLate, Irq, Timer, TimerRead, TimerWrite, Transfer,
       IssueRx, IssueTx, Issue, WaitRx, WaitTx, ReadStatus, Terminate, TClear, TPrepare,
       TReset, TStart, TCommandFails, Start, vars
  <2>2. Tasklet => TkEvent \/ TkFinish
    BY DEF Tasklet, TkStart, TkRetire, Leave, TkClear, TkReread
  <2> QED
    BY <2>1, <2>2 DEF Next
<1>2. ASSUME NEW next, CompleteDeferred(next)
      PROVE  /\ retiring'.ch = "TX" /\ retiring'.of = n
             /\ pcC # "idle" /\ outcome["TX"] = "none"
  BY <1>2, SlotOwn DEF CompleteDeferred, Callback
<1>3. CASE TkFinish
  BY <1>2, <1>3 DEF TkFinish, Leave, Chan
<1>4. CASE TkEvent
  <2> DEFINE e == evq[1]
  <2>1. /\ 1 \in DOMAIN evq /\ Head(evq) = e /\ e \in Events /\ pcK = "events"
        /\ XferEvent(e) \/ QupEvent(e) \/ StaleEvent(e)
    BY <1>4, EventTaken DEF TkEvent
  <2>2. e.ch \in Chan
    BY <2>1 DEF Events
  <2> HIDE DEF e
  <2>3. CASE XferEvent(e)
    <3>1. XferComplete(e) /\ e.type = "xfer"
      BY <2>1, <2>3 DEF XferEvent, XferDiscard, XferEob, XferDefer, XferDuplicate
    <3>2. Attributable(e) /\ Callback(e.ch, Head(issued[e.ch]).of, e.ok, "events")
      BY <3>1 DEF XferComplete
    <3>3. Active(e.ch) /\ InHand(e.ch) /\ e.of = n /\ Head(issued[e.ch]).of = n
      BY <2>1, <2>2, <3>1, <3>2, Attributed DEF e
    <3>4. retiring'.ch = e.ch /\ retiring'.of = n
      BY <3>2, <3>3 DEF Callback
    <3> QED
      BY <2>1, <2>2, <3>3, <3>4 DEF OwnInv, InHandInv
  <2>4. CASE QupEvent(e)
    BY <1>2, <2>1, <2>4 DEF QupEvent, Chan
  <2> QED
    BY <2>1, <2>3, <2>4 DEF StaleEvent
<1> QED
  BY <1>1, <1>3, <1>4

(* Which descriptor is deferred.                                           *)
LEMMA DeferOwn ==
  ASSUME TypeInv, OwnInv, InLap, [Next]_vars, slot' \notin {slot, NoSlot}
  PROVE  /\ slot'.of = n
         /\ pcK = "events" /\ snap > 0 => Head(evq).of = n
<1>1. TkEvent
  <2>1. Hw \/ Irq \/ Timer \/ Transfer \/ Terminate \/ (\E k \in {"pair", "write"} : Start(k))
          \/ UNCHANGED vars => slot' \in {slot, NoSlot}
    BY DEF Hw, HwEob, HwEot, HwError, HwLate, Irq, Timer, TimerRead, TimerWrite, Transfer,
       IssueRx, IssueTx, Issue, WaitRx, WaitTx, ReadStatus, Terminate, TClear, TPrepare,
       TReset, TStart, TCommandFails, Start, vars
  <2>2. TkStart \/ TkRetire \/ TkClear \/ TkReread \/ TkFinish => slot' \in {slot, NoSlot}
    BY DEF TkStart, TkRetire, TkClear, TkReread, TkFinish, CompleteDeferred
  <2> QED
    BY <2>1, <2>2 DEF Next, Tasklet
<1> DEFINE e == evq[1]
<1>2. /\ 1 \in DOMAIN evq /\ Head(evq) = e /\ e \in Events /\ pcK = "events"
      /\ XferEvent(e) \/ QupEvent(e) \/ StaleEvent(e)
  BY <1>1, EventTaken DEF TkEvent
<1>3. e.ch \in Chan
  BY <1>2 DEF Events
<1> HIDE DEF e
<1>4. XferDefer(e) /\ e.type = "xfer"
  BY <1>2 DEF XferEvent, XferDiscard, XferEob, XferDuplicate, XferComplete, QupEvent, StaleEvent,
     CompleteDeferred
<1>5. Attributable(e) /\ e.ch = "TX" /\ slot' = [of |-> Head(issued["TX"]).of, ok |-> e.ok]
  BY <1>4 DEF XferDefer
<1>6. e.of = n /\ Head(issued["TX"]).of = n
  BY <1>2, <1>3, <1>4, <1>5, Attributed DEF e
<1> QED
  BY <1>2, <1>5, <1>6

(* The invariant of the transfer machinery, with errors and duplicates,    *)
(* while no event is a lap late and no TX has strayed: a descriptor on a   *)
(* list, in the hardware or in the deferred slot is the one of the call in *)
(* progress.                                                               *)
THEOREM OwnInvariant ==
  Spec /\ []InLap => [](TypeInv /\ CallInv /\ WakeInv /\ (strayed \/ OwnInv))
<1> DEFINE Inv == TypeInv /\ CallInv /\ WakeInv /\ (strayed \/ OwnInv)
<1>1. Init => Inv
  BY InitInv, OwnInit
<1>2. Inv /\ InLap /\ [Next]_vars => Inv'
  <2> SUFFICES ASSUME Inv, InLap, [Next]_vars
               PROVE  Inv'
    OBVIOUS
  <2>1. TypeInv' /\ CallInv' /\ WakeInv'
    BY TypeNext, WakeNext
  <2>2. strayed => strayed'
    BY StrayedStays DEF TypeInv, DeferralType
  <2>3. strayed' \/ OwnInv'
    BY <2>2, OwnNext
  <2> QED
    BY <2>1, <2>3
<1> QED
  BY <1>1, <1>2, PTL DEF Spec

(* Whatever the hardware reports, errors and duplicates included, and      *)
(* whenever the tasklet runs, a deferred descriptor has a wakeup; it is    *)
(* not freed, gpi_queue_xfer has room and at rest the read pointer has     *)
(* caught up, until a TX is deferred behind the clearing of the slot: as   *)
(* long as no event is a lap late.                                         *)
THEOREM SafeWithinALap == Spec /\ []InLap => [](DeferralSound /\ (strayed \/ RingSafe))
<1>1. TypeInv /\ CallInv /\ WakeInv /\ (strayed \/ OwnInv) =>
        DeferralSound /\ (strayed \/ RingSafe)
  BY OwnSafe DEF WakeInv, DeferralSound
<1> QED
  BY <1>1, OwnInvariant, PTL

(* Under the same hypothesis gpi.c runs a callback only while the call it  *)
(* answers is in progress, and only once.                                  *)
THEOREM CallbacksInTime == Spec /\ []InLap => CallbackInTime
<1>1. TypeInv /\ (strayed \/ OwnInv) /\ InLap /\ [Next]_vars =>
        [pcK # "retire" /\ pcK' = "retire" /\ ~strayed =>
          /\ pcC # "idle"
          /\ retiring'.of = n
          /\ outcome[retiring'.ch] = "none"]_vars
  BY CallbackOwn
<1> QED
  BY <1>1, OwnInvariant, PTL DEF Spec, CallbackInTime

(* Under the same hypothesis gpi_process_xfer_compl_event completes or     *)
(* defers the descriptor an event is about, never that of a later call.    *)
THEOREM EventsOwn == Spec /\ []InLap => EventsStayOwn
<1>1. TypeInv /\ (strayed \/ OwnInv) /\ InLap /\ [Next]_vars =>
        [pcK = "events" /\ snap > 0 /\ Head(evq).type = "xfer" /\ ~strayed =>
          /\ pcK' = "retire" => retiring'.of = Head(evq).of
          /\ slot' \notin {slot, NoSlot} => slot'.of = Head(evq).of]_vars
  BY CallbackOwn, DeferOwn
<1> QED
  BY <1>1, OwnInvariant, PTL DEF Spec, EventsStayOwn
=============================================================================

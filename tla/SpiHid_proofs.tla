---------------------------- MODULE SpiHid_proofs ----------------------------
(***************************************************************************)
(* SpiHid for every number of errors, attempts and retries and every       *)
(* length of the device's queue: types and loop bounds, the error budget   *)
(* of the interrupt, and the origin of every HID device.                   *)
(***************************************************************************)
EXTENDS SpiHid, TLAPS

USE DEF deviceVars, irqVars, answerVars, hidVars, powerVars, workVars

-----------------------------------------------------------------------------
(* What is said about a queue of reports.                                  *)

Only(s, K) == \A k \in 1..Len(s) : s[k] \in K

(* Behind a report of kind a there is none of a kind in B.                 *)
NoneBehind(s, a, B) ==
  \A i, j \in 1..Len(s) : i < j /\ s[i] = a => s[j] \notin B

(* What is left after a reset: at most one report read before it.          *)
Reduced(s) == \A k \in 1..Len(s) : k > 1 => s[k] = "reset"

NotReport  == Kinds \ {"report"}
LastWords  == {"report", "reset"}
OtherKinds == {"device", "feature"}

LEMMA TailKeeps ==
  ASSUME NEW s \in Seq(Kinds), s # <<>>
  PROVE  /\ Tail(s) \in Seq(Kinds) /\ Len(Tail(s)) <= Len(s) /\ Head(s) \in Kinds
         /\ \A K : Only(s, K) => Only(Tail(s), K) /\ Head(s) \in K
         /\ \A a, B : NoneBehind(s, a, B) => NoneBehind(Tail(s), a, B)
         /\ Reduced(s) => Reduced(Tail(s))
         /\ NoneBehind(s, "device", {"report"}) /\ Head(s) = "device"
              => Only(Tail(s), NotReport)
         /\ NoneBehind(s, "report", OtherKinds) /\ Head(s) = "report"
              => Only(Tail(s), LastWords)
<1>1. /\ Len(s) \in Nat /\ Len(s) > 0 /\ Head(s) = s[1]
      /\ Tail(s) \in Seq(Kinds) /\ Len(Tail(s)) = Len(s) - 1
      /\ \A k \in 1..Len(s) - 1 : Tail(s)[k] = s[k + 1]
      /\ \A k \in 1..Len(s) : s[k] \in Kinds
  OBVIOUS
<1>2. \A k \in 1..Len(Tail(s)) :
        k + 1 \in 1..Len(s) /\ k + 1 > 1 /\ Tail(s)[k] = s[k + 1]
  BY <1>1
<1>3. 1 \in 1..Len(s)
  BY <1>1
<1>4. Reduced(s) => Reduced(Tail(s))
  BY <1>1, <1>2 DEF Reduced
<1>5. \A K : Only(s, K) => Only(Tail(s), K) /\ Head(s) \in K
  BY <1>1, <1>2, <1>3 DEF Only
<1>6. \A a, B : NoneBehind(s, a, B) => NoneBehind(Tail(s), a, B)
  BY <1>1, <1>2 DEF NoneBehind
<1>7. ASSUME NoneBehind(s, "device", {"report"}), Head(s) = "device"
      PROVE  Only(Tail(s), NotReport)
  BY <1>1, <1>2, <1>3, <1>7 DEF NoneBehind, Only, NotReport
<1>8. ASSUME NoneBehind(s, "report", OtherKinds), Head(s) = "report"
      PROVE  Only(Tail(s), LastWords)
  BY <1>1, <1>2, <1>3, <1>8 DEF NoneBehind, Only, LastWords, OtherKinds, Kinds
<1> QED
  BY <1>1, <1>3, <1>4, <1>5, <1>6, <1>7, <1>8

LEMMA AppendKeeps ==
  ASSUME NEW s \in Seq(Kinds), NEW r \in Kinds
  PROVE  /\ Append(s, r) \in Seq(Kinds) /\ Len(Append(s, r)) = Len(s) + 1
         /\ \A K : Only(s, K) /\ r \in K => Only(Append(s, r), K)
         /\ \A a, B : NoneBehind(s, a, B) /\ r \notin B
              => NoneBehind(Append(s, r), a, B)
<1>1. /\ Append(s, r) \in Seq(Kinds) /\ Len(Append(s, r)) = Len(s) + 1
      /\ Len(s) \in Nat
      /\ \A k \in 1..Len(s) : Append(s, r)[k] = s[k]
      /\ Append(s, r)[Len(s) + 1] = r
  OBVIOUS
<1>2. \A k \in 1..Len(Append(s, r)) : k \in 1..Len(s) \/ k = Len(s) + 1
  BY <1>1
<1>3. \A K : Only(s, K) /\ r \in K => Only(Append(s, r), K)
  BY <1>1, <1>2 DEF Only
<1>4. \A a, B : NoneBehind(s, a, B) /\ r \notin B
        => NoneBehind(Append(s, r), a, B)
  <2> SUFFICES ASSUME NEW a, NEW B, NoneBehind(s, a, B), r \notin B,
                      NEW i \in 1..Len(Append(s, r)),
                      NEW j \in 1..Len(Append(s, r)),
                      i < j, Append(s, r)[i] = a
               PROVE  Append(s, r)[j] \notin B
    BY DEF NoneBehind
  <2>1. i \in 1..Len(s)
    BY <1>1, <1>2
  <2>2. CASE j = Len(s) + 1
    BY <1>1, <2>2
  <2>3. CASE j \in 1..Len(s)
    BY <1>1, <2>1, <2>3 DEF NoneBehind
  <2> QED
    BY <1>2, <2>2, <2>3
<1> QED
  BY <1>1, <1>3, <1>4

LEMMA ReducedOrdered ==
  ASSUME NEW s \in Seq(Kinds), Reduced(s)
  PROVE  NoneBehind(s, "device", {"report"}) /\ NoneBehind(s, "report", OtherKinds)
BY DEF Reduced, NoneBehind, OtherKinds

(* Every way a reset or a loss of power can leave the queue.               *)
LEMMA PulseKeeps ==
  ASSUME bus \in Seq(Kinds), NEW b \in Reading \cup AfterReset
  PROVE  /\ b \in Seq(Kinds) /\ Len(b) <= 2 /\ Reduced(b)
         /\ \A K : "reset" \in K /\ Only(bus, K) => Only(b, K)
<1>1. ASSUME bus # <<>>
      PROVE  /\ Head(bus) \in Kinds
             /\ \A K : Only(bus, K) => Head(bus) \in K
  BY <1>1, TailKeeps
<1>2. ASSUME NEW r \in Reading
      PROVE  /\ r \in Seq(Kinds) /\ Len(r) <= 1
             /\ \A K : Only(bus, K) => Only(r, K)
  <2>1. CASE r = <<>>
    BY <2>1 DEF Only
  <2>2. CASE bus # <<>> /\ r = <<Head(bus)>>
    <3>1. Len(r) = 1 /\ r[1] = Head(bus) /\ \A k \in 1..Len(r) : k = 1
      BY <2>2
    <3> QED
      BY <1>1, <2>2, <3>1 DEF Only
  <2> QED
    BY <1>2, <2>1, <2>2 DEF Reading
<1>3. CASE b \in Reading
  <2>1. b \in Seq(Kinds) /\ Len(b) \in Nat /\ Len(b) <= 1
    BY <1>2, <1>3
  <2> QED
    BY <1>2, <1>3, <2>1 DEF Reduced
<1>4. ASSUME NEW r \in Reading, b = Append(r, "reset")
      PROVE  /\ b \in Seq(Kinds) /\ Len(b) <= 2 /\ Reduced(b)
             /\ \A K : "reset" \in K /\ Only(bus, K) => Only(b, K)
  <2>1. r \in Seq(Kinds) /\ Len(r) \in Nat /\ Len(r) <= 1 /\ "reset" \in Kinds
    BY <1>2 DEF Kinds
  <2>2. /\ b \in Seq(Kinds) /\ Len(b) = Len(r) + 1
        /\ \A K : Only(r, K) /\ "reset" \in K => Only(b, K)
    BY <1>4, <2>1, AppendKeeps
  <2>3. b[Len(r) + 1] = "reset"
    BY <1>4, <2>1
  <2>4. \A k \in 1..Len(b) : k > 1 => k = Len(r) + 1
    BY <2>1, <2>2
  <2>5. Reduced(b)
    BY <2>3, <2>4 DEF Reduced
  <2> QED
    BY <1>2, <2>1, <2>2, <2>5
<1> QED
  BY <1>3, <1>4 DEF AfterReset

-----------------------------------------------------------------------------
(* The invariant behind RegisteredHasReport.  The lock says who waits for  *)
(* an answer, but not which answers are still under way: those of a cycle  *)
(* that was given up, of a request of user space that timed out, and of    *)
(* requests that were repeated.  What helps is the order of the queue:     *)
(* while reset_work asks for the report descriptor, nothing but resets and *)
(* further report descriptors can follow one.                              *)

Holding == {"clear", "send", "wait", "check", "take", "copy"}

(* The response was stored since reset_work last cleared the completion.   *)
Answered ==
  \/ pc["reset"] \in {"check", "take", "copy"}
  \/ pc["reset"] \in {"send", "wait"} /\ done

LockInv ==
  /\ pc["reset"] \in Holding <=> lock = "reset"
  /\ pc["user"] \in {"clear", "send", "wait", "done"} <=> lock = "user"
  /\ asking = "report" => pc["reset"] \in Holding
  /\ pc["reset"] \in {"take", "copy"} => asking = "report"

BufferInv == resp.kind \in Kinds \ {"reset"} => resp.buf = resp.kind

QueueInv ==
  /\ power_state = "off" => Reduced(bus)
  /\ asking = "device" =>
       /\ pc["reset"] \in {"error", "cancel"} \/ NoneBehind(bus, "device", {"report"})
       /\ Answered /\ resp.kind = "device" => Only(bus, NotReport)
  /\ asking = "report" =>
       /\ NoneBehind(bus, "report", OtherKinds)
       /\ Answered /\ resp.kind = "report" => Only(bus, LastWords)
  /\ pc["reset"] \in {"take", "copy"} =>
       resp.buf = "report" /\ Only(bus, LastWords)

OriginInv ==
  /\ rd \in {"none", "report"}
  /\ RegisteredHasReport

IInv == TypeOK /\ StormStopsIrq /\ LockInv /\ BufferInv /\ QueueInv /\ OriginInv

-----------------------------------------------------------------------------
LEMMA Initial == Init => IInv
<1> SUFFICES ASSUME Init PROVE IInv
  OBVIOUS
<1>1. TypeOK
  <2>1. bus \in Seq(Kinds) /\ Len(bus) = 1
    BY DEF Init, Kinds
  <2>2. /\ 1 <= BusLength /\ 0 \in 0..MaxActs /\ 0 \in 0..ErrorLimit
        /\ 0 \in 0..255 /\ 0 \in 0..ResetAttempts - 1
        /\ 0 \in 0..InitRetries - 1
    BY LimitAssumption, BoundAssumption
  <2>3. pc \in [{"reset", "create", "user"} -> Labels]
    BY DEF Init, Labels
  <2> QED
    BY <2>1, <2>2, <2>3 DEF Init, TypeOK, Creators, Requesters, Works
<1>2. StormStopsIrq /\ LockInv /\ BufferInv /\ OriginInv
  BY LimitAssumption
     DEF Init, StormStopsIrq, LockInv, BufferInv, OriginInv, Holding, Kinds,
         RegisteredHasReport, Creators
<1>3. NoneBehind(bus, "device", {"report"})
  BY DEF Init, NoneBehind
<1>4. QueueInv
  BY <1>3 DEF Init, QueueInv, Answered
<1> QED
  BY <1>1, <1>2, <1>4 DEF IInv


LEMMA QuietSteps ==
  ASSUME IInv,
         \/ IrqHeaderFails \/ ResetStarts \/ ResetFlushes \/ ResetLocks
         \/ ResetCopies \/ CreateStarts \/ Refreshes \/ UserLocks \/ UserEnds
  PROVE  IInv'
<1> USE LimitAssumption, BoundAssumption
        DEF IInv, Goto
<1>1. CASE IrqHeaderFails
  <2>4. bus_error_count < ErrorLimit /\ bus_error_count \in 0..ErrorLimit
    BY <1>1 DEF IrqHeaderFails, TypeOK, StormStopsIrq
  <2>5. /\ bus_error_count' = bus_error_count + 1 /\ irqOn' \in BOOLEAN
        /\ irqOn' <=> bus_error_count' # ErrorLimit
    BY <1>1 DEF IrqHeaderFails, HeaderErrors
  <2>6. bus_error_count' \in 0..ErrorLimit /\ StormStopsIrq'
    BY <2>4, <2>5 DEF StormStopsIrq
  <2>1. TypeOK' /\ StormStopsIrq'
    BY <1>1, <2>5, <2>6 DEF IrqHeaderFails, TypeOK
  <2>2. LockInv' /\ BufferInv' /\ OriginInv'
    BY <1>1 DEF IrqHeaderFails, HeaderErrors, TypeOK, LockInv, BufferInv, OriginInv, QueueInv, Holding,
       RegisteredHasReport
  <2>3. QueueInv'
    BY <1>1 DEF IrqHeaderFails, HeaderErrors, TypeOK, LockInv, QueueInv, Answered, Holding
  <2> QED
    BY <2>1, <2>2, <2>3
<1>2. CASE ResetStarts
  <2>1. TypeOK' /\ StormStopsIrq'
    BY <1>2 DEF ResetStarts, TypeOK, StormStopsIrq, Labels, Works, Requesters
  <2>2. LockInv' /\ BufferInv' /\ OriginInv'
    BY <1>2 DEF ResetStarts, TypeOK, LockInv, BufferInv, OriginInv, QueueInv, Holding,
       RegisteredHasReport
  <2>3. QueueInv'
    BY <1>2 DEF ResetStarts, TypeOK, LockInv, QueueInv, Answered, Holding
  <2> QED
    BY <2>1, <2>2, <2>3
<1>3. CASE ResetFlushes
  <2>1. TypeOK' /\ StormStopsIrq'
    BY <1>3 DEF ResetFlushes, TypeOK, StormStopsIrq, Labels, Works, Requesters
  <2>2. LockInv' /\ BufferInv' /\ OriginInv'
    BY <1>3 DEF ResetFlushes, TypeOK, LockInv, BufferInv, OriginInv, QueueInv, Holding,
       RegisteredHasReport
  <2>3. QueueInv'
    BY <1>3 DEF ResetFlushes, TypeOK, LockInv, QueueInv, Answered, Holding
  <2> QED
    BY <2>1, <2>2, <2>3
<1>4. CASE ResetLocks
  <2>1. TypeOK' /\ StormStopsIrq'
    BY <1>4 DEF ResetLocks, TypeOK, StormStopsIrq, Labels, Works, Requesters
  <2>2. LockInv' /\ BufferInv' /\ OriginInv'
    BY <1>4 DEF ResetLocks, TypeOK, LockInv, BufferInv, OriginInv, QueueInv, Holding,
       RegisteredHasReport
  <2>3. QueueInv'
    BY <1>4 DEF ResetLocks, TypeOK, LockInv, QueueInv, Answered, Holding
  <2> QED
    BY <2>1, <2>2, <2>3
<1>5. CASE ResetCopies
  <2>1. TypeOK' /\ StormStopsIrq'
    BY <1>5 DEF ResetCopies, LocalsDropped, TypeOK, StormStopsIrq, Labels, Works, Requesters
  <2>2. LockInv' /\ BufferInv' /\ OriginInv'
    BY <1>5 DEF ResetCopies, LocalsDropped, TypeOK, LockInv, BufferInv, OriginInv, QueueInv, Holding,
       RegisteredHasReport
  <2>3. QueueInv'
    <3>1. NoneBehind(bus, "device", {"report"})
      BY <1>5 DEF ResetCopies, QueueInv, Only, NoneBehind, LastWords
    <3> QED
      BY <1>5, <3>1
         DEF ResetCopies, LocalsDropped, TypeOK, LockInv, QueueInv, Answered, Holding
  <2> QED
    BY <2>1, <2>2, <2>3
<1>6. CASE CreateStarts
  <2>1. TypeOK' /\ StormStopsIrq'
    BY <1>6 DEF CreateStarts, TypeOK, StormStopsIrq, Labels, Works, Requesters
  <2>2. LockInv' /\ BufferInv' /\ OriginInv'
    BY <1>6 DEF CreateStarts, TypeOK, LockInv, BufferInv, OriginInv, QueueInv, Holding,
       RegisteredHasReport
  <2>3. QueueInv'
    BY <1>6 DEF CreateStarts, TypeOK, LockInv, QueueInv, Answered, Holding
  <2> QED
    BY <2>1, <2>2, <2>3
<1>7. CASE Refreshes
  <2>1. TypeOK' /\ StormStopsIrq'
    BY <1>7 DEF Refreshes, TypeOK, StormStopsIrq, Labels, Works, Requesters
  <2>2. LockInv' /\ BufferInv' /\ OriginInv'
    BY <1>7 DEF Refreshes, TypeOK, LockInv, BufferInv, OriginInv, QueueInv, Holding,
       RegisteredHasReport
  <2>3. QueueInv'
    BY <1>7 DEF Refreshes, TypeOK, LockInv, QueueInv, Answered, Holding
  <2> QED
    BY <2>1, <2>2, <2>3
<1>8. CASE UserLocks
  <2>1. TypeOK' /\ StormStopsIrq'
    BY <1>8 DEF UserLocks, TypeOK, StormStopsIrq, Labels, Works, Requesters
  <2>2. LockInv' /\ BufferInv' /\ OriginInv'
    BY <1>8 DEF UserLocks, TypeOK, LockInv, BufferInv, OriginInv, QueueInv, Holding,
       RegisteredHasReport
  <2>3. QueueInv'
    BY <1>8 DEF UserLocks, TypeOK, LockInv, QueueInv, Answered, Holding
  <2> QED
    BY <2>1, <2>2, <2>3
<1>9. CASE UserEnds
  <2>1. TypeOK' /\ StormStopsIrq'
    BY <1>9 DEF UserEnds, Fails, TypeOK, StormStopsIrq, Labels, Works, Requesters
  <2>2. LockInv' /\ BufferInv' /\ OriginInv'
    BY <1>9 DEF UserEnds, Fails, TypeOK, LockInv, BufferInv, OriginInv, QueueInv, Holding,
       RegisteredHasReport
  <2>3. QueueInv'
    BY <1>9 DEF UserEnds, Fails, TypeOK, LockInv, QueueInv, Answered, Holding
  <2> QED
    BY <2>1, <2>2, <2>3
<1> QED
  BY <1>1, <1>2, <1>3, <1>4, <1>5, <1>6, <1>7, <1>8, <1>9

LEMMA RequestSteps ==
  ASSUME IInv,
         \/ Clears("reset") \/ Clears("user") \/ Sends("reset", asking)
         \/ Sends("user", "feature") \/ Wakes("reset", "check") \/ Wakes("user", "done")
  PROVE  IInv'
<1> USE DEF IInv, Goto
<1>1. CASE Clears("reset") \/ Clears("user")
  <2>4. TypeOK'
    <3>1. UNCHANGED <<deviceVars, irqVars, resp, hid_version, hidVars, powerVars,
                      lock, pending, attempt, asking, try>>
      BY <1>1 DEF Clears
    <3>2. done' \in BOOLEAN
      BY <1>1 DEF Clears
    <3>3. \/ Goto("reset", "send") \/ Goto("user", "send")
          \/ Goto("reset", "check") \/ Goto("user", "done")
      BY <1>1 DEF Clears
    <3>4. pc' \in [{"reset", "create", "user"} -> Labels]
      BY <3>3 DEF TypeOK, Labels
    <3> QED
      BY <3>1, <3>2, <3>4 DEF TypeOK
  <2>1. TypeOK' /\ StormStopsIrq'
    BY <1>1, <2>4 DEF Clears, StormStopsIrq
  <2>2. LockInv' /\ BufferInv' /\ OriginInv'
    BY <1>1 DEF Clears, TypeOK, LockInv, BufferInv, OriginInv, Holding,
       RegisteredHasReport
  <2>3. QueueInv'
    BY <1>1 DEF Clears, TypeOK, LockInv, QueueInv, Answered, Holding
  <2> QED
    BY <2>1, <2>2, <2>3
<1>2. CASE Wakes("reset", "check") \/ Wakes("user", "done")
  <2>4. TypeOK'
    <3>1. UNCHANGED <<deviceVars, irqVars, resp, hid_version, hidVars, powerVars,
                      lock, pending, attempt, asking, try>>
      BY <1>2 DEF Wakes
    <3>2. done' \in BOOLEAN
      BY <1>2 DEF Wakes
    <3>3. \/ Goto("reset", "send") \/ Goto("user", "send")
          \/ Goto("reset", "check") \/ Goto("user", "done")
      BY <1>2 DEF Wakes
    <3>4. pc' \in [{"reset", "create", "user"} -> Labels]
      BY <3>3 DEF TypeOK, Labels
    <3> QED
      BY <3>1, <3>2, <3>4 DEF TypeOK
  <2>1. TypeOK' /\ StormStopsIrq'
    BY <1>2, <2>4 DEF Wakes, StormStopsIrq
  <2>2. LockInv' /\ BufferInv' /\ OriginInv'
    BY <1>2 DEF Wakes, TypeOK, LockInv, BufferInv, OriginInv, Holding,
       RegisteredHasReport
  <2>3. QueueInv'
    BY <1>2 DEF Wakes, TypeOK, LockInv, QueueInv, Answered, Holding
  <2> QED
    BY <2>1, <2>2, <2>3
<1>3. ASSUME NEW t \in Requesters, NEW r \in Kinds \ {"reset"}, Sends(t, r),
             \/ t = "reset" /\ r = asking
             \/ t = "user" /\ r = "feature"
      PROVE  IInv'
  <2>1. \/ bus' = bus
        \/ bus' = Append(bus, r) /\ Len(bus) < BusLength /\ Awake
    BY <1>3 DEF Sends, Offered
  <2>2. bus \in Seq(Kinds) /\ Len(bus) \in Nat /\ r \in Kinds
    BY <1>3 DEF TypeOK
  <2>3. bus' \in Seq(Kinds) /\ Len(bus') <= BusLength
    BY <2>1, <2>2, AppendKeeps, BoundAssumption DEF TypeOK
  <2>4. TypeOK' /\ StormStopsIrq'
    BY <1>3, <2>3 DEF Sends, TypeOK, StormStopsIrq, Labels
  <2>5. LockInv' /\ BufferInv' /\ OriginInv'
    BY <1>3 DEF Sends, TypeOK, LockInv, BufferInv, OriginInv, Holding,
       RegisteredHasReport, Requesters
  <2>6. QueueInv'
    <3>1. power_state' = power_state /\ (power_state = "off" => Reduced(bus'))
      BY <1>3, <2>1 DEF Sends, Awake, QueueInv
    <3>2. CASE asking = "device"
      <4>1. r \notin {"report"} /\ r \in NotReport
        BY <1>3, <3>2 DEF NotReport
      <4>3. /\ \A K : Only(bus, K) /\ r \in K => Only(Append(bus, r), K)
            /\ \A a, B : NoneBehind(bus, a, B) /\ r \notin B
                 => NoneBehind(Append(bus, r), a, B)
        BY <2>2, AppendKeeps
      <4>2. /\ NoneBehind(bus, "device", {"report"})
               => NoneBehind(bus', "device", {"report"})
            /\ Only(bus, NotReport) => Only(bus', NotReport)
        BY <2>1, <4>1, <4>3
      <4> QED
        BY <1>3, <3>1, <3>2, <4>2
           DEF Sends, TypeOK, LockInv, QueueInv, Answered, Holding, Requesters
    <3>3. CASE asking = "report"
      <4>1. t = "reset" /\ r = "report" /\ r \notin OtherKinds /\ r \in LastWords
        BY <1>3, <3>3 DEF Sends, LockInv, Holding, OtherKinds, LastWords
      <4>3. /\ \A K : Only(bus, K) /\ r \in K => Only(Append(bus, r), K)
            /\ \A a, B : NoneBehind(bus, a, B) /\ r \notin B
                 => NoneBehind(Append(bus, r), a, B)
        BY <2>2, AppendKeeps
      <4>2. /\ NoneBehind(bus, "report", OtherKinds)
               => NoneBehind(bus', "report", OtherKinds)
            /\ Only(bus, LastWords) => Only(bus', LastWords)
        BY <2>1, <4>1, <4>3
      <4> QED
        BY <1>3, <3>1, <3>3, <4>1, <4>2
           DEF Sends, TypeOK, LockInv, QueueInv, Answered, Holding
    <3> QED
      BY <3>2, <3>3 DEF TypeOK
  <2> QED
    BY <2>4, <2>5, <2>6
<1>4. asking \in Kinds \ {"reset"} /\ "feature" \in Kinds \ {"reset"}
  BY DEF TypeOK, Kinds
<1> QED
  BY <1>1, <1>2, <1>3, <1>4 DEF Requesters

(* The interrupt thread takes the first report of the queue.               *)
LEMMA ReadStep ==
  ASSUME IInv, IrqReads
  PROVE  IInv'
<1> USE DEF IInv
<1>1. /\ bus \in Seq(Kinds) /\ bus # <<>> /\ bus' = Tail(bus)
      /\ Len(bus) \in Nat /\ Len(bus') \in Nat /\ Head(bus) \in Kinds
      /\ bus' \in Seq(Kinds) /\ Len(bus') <= Len(bus)
  BY TailKeeps DEF IrqReads, TypeOK
<1>2. /\ \A K : Only(bus, K) => Only(bus', K) /\ Head(bus) \in K
      /\ \A a, B : NoneBehind(bus, a, B) => NoneBehind(bus', a, B)
      /\ Reduced(bus) => Reduced(bus')
      /\ NoneBehind(bus, "device", {"report"}) /\ Head(bus) = "device"
           => Only(bus', NotReport)
      /\ NoneBehind(bus, "report", OtherKinds) /\ Head(bus) = "report"
           => Only(bus', LastWords)
  BY <1>1, TailKeeps
<1>3. PICK processed \in BOOLEAN, failed \in BOOLEAN :
        /\ BodyCounted(processed, failed)
        /\ IF processed THEN Processed(Head(bus))
           ELSE UNCHANGED <<resp, done, pending, attempts, hid_version>>
  BY DEF IrqReads
<1>4. irqOn /\ irqOn' = irqOn /\ bus_error_count' \in {0, 1}
  BY <1>3 DEF IrqReads, BodyCounted
<1>5. StormStopsIrq' /\ bus_error_count' \in 0..ErrorLimit
  BY <1>4, LimitAssumption DEF StormStopsIrq
<1>6. CASE ~processed
  <2>1. UNCHANGED <<resp, done, pending, attempts, hid_version>>
    BY <1>3, <1>6
  <2>2. TypeOK'
    BY <1>1, <1>5, <2>1, BoundAssumption DEF IrqReads, TypeOK
  <2>3. LockInv' /\ BufferInv' /\ OriginInv'
    BY <2>1 DEF IrqReads, LockInv, BufferInv, OriginInv, RegisteredHasReport
  <2>4. QueueInv'
    BY <1>2, <2>1 DEF IrqReads, QueueInv, Answered
  <2> QED
    BY <1>5, <2>2, <2>3, <2>4
<1>7. CASE processed
  <2>1. Processed(Head(bus))
    BY <1>3, <1>7
  <2>2. /\ resp'.kind = Head(bus)
        /\ resp'.buf = IF Head(bus) = "reset" THEN resp.buf ELSE Head(bus)
        /\ resp' \in [kind : {"none", "reset", "device", "report", "feature"},
                      buf : {"none", "device", "report", "feature"}]
    BY <1>1, <2>1 DEF Processed, Stored, TypeOK, Kinds
  <2>3. pending' \subseteq Works
    BY <2>1 DEF Processed, Unsolicited, TypeOK, Works
  <2>4. done' = TRUE /\ attempts' \in 0..255
        /\ hid_version' \in {"none"} \cup Versions
    BY <2>1 DEF Processed, TypeOK
  <2>5. TypeOK'
    BY <1>1, <1>5, <2>2, <2>3, <2>4, BoundAssumption DEF IrqReads, TypeOK
  <2>6. LockInv' /\ BufferInv' /\ OriginInv'
    BY <2>2 DEF IrqReads, LockInv, BufferInv, OriginInv, RegisteredHasReport
  <2>7. QueueInv'
    <3>1. /\ pc' = pc /\ asking' = asking /\ power_state' = power_state
          /\ asking \in {"device", "report"}
      BY DEF IrqReads, TypeOK
    <3>2. power_state' = "off" => Reduced(bus')
      BY <1>2, <3>1 DEF QueueInv
    <3>3. asking' = "device" =>
            /\ pc'["reset"] \in {"error", "cancel"}
               \/ NoneBehind(bus', "device", {"report"})
            /\ Answered' /\ resp'.kind = "device" => Only(bus', NotReport)
      <4>1. Answered' => pc["reset"] \notin {"error", "cancel"}
        BY <3>1 DEF Answered
      <4> QED
        BY <1>2, <2>2, <3>1, <4>1 DEF QueueInv
    <3>4. asking' = "report" =>
            /\ NoneBehind(bus', "report", OtherKinds)
            /\ Answered' /\ resp'.kind = "report" => Only(bus', LastWords)
      BY <1>2, <2>2, <3>1 DEF QueueInv
    <3>5. pc'["reset"] \in {"take", "copy"} =>
            resp'.buf = "report" /\ Only(bus', LastWords)
      BY <1>2, <2>2, <3>1 DEF QueueInv, LastWords
    <3> QED
      BY <3>2, <3>3, <3>4, <3>5 DEF QueueInv
  <2> QED
    BY <1>5, <2>5, <2>6, <2>7
<1> QED
  BY <1>6, <1>7

(* The steps that pulse the reset line or cut the power.                   *)
LEMMA Pulsed ==
  ASSUME TypeOK, bus' \in Reading \cup AfterReset
  PROVE  /\ bus' \in Seq(Kinds) /\ Len(bus') <= BusLength /\ Reduced(bus')
         /\ NoneBehind(bus', "device", {"report"})
         /\ NoneBehind(bus', "report", OtherKinds)
         /\ Only(bus, NotReport) => Only(bus', NotReport)
         /\ Only(bus, LastWords) => Only(bus', LastWords)
<1>1. /\ bus' \in Seq(Kinds) /\ Len(bus') <= 2 /\ Reduced(bus')
      /\ \A K : "reset" \in K /\ Only(bus, K) => Only(bus', K)
  BY PulseKeeps DEF TypeOK
<1>2. "reset" \in NotReport /\ "reset" \in LastWords
  BY DEF NotReport, LastWords, Kinds
<1>3. Len(bus') <= BusLength
  BY <1>1, BoundAssumption
<1> QED
  BY <1>1, <1>2, <1>3, ReducedOrdered

LEMMA DeviceStep ==
  ASSUME IInv, DeviceResets
  PROVE  IInv'
<1> USE DEF IInv
<1>1. bus' \in Reading \cup AfterReset
  BY DEF DeviceResets
<1>2. TypeOK' /\ StormStopsIrq'
  <2>1. acts' \in 0..MaxActs
    BY BoundAssumption DEF DeviceResets, TypeOK
  <2> QED
    BY <1>1, <2>1, Pulsed DEF DeviceResets, TypeOK, StormStopsIrq
<1>3. LockInv' /\ BufferInv' /\ OriginInv'
  BY DEF DeviceResets, LockInv, BufferInv, OriginInv, RegisteredHasReport
<1>4. QueueInv'
  BY <1>1, Pulsed DEF DeviceResets, QueueInv, Answered
<1> QED
  BY <1>2, <1>3, <1>4

(* A cycle of reset_work that fails.                                       *)
LEMMA CycleStep ==
  ASSUME IInv, NextCycle, pc["reset"] \in Holding,
         UNCHANGED <<version, acts, irqVars, answerVars, hidVars, powerVars, pending>>
  PROVE  IInv'
<1> USE DEF IInv, Goto
<1>1. CASE /\ attempt + 1 < ResetAttempts
           /\ attempt' = attempt + 1 /\ asking' = "device" /\ try' = 0
           /\ bus' \in AfterReset
           /\ Goto("reset", "clear") /\ UNCHANGED lock
  <2>1. TypeOK' /\ StormStopsIrq'
    <3>1. attempt' \in 0..ResetAttempts - 1 /\ try' \in 0..InitRetries - 1
      BY <1>1, LimitAssumption DEF TypeOK
    <3>2. pc' \in [{"reset", "create", "user"} -> Labels]
      BY <1>1 DEF TypeOK, Labels
    <3> QED
      BY <1>1, <3>1, <3>2, Pulsed DEF TypeOK, StormStopsIrq
  <2>2. LockInv' /\ BufferInv' /\ OriginInv'
    BY <1>1 DEF TypeOK, LockInv, BufferInv, OriginInv, RegisteredHasReport, Holding
  <2>3. QueueInv'
    BY <1>1, Pulsed DEF TypeOK, LockInv, QueueInv, Answered
  <2> QED
    BY <2>1, <2>2, <2>3
<1>2. CASE /\ attempt + 1 >= ResetAttempts
           /\ lock' = "free" /\ Goto("reset", "error")
           /\ LocalsDropped /\ UNCHANGED bus
  <2>1. TypeOK' /\ StormStopsIrq'
    <3>1. attempt' \in 0..ResetAttempts - 1 /\ try' \in 0..InitRetries - 1
      BY <1>2, LimitAssumption DEF LocalsDropped
    <3>2. pc' \in [{"reset", "create", "user"} -> Labels]
      BY <1>2 DEF TypeOK, Labels
    <3> QED
      BY <1>2, <3>1, <3>2 DEF LocalsDropped, TypeOK, StormStopsIrq
  <2>2. LockInv' /\ BufferInv' /\ OriginInv'
    BY <1>2 DEF LocalsDropped, TypeOK, LockInv, BufferInv, OriginInv,
       RegisteredHasReport, Holding
  <2>3. QueueInv'
    BY <1>2 DEF LocalsDropped, TypeOK, LockInv, QueueInv, Answered
  <2> QED
    BY <2>1, <2>2, <2>3
<1> QED
  BY <1>1, <1>2 DEF NextCycle

LEMMA DescriptorSteps ==
  ASSUME IInv, ResetFails \/ ResetChecks \/ ResetMeasures
  PROVE  IInv'
<1> USE DEF IInv, Goto
<1>1. CASE ResetFails
  BY <1>1, CycleStep DEF ResetFails, Fails, Holding
<1>2. CASE ResetChecks
  <2>1. CASE ~IsAnswer /\ try + 1 >= InitRetries /\ NextCycle
    BY <1>2, <2>1, CycleStep DEF ResetChecks, Holding
  <2>2. CASE /\ ~IsAnswer /\ try + 1 < InitRetries
             /\ try' = try + 1 /\ Goto("reset", "clear")
             /\ UNCHANGED <<bus, lock, attempt, asking>>
    <3>1. try' \in 0..InitRetries - 1
      BY <2>2, LimitAssumption DEF TypeOK
    <3>2. TypeOK' /\ StormStopsIrq'
      BY <1>2, <2>2, <3>1 DEF ResetChecks, TypeOK, Labels, StormStopsIrq
    <3>3. LockInv' /\ BufferInv' /\ OriginInv'
      BY <1>2, <2>2 DEF ResetChecks, TypeOK, LockInv, BufferInv, OriginInv,
         RegisteredHasReport, Holding
    <3>4. QueueInv'
      BY <1>2, <2>2 DEF ResetChecks, TypeOK, LockInv, QueueInv, Answered
    <3> QED
      BY <3>2, <3>3, <3>4
  <2>3. CASE /\ IsAnswer
             /\ Goto("reset", IF asking = "device" THEN "clear" ELSE "take")
             /\ asking' = "report" /\ try' = 0
             /\ UNCHANGED <<bus, lock, attempt>>
    <3>1. try' \in 0..InitRetries - 1
      BY <2>3, LimitAssumption
    <3>2. TypeOK' /\ StormStopsIrq'
      BY <1>2, <2>3, <3>1 DEF ResetChecks, TypeOK, Labels, StormStopsIrq
    <3>3. LockInv' /\ BufferInv' /\ OriginInv'
      BY <1>2, <2>3 DEF ResetChecks, TypeOK, LockInv, BufferInv, OriginInv,
         RegisteredHasReport, Holding
    <3>4. CASE asking = "device"
      <4>1. Only(bus, NotReport)
        BY <1>2, <2>3, <3>4 DEF ResetChecks, IsAnswer, QueueInv, Answered
      <4>2. NoneBehind(bus, "report", OtherKinds)
        BY <4>1 DEF Only, NoneBehind, NotReport
      <4> QED
        BY <1>2, <2>3, <3>2, <3>3, <3>4, <4>2
           DEF ResetChecks, TypeOK, QueueInv, Answered
    <3>5. CASE asking = "report"
      <4>1. Only(bus, LastWords) /\ resp.buf = "report"
        BY <1>2, <2>3, <3>5
           DEF ResetChecks, IsAnswer, QueueInv, Answered, BufferInv, Kinds
      <4> QED
        BY <1>2, <2>3, <3>2, <3>3, <3>5, <4>1
           DEF ResetChecks, TypeOK, QueueInv, Answered
    <3> QED
      BY <3>4, <3>5 DEF TypeOK
  <2> QED
    BY <1>2, <2>1, <2>2, <2>3 DEF ResetChecks
<1>3. CASE ResetMeasures
  <2>1. CASE NextCycle
    BY <1>3, <2>1, CycleStep DEF ResetMeasures, Holding
  <2>2. CASE /\ resp.kind # "reset" /\ Goto("reset", "copy")
             /\ UNCHANGED <<bus, lock, attempt, asking, try>>
    <3>1. TypeOK' /\ StormStopsIrq'
      BY <1>3, <2>2 DEF ResetMeasures, TypeOK, Labels, StormStopsIrq
    <3>2. LockInv' /\ BufferInv' /\ OriginInv'
      BY <1>3, <2>2 DEF ResetMeasures, TypeOK, LockInv, BufferInv, OriginInv,
         RegisteredHasReport, Holding
    <3>3. QueueInv'
      BY <1>3, <2>2 DEF ResetMeasures, TypeOK, LockInv, QueueInv, Answered
    <3> QED
      BY <3>1, <3>2, <3>3
  <2> QED
    BY <1>3, <2>1, <2>2 DEF ResetMeasures
<1> QED
  BY <1>1, <1>2, <1>3

(* The creation of a HID device and the error handler, in either work.     *)
LEMMA MakerSteps ==
  ASSUME IInv, NEW t \in Creators, Makes(t)
  PROVE  IInv'
<1> USE DEF IInv, Goto, Creators
<1>1. CASE Allocates(t)
  <2>1. TypeOK' /\ StormStopsIrq'
    BY <1>1 DEF Allocates, TypeOK, Labels, StormStopsIrq
  <2>2. LockInv' /\ BufferInv' /\ OriginInv'
    BY <1>1 DEF Allocates, TypeOK, LockInv, BufferInv, OriginInv,
       RegisteredHasReport, Holding
  <2>3. QueueInv'
    BY <1>1 DEF Allocates, TypeOK, LockInv, QueueInv, Answered, Holding
  <2> QED
    BY <2>1, <2>2, <2>3
<1>2. CASE Adds(t)
  <2>1. TypeOK' /\ StormStopsIrq'
    BY <1>2, LimitAssumption DEF Adds, TypeOK, Labels, StormStopsIrq
  <2>2. LockInv' /\ BufferInv' /\ OriginInv'
    BY <1>2 DEF Adds, TypeOK, LockInv, BufferInv, OriginInv,
       RegisteredHasReport, Holding
  <2>3. QueueInv'
    BY <1>2 DEF Adds, TypeOK, LockInv, QueueInv, Answered, Holding
  <2> QED
    BY <2>1, <2>2, <2>3
<1>3. CASE AddFails(t)
  <2>1. TypeOK' /\ StormStopsIrq'
    BY <1>3 DEF AddFails, Disconnects, TypeOK, Labels, StormStopsIrq
  <2>2. LockInv' /\ BufferInv' /\ OriginInv'
    BY <1>3 DEF AddFails, Disconnects, TypeOK, LockInv, BufferInv, OriginInv,
       RegisteredHasReport, Holding
  <2>3. QueueInv'
    BY <1>3 DEF AddFails, TypeOK, LockInv, QueueInv, Answered, Holding
  <2> QED
    BY <2>1, <2>2, <2>3
<1>4. CASE ErrorStops(t)
  <2>1. bus' \in Reading \/ bus' = bus
    BY <1>4 DEF ErrorStops
  <2>2. TypeOK' /\ StormStopsIrq'
    <3>1. bus' \in Seq(Kinds) /\ Len(bus') <= BusLength
      BY <2>1, Pulsed DEF TypeOK
    <3>2. pc' \in [{"reset", "create", "user"} -> Labels] /\ powered' \in BOOLEAN
      <4>1. /\ pc \in [{"reset", "create", "user"} -> Labels]
            /\ pc' = [pc EXCEPT ![t] = "idle"] \/ pc' = [pc EXCEPT ![t] = "cancel"]
        BY <1>4 DEF ErrorStops, TypeOK
      <4>2. pc' \in [{"reset", "create", "user"} -> Labels]
        BY <4>1 DEF Labels
      <4>3. powered' \in BOOLEAN
        BY <1>4 DEF ErrorStops, TypeOK
      <4> QED
        BY <4>2, <4>3
    <3>3. /\ hid' \in {"reset", "create", "none"}
          /\ registered' \in [{"reset", "create"} -> {"none", "device", "report", "feature"}]
      BY <1>4 DEF ErrorStops, Disconnects, TypeOK
    <3>4. attempts' \in 0..255
      BY <1>4 DEF ErrorStops, Counted, TypeOK
    <3>5. UNCHANGED <<version, acts, irqVars, answerVars, rd, ready, power_state,
                      lock, pending, attempt, asking, try>>
      BY <1>4 DEF ErrorStops
    <3> QED
      BY <3>1, <3>2, <3>3, <3>4, <3>5 DEF TypeOK, StormStopsIrq, Creators
  <2>3. LockInv' /\ BufferInv' /\ OriginInv'
    BY <1>4 DEF ErrorStops, Disconnects, TypeOK, LockInv, BufferInv, OriginInv,
       RegisteredHasReport, Holding
  <2>4. QueueInv'
    BY <1>4, <2>1, Pulsed DEF ErrorStops, TypeOK, LockInv, QueueInv, Answered, Holding
  <2> QED
    BY <2>2, <2>3, <2>4
<1>5. CASE ErrorCancels(t)
  <2>1. TypeOK' /\ StormStopsIrq'
    <3>1. bus' \in Seq(Kinds) /\ Len(bus') <= BusLength
      BY <1>5, Pulsed DEF ErrorCancels
    <3>2. pc' \in [{"reset", "create", "user"} -> Labels] /\ pending' \subseteq Works
      BY <1>5 DEF ErrorCancels, TypeOK, Labels
    <3>3. powered' \in BOOLEAN
      BY <1>5 DEF ErrorCancels
    <3>4. UNCHANGED <<version, acts, irqVars, answerVars, hidVars, ready, attempts,
                      power_state, lock, attempt, asking, try>>
      BY <1>5 DEF ErrorCancels
    <3> QED
      BY <3>1, <3>2, <3>3, <3>4 DEF TypeOK, StormStopsIrq
  <2>2. LockInv' /\ BufferInv' /\ OriginInv'
    BY <1>5 DEF ErrorCancels, TypeOK, LockInv, BufferInv, OriginInv,
       RegisteredHasReport, Holding
  <2>3. QueueInv'
    BY <1>5, Pulsed DEF ErrorCancels, TypeOK, LockInv, QueueInv, Answered, Holding
  <2> QED
    BY <2>1, <2>2, <2>3
<1>6. CASE ErrorAsserts(t)
  <2>1. TypeOK' /\ StormStopsIrq'
    <3>1. attempts' \in 0..255
      BY <1>6 DEF ErrorAsserts, Counted, TypeOK
    <3>2. pc' \in [{"reset", "create", "user"} -> Labels]
      BY <1>6 DEF ErrorAsserts, TypeOK, Labels
    <3>3. bus' \in Seq(Kinds) /\ Len(bus') <= BusLength
      BY <1>6, Pulsed DEF ErrorAsserts
    <3>4. ready' \in BOOLEAN /\ power_state' \in {"active", "off"}
      BY <1>6 DEF ErrorAsserts
    <3>5. UNCHANGED <<version, acts, irqVars, answerVars, hidVars, powered, lock,
                      pending, attempt, asking, try>>
      BY <1>6 DEF ErrorAsserts
    <3> QED
      BY <3>1, <3>2, <3>3, <3>4, <3>5 DEF TypeOK, StormStopsIrq
  <2>2. LockInv' /\ BufferInv' /\ OriginInv'
    BY <1>6 DEF ErrorAsserts, TypeOK, LockInv, BufferInv, OriginInv,
       RegisteredHasReport, Holding
  <2>3. QueueInv'
    BY <1>6, Pulsed DEF ErrorAsserts, TypeOK, LockInv, QueueInv, Answered, Holding
  <2> QED
    BY <2>1, <2>2, <2>3
<1>7. CASE ErrorDeasserts(t)
  <2>1. TypeOK' /\ StormStopsIrq'
    BY <1>7, Pulsed DEF ErrorDeasserts, TypeOK, Labels, StormStopsIrq
  <2>2. LockInv' /\ BufferInv' /\ OriginInv'
    BY <1>7 DEF ErrorDeasserts, TypeOK, LockInv, BufferInv, OriginInv,
       RegisteredHasReport, Holding
  <2>3. QueueInv'
    BY <1>7, Pulsed DEF ErrorDeasserts, TypeOK, LockInv, QueueInv, Answered, Holding
  <2> QED
    BY <2>1, <2>2, <2>3
<1>8. CASE ErrorReturns(t)
  <2>1. TypeOK' /\ StormStopsIrq'
    BY <1>8 DEF ErrorReturns, TypeOK, Labels, StormStopsIrq
  <2>2. LockInv' /\ BufferInv' /\ OriginInv'
    BY <1>8 DEF ErrorReturns, TypeOK, LockInv, BufferInv, OriginInv,
       RegisteredHasReport, Holding
  <2>3. QueueInv'
    <3>1. Reduced(bus) /\ NoneBehind(bus, "device", {"report"})
      BY <1>8, ReducedOrdered DEF ErrorReturns, QueueInv, TypeOK
    <3> QED
      BY <1>8, <3>1 DEF ErrorReturns, TypeOK, LockInv, QueueInv, Answered, Holding
  <2> QED
    BY <2>1, <2>2, <2>3
<1> QED
  BY <1>1, <1>2, <1>3, <1>4, <1>5, <1>6, <1>7, <1>8 DEF Makes

LEMMA IdleStep ==
  ASSUME IInv, UNCHANGED vars
  PROVE  IInv'
BY DEF vars, IInv, TypeOK, StormStopsIrq, LockInv, BufferInv, QueueInv, OriginInv,
       RegisteredHasReport, Answered

(* The invariant of all four threads and the device.                       *)
THEOREM Invariance == Spec => []IInv
<1>1. ASSUME IInv, [Next]_vars PROVE IInv'
  <2> USE <1>1
  <2>1. CASE DeviceResets \/ Irq
    BY <2>1, DeviceStep, QuietSteps, ReadStep DEF Irq
  <2>2. CASE ResetRuns
    BY <2>2, QuietSteps, RequestSteps, DescriptorSteps, MakerSteps
       DEF ResetRuns, Creators
  <2>3. CASE CreateRuns
    BY <2>3, QuietSteps, MakerSteps DEF CreateRuns, Creators
  <2>4. CASE UserRuns
    BY <2>4, QuietSteps, RequestSteps DEF UserRuns
  <2>5. CASE ResetLocks \/ Refreshes \/ UserLocks
    BY <2>5, QuietSteps
  <2>6. CASE UNCHANGED vars
    BY <2>6, IdleStep
  <2> QED
    BY <2>1, <2>2, <2>3, <2>4, <2>5, <2>6 DEF Next
<1> QED
  BY <1>1, Initial, PTL DEF Spec

(* The loops of reset_work and of the error handler keep to their limits,  *)
(* whatever the device, the interrupt and user space do.                   *)
THEOREM TypeCorrect == Spec => []TypeOK
<1>1. IInv => TypeOK
  BY DEF IInv
<1> QED
  BY <1>1, Invariance, PTL

(* The third counter of read errors never carries the count past the limit *)
(* that the other two compare with ==.                                     *)
THEOREM StormBounded == Spec => []StormStopsIrq
<1>1. IInv => StormStopsIrq
  BY DEF IInv
<1> QED
  BY <1>1, Invariance, PTL

(* However late, repeated or interrupted the answers are, a HID device     *)
(* that was added was parsed from an answer to GET_REPORT_DESCRIPTOR.      *)
THEOREM OriginOfReport == Spec => []RegisteredHasReport
<1>1. IInv => RegisteredHasReport
  BY DEF IInv, OriginInv
<1> QED
  BY <1>1, Invariance, PTL

=============================================================================

------------------------------- MODULE SpiHid -------------------------------
(***************************************************************************)
(* spi-hid-core.c of the Phase 54 modules: a HID-over-SPI transport whose  *)
(* interrupt thread answers the requests of everybody else.  Four threads  *)
(* work on the same spi_hid: the interrupt thread, reset_work (which reads *)
(* the two descriptors), create_device_work, and the HID requests of user  *)
(* space; refresh_device_work is a single assignment.  Only the requesters *)
(* take shid->lock: the interrupt thread writes the response without it.   *)
(***************************************************************************)
EXTENDS Integers, Sequences

CONSTANTS
  ErrorLimit,      (* 100: read errors after which the interrupt stops     *)
  ResetAttempts,   (* SPI_HID_MAX_RESET_ATTEMPTS                           *)
  InitRetries,     (* SPI_HID_MAX_INIT_RETRIES                             *)
  Versions,        (* of the device: good for SPI_HID_SUPPORTED_VERSION    *)
  MaxActs, BusLength                     (* bounds of the model            *)

(* A count of 1 does not turn the interrupt off, so the limit is above 1.  *)
ASSUME LimitAssumption ==
  /\ ErrorLimit \in Nat \ {0, 1} /\ ResetAttempts \in 1..255
  /\ InitRetries \in Nat \ {0}
(* Room for a report and the announcement of a reset behind it.            *)
ASSUME BoundAssumption == MaxActs \in Nat /\ BusLength \in Nat \ {0, 1}

Works == {"reset", "create", "refresh"}
Creators == {"reset", "create"}      \* the threads that create HID devices
Requesters == {"reset", "user"}      \* the threads that wait for answers

(* Kinds of report: feature stands for every response that is neither a    *)
(* descriptor nor a reset.  Input reports and reports of unknown type,     *)
(* which leave no trace in spi_hid, are among the bodies not processed.    *)
Kinds == {"reset", "device", "report", "feature"}

VARIABLES
  version, bus, acts,         (* device: its version, the reports it has   *)
                              (* for the host; bound                       *)
  irqOn, bus_error_count,     (* interrupt line and its error budget       *)
  done,                       (* output_done                               *)
  resp,                       (* kind: resp_type, a reset has resp_len 0;  *)
                              (* buf: the answer in resp_buf               *)
  hid_version,                (* desc.hid_version                          *)
  rd,                         (* what rd_buf holds, none when rd_len is 0  *)
  hid, registered,            (* shid->hid by its creator; what each HID   *)
                              (* device that was added has parsed          *)
  ready, attempts, powered, power_state,
  lock, pending, pc,          (* shid->lock, queued works, program counters*)
  attempt, asking, try        (* locals of reset_work: its cycle, which    *)
                              (* descriptor it asks for, how often         *)

deviceVars == <<version, bus, acts>>
irqVars    == <<irqOn, bus_error_count>>
answerVars == <<done, resp, hid_version>>
hidVars    == <<rd, hid, registered>>
powerVars  == <<ready, attempts, powered, power_state>>
workVars   == <<lock, pending, pc, attempt, asking, try>>
vars == <<deviceVars, irqVars, answerVars, hidVars, powerVars, workVars>>

(* The state spi_hid_probe leaves behind: output_done is complete already, *)
(* and the device that it powered up has its reset to announce.            *)
Init ==
  /\ version \in Versions /\ bus = <<"reset">> /\ acts = 0
  /\ irqOn = TRUE /\ bus_error_count = 0
  /\ done = TRUE /\ resp = [kind |-> "none", buf |-> "none"]
  /\ hid_version = "none" /\ rd = "none" /\ hid = "none"
  /\ registered = [c \in Creators |-> "none"]
  /\ ready = FALSE /\ attempts = 0 /\ powered = TRUE /\ power_state = "active"
  /\ lock = "free" /\ pending = {}
  /\ pc = [t \in {"reset", "create", "user"} |-> "idle"]
  /\ attempt = 0 /\ asking = "device" /\ try = 0

Goto(t, label) == pc' = [pc EXCEPT ![t] = label]

-----------------------------------------------------------------------------
(* The device: it announces a reset, drops what it had to say when it is   *)
(* reset, and answers a request at the end of what it has to say.  The     *)
(* interrupt thread may have read a report before the reset and process it *)
(* afterwards.  A report that is lost is one whose body cannot be read.    *)

Reading == {<<>>} \cup (IF bus = <<>> THEN {} ELSE {<<Head(bus)>>})

AfterReset == {Append(read, "reset") : read \in Reading}

Awake == powered /\ power_state = "active"
Offered(r) == IF Awake /\ Len(bus) < BusLength THEN Append(bus, r) ELSE bus

DeviceResets ==
  /\ Awake /\ acts < MaxActs /\ acts' = acts + 1
  /\ bus' \in AfterReset
  /\ UNCHANGED <<version, irqVars, answerVars, hidVars, powerVars, workVars>>

-----------------------------------------------------------------------------
(* spi_hid_irq_thread.                                                     *)

(* What a read that failed adds to the error count, and the interrupt that *)
(* the hundredth error turns off.                                          *)
HeaderErrors ==
  /\ bus_error_count' = bus_error_count + 1
  /\ irqOn' = (bus_error_count' # ErrorLimit)

(* The bus fails or the header is none (sync, version, length).  Without   *)
(* power the thread returns before it reads.                               *)
IrqHeaderFails ==
  /\ irqOn /\ powered
  /\ HeaderErrors
  /\ UNCHANGED <<deviceVars, answerVars, hidVars, powerVars, workVars>>

(* spi_hid_process_input_report stores an answer; a reset only overwrites  *)
(* the type and the length.                                                *)
Stored(kind) ==
  [kind |-> kind, buf |-> IF kind = "reset" THEN resp.buf ELSE kind]

(* The work for a report that nobody waits for.  A completion that nobody  *)
(* waits for any more counts as a waiter until it is done.                 *)
Unsolicited(kind) ==
  CASE kind = "reset"  -> IF ready THEN {"refresh"} ELSE {"reset"}
    [] kind = "device" -> IF hid = "none" THEN {"create"} ELSE {"refresh"}
    [] OTHER           -> {}

(* A device descriptor that is too short answers a request and clears the  *)
(* attempts as any other, but is not parsed.                               *)
Processed(kind) ==
  /\ resp' = Stored(kind) /\ done' = TRUE
  /\ pending' = pending \cup (IF done THEN Unsolicited(kind) ELSE {})
  /\ attempts' = IF kind = "device" THEN 0 ELSE attempts
  /\ \/ kind = "device" /\ hid_version' = version
     \/ UNCHANGED hid_version

(* Mutant: only a body that has been read clears the count.                *)
BodyCountedLate(processed, failed) ==
  bus_error_count' = IF processed THEN 0
                     ELSE bus_error_count + (IF failed THEN 1 ELSE 0)

(* A header that is good clears the count, whatever becomes of the body:   *)
(* not readable, empty, too long or without an answer in it, or processed. *)
BodyCounted(processed, failed) == bus_error_count' = IF failed THEN 1 ELSE 0

IrqReads ==
  /\ irqOn /\ bus # <<>> /\ bus' = Tail(bus)
  /\ \E processed, failed \in BOOLEAN :
       /\ ~(processed /\ failed) /\ BodyCounted(processed, failed)
       /\ IF processed THEN Processed(Head(bus))
          ELSE UNCHANGED <<resp, done, pending, attempts, hid_version>>
  /\ UNCHANGED <<version, acts, irqOn, hidVars, ready, powered, power_state, lock, pc,
                 attempt, asking, try>>

-----------------------------------------------------------------------------
(* spi_hid_sync_request: under shid->lock, with the completion cleared     *)
(* before the request goes out.                                            *)

Clears(t) ==
  /\ pc[t] = "clear" /\ lock = t
  /\ done' = FALSE /\ Goto(t, "send")
  /\ UNCHANGED <<deviceVars, irqVars, resp, hid_version, hidVars, powerVars,
                 lock, pending, attempt, asking, try>>

Sends(t, kind) ==
  /\ pc[t] = "send" /\ Goto(t, "wait")
  /\ bus' = Offered(kind)
  /\ UNCHANGED <<version, acts, irqVars, answerVars, hidVars, powerVars, lock,
                 pending, attempt, asking, try>>

Wakes(t, label) ==
  /\ pc[t] = "wait" /\ done
  /\ done' = FALSE /\ Goto(t, label)
  /\ UNCHANGED <<deviceVars, irqVars, resp, hid_version, hidVars, powerVars,
                 lock, pending, attempt, asking, try>>

(* The write failed, or no answer came in SPI_HID_RESPONSE_TIMEOUT_MS.     *)
Fails(t) == pc[t] = "send" \/ (pc[t] = "wait" /\ ~done)

-----------------------------------------------------------------------------
(* spi_hid_reset_work.                                                     *)

ResetStarts ==
  /\ pc["reset"] = "idle" /\ "reset" \in pending
  /\ pending' = pending \ {"reset"} /\ Goto("reset", "flush")
  /\ UNCHANGED <<deviceVars, irqVars, answerVars, hidVars, powerVars, lock,
                 attempt, asking, try>>

(* flush_work of create_device_work, and unless the device is held in      *)
(* reset, of refresh_device_work.                                          *)
Flushed == "create" \notin pending /\ pc["create"] = "idle"

ResetFlushes ==
  /\ pc["reset"] = "flush" /\ Flushed
  /\ \/ power_state = "off" /\ Goto("reset", "idle")
     \/ power_state # "off" /\ "refresh" \notin pending /\ Goto("reset", "lock")
  /\ UNCHANGED <<deviceVars, irqVars, answerVars, hidVars, powerVars, lock,
                 pending, attempt, asking, try>>

ResetLocks ==
  /\ pc["reset"] = "lock" /\ lock = "free"
  /\ lock' = "reset" /\ Goto("reset", "clear")
  /\ UNCHANGED <<deviceVars, irqVars, answerVars, hidVars, powerVars, pending,
                 attempt, asking, try>>

LocalsDropped == attempt' = 0 /\ asking' = "device" /\ try' = 0

(* Mutant: one cycle too many.                                             *)
NextCycleLate ==
  \/ /\ attempt < ResetAttempts
     /\ attempt' = attempt + 1 /\ asking' = "device" /\ try' = 0
     /\ bus' \in AfterReset
     /\ Goto("reset", "clear") /\ UNCHANGED lock
  \/ /\ attempt >= ResetAttempts
     /\ lock' = "free" /\ Goto("reset", "error")
     /\ LocalsDropped /\ UNCHANGED bus

(* The next cycle pulses the reset line and starts over; after the last    *)
(* one the lock is released and the error handler called.                  *)
NextCycle ==
  \/ /\ attempt + 1 < ResetAttempts
     /\ attempt' = attempt + 1 /\ asking' = "device" /\ try' = 0
     /\ bus' \in AfterReset
     /\ Goto("reset", "clear") /\ UNCHANGED lock
  \/ /\ attempt + 1 >= ResetAttempts
     /\ lock' = "free" /\ Goto("reset", "error")
     /\ LocalsDropped /\ UNCHANGED bus

ResetFails ==
  /\ Fails("reset") /\ NextCycle
  /\ UNCHANGED <<version, acts, irqVars, answerVars, hidVars, powerVars, pending>>

(* Mutant: any answer but a reset is taken for the descriptor.             *)
IsAnswerAny == resp.kind # "reset"

IsAnswer == resp.kind = asking

(* The loops over dd_try and rd_try.                                       *)
ResetChecks ==
  /\ pc["reset"] = "check"
  /\ \/ /\ IsAnswer
        /\ Goto("reset", IF asking = "device" THEN "clear" ELSE "take")
        /\ asking' = "report" /\ try' = 0
        /\ UNCHANGED <<bus, lock, attempt>>
     \/ /\ ~IsAnswer /\ try + 1 < InitRetries
        /\ try' = try + 1 /\ Goto("reset", "clear")
        /\ UNCHANGED <<bus, lock, attempt, asking>>
     \/ ~IsAnswer /\ try + 1 >= InitRetries /\ NextCycle
  /\ UNCHANGED <<version, acts, irqVars, answerVars, hidVars, powerVars, pending>>

(* rd_len, then the copy: resp_len and resp_buf are read one after the     *)
(* other while the interrupt thread may store the next answer.  Without    *)
(* content or with more than 2048 bytes the cycle fails.  The work creates *)
(* a HID device if there is none when it has released the lock.            *)
ResetMeasures ==
  /\ pc["reset"] = "take"
  /\ \/ /\ resp.kind # "reset" /\ Goto("reset", "copy")
        /\ UNCHANGED <<bus, lock, attempt, asking, try>>
     \/ NextCycle
  /\ UNCHANGED <<version, acts, irqVars, answerVars, hidVars, powerVars, pending>>

ResetCopies ==
  /\ pc["reset"] = "copy" /\ Goto("reset", IF hid = "none" THEN "alloc" ELSE "idle")
  /\ rd' = resp.buf /\ lock' = "free" /\ LocalsDropped
  /\ UNCHANGED <<deviceVars, irqVars, answerVars, hid, registered, powerVars,
                 pending>>

-----------------------------------------------------------------------------
(* create_device_work, which only looks at the version, and                *)
(* refresh_device_work.                                                    *)

CreateStarts ==
  /\ pc["create"] = "idle" /\ "create" \in pending
  /\ pending' = pending \ {"create"}
  /\ Goto("create", IF hid_version = "good" THEN "alloc" ELSE "error")
  /\ UNCHANGED <<deviceVars, irqVars, answerVars, hidVars, powerVars, lock,
                 attempt, asking, try>>

Refreshes ==
  /\ "refresh" \in pending /\ pending' = pending \ {"refresh"}
  /\ ready' = TRUE
  /\ UNCHANGED <<deviceVars, irqVars, answerVars, hidVars, attempts, powered,
                 power_state, lock, pc, attempt, asking, try>>

(* spi_hid_create_device: the pointer, then hid_add_device, which comes    *)
(* back into spi_hid_ll_parse.                                             *)
Allocates(t) ==
  /\ pc[t] = "alloc" /\ hid' = t /\ Goto(t, "add")
  /\ UNCHANGED <<deviceVars, irqVars, answerVars, rd, registered, powerVars,
                 lock, pending, attempt, asking, try>>

Parseable == rd # "none"

Adds(t) ==
  /\ pc[t] = "add" /\ Parseable
  /\ registered' = [registered EXCEPT ![t] = rd]
  /\ ready' = TRUE
  /\ attempts' = IF t = "create" THEN 0 ELSE attempts
  /\ Goto(t, "idle")
  /\ UNCHANGED <<deviceVars, irqVars, answerVars, rd, hid, powered, power_state,
                 lock, pending, attempt, asking, try>>

(* spi_hid_disconnect_hid takes whatever shid->hid is by now.              *)
Disconnects ==
  /\ hid' = "none"
  /\ registered' = [c \in Creators |-> IF c = hid THEN "none" ELSE registered[c]]

AddFails(t) ==
  /\ pc[t] = "add" /\ Disconnects /\ Goto(t, "idle")
  /\ UNCHANGED <<deviceVars, irqVars, answerVars, rd, powerVars, lock, pending,
                 attempt, asking, try>>

-----------------------------------------------------------------------------
(* spi_hid_error_handler.                                                  *)

Exhausted == attempts >= ResetAttempts

(* attempts is a u8, and counts every call while the power state is not    *)
(* off, those beyond the limit too.                                        *)
Counted == attempts' = (attempts + 1) % 256

(* spi_hid_stop_hid cancels the two works before the device is destroyed.  *)
ErrorStops(t) ==
  /\ pc[t] = "error" /\ power_state = "active" /\ Exhausted
  /\ Disconnects /\ Counted
  /\ IF hid = "none"
     THEN powered' = FALSE /\ bus' \in Reading /\ Goto(t, "idle")
     ELSE UNCHANGED <<powered, bus>> /\ Goto(t, "cancel")
  /\ UNCHANGED <<version, acts, irqVars, answerVars, rd, ready, power_state,
                 lock, pending, attempt, asking, try>>

(* cancel_work_sync waits for the work, and for ever when it is the        *)
(* caller's own; spi_hid_power_down follows.                               *)
ErrorCancels(t) ==
  /\ pc[t] = "cancel" /\ pc["create"] = "idle"
  /\ pending' = pending \ {"create", "refresh"}
  /\ powered' = FALSE /\ bus' \in Reading /\ Goto(t, "idle")
  /\ UNCHANGED <<version, acts, irqVars, answerVars, hidVars, ready, attempts,
                 power_state, lock, attempt, asking, try>>

(* Reset asserted, with the power state off for SPI_HID_RESET_ASSERT_MS.   *)
ErrorAsserts(t) ==
  /\ pc[t] = "error" /\ power_state = "active" /\ ~Exhausted
  /\ Counted /\ ready' = FALSE /\ power_state' = "off"
  /\ bus' \in Reading /\ Goto(t, "pulse")
  /\ UNCHANGED <<version, acts, irqVars, answerVars, hidVars, powered, lock,
                 pending, attempt, asking, try>>

ErrorDeasserts(t) ==
  /\ pc[t] = "pulse" /\ power_state' = "active"
  /\ bus' \in AfterReset /\ Goto(t, "idle")
  /\ UNCHANGED <<version, acts, irqVars, answerVars, hidVars, ready, attempts,
                 powered, lock, pending, attempt, asking, try>>

ErrorReturns(t) ==
  /\ pc[t] = "error" /\ power_state = "off" /\ Goto(t, "idle")
  /\ UNCHANGED <<deviceVars, irqVars, answerVars, hidVars, powerVars, lock,
                 pending, attempt, asking, try>>

-----------------------------------------------------------------------------
(* spi_hid_ll_raw_request: GET and SET of a feature.                       *)

UserLocks ==
  /\ pc["user"] = "idle" /\ lock = "free"
  /\ acts < MaxActs /\ acts' = acts + 1
  /\ \E c \in Creators : registered[c] # "none"
  /\ lock' = "user" /\ Goto("user", "clear")
  /\ UNCHANGED <<version, bus, irqVars, answerVars, hidVars, powerVars, pending,
                 attempt, asking, try>>

(* With an answer in resp_buf or with an error, the lock goes first.       *)
UserEnds ==
  /\ pc["user"] = "done" \/ Fails("user")
  /\ lock' = "free" /\ Goto("user", "idle")
  /\ UNCHANGED <<deviceVars, irqVars, answerVars, hidVars, powerVars, pending,
                 attempt, asking, try>>

-----------------------------------------------------------------------------
Irq == IrqHeaderFails \/ IrqReads

Makes(t) ==
  \/ Allocates(t) \/ Adds(t) \/ AddFails(t)
  \/ ErrorStops(t) \/ ErrorCancels(t) \/ ErrorAsserts(t)
  \/ ErrorDeasserts(t) \/ ErrorReturns(t)

ResetRuns ==
  \/ ResetStarts \/ ResetFlushes \/ Clears("reset") \/ Sends("reset", asking)
  \/ Wakes("reset", "check") \/ ResetFails \/ ResetChecks \/ ResetMeasures
  \/ ResetCopies \/ Makes("reset")
CreateRuns == CreateStarts \/ Makes("create")
UserRuns   == Clears("user") \/ Sends("user", "feature") \/ Wakes("user", "done")
                \/ UserEnds

Next ==
  \/ DeviceResets \/ Irq
  \/ ResetLocks \/ ResetRuns \/ CreateRuns \/ Refreshes \/ UserLocks \/ UserRuns

(* Nothing is assumed of the device, the interrupt or the scheduler.        *)
Spec == Init /\ [][Next]_vars

-----------------------------------------------------------------------------
Labels == {"idle", "flush", "lock", "clear", "send", "wait", "check", "take",
           "copy", "alloc", "add", "error", "cancel", "pulse", "done"}

TypeOK ==
  /\ version \in Versions /\ acts \in 0..MaxActs
  /\ bus \in Seq(Kinds) /\ Len(bus) <= BusLength
  /\ irqOn \in BOOLEAN /\ bus_error_count \in 0..ErrorLimit
  /\ done \in BOOLEAN
  /\ resp \in [kind : {"none", "reset", "device", "report", "feature"},
               buf : {"none", "device", "report", "feature"}]
  /\ hid_version \in {"none"} \cup Versions
  /\ rd \in {"none", "device", "report", "feature"}
  /\ hid \in Creators \cup {"none"}
  /\ registered \in [Creators -> {"none", "device", "report", "feature"}]
  /\ ready \in BOOLEAN /\ attempts \in 0..255
  /\ powered \in BOOLEAN /\ power_state \in {"active", "off"}
  /\ pc \in [{"reset", "create", "user"} -> Labels]
  /\ lock \in {"free"} \cup Requesters /\ pending \subseteq Works
  /\ asking \in {"device", "report"}
  /\ attempt \in 0..ResetAttempts - 1 /\ try \in 0..InitRetries - 1

(* The interrupt is turned off by an error count that is compared with ==, *)
(* in two of the three places that raise it: the count must never get past *)
(* the limit through the third one, and the line is off at the limit and   *)
(* on below it.                                                            *)
StormStopsIrq == irqOn <=> bus_error_count < ErrorLimit

(* Every HID device that user space can see was parsed from an answer to   *)
(* GET_REPORT_DESCRIPTOR, in spite of answers that come late, of resets    *)
(* between the answers, and of the two works that may create it.           *)
RegisteredHasReport == \A c \in Creators : registered[c] \in {"none", "report"}
=============================================================================

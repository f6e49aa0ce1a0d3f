------------------------------ MODULE G6tsInit ------------------------------
(***************************************************************************)
(* The initialization chronology of mshw0485_touch.c: what the recovery    *)
(* worker sends to the panel and in which order, what it takes for the     *)
(* answer, and where the Windows-parity attach pauses for want of a value  *)
(* that another owner must provide.  G6tsLifecycle has the concurrency     *)
(* around the worker and leaves the exchanges alone; here the worker holds *)
(* io_lock from WorkStarts to the end of the attempt, and the interrupt    *)
(* thread only runs between attempts.                                      *)
(*                                                                         *)
(* A packet is [reply, len, content, own]: reply stands for class and id,  *)
(* len compares the content with the length asked for, content is good,    *)
(* other (well formed, not what was hoped for) or bad, and own says that   *)
(* the panel made it for the request the host last sent.                   *)
(***************************************************************************)
EXTENDS Integers, Sequences, FiniteSets

CONSTANTS
  Profiles,        (* the settings of the module parameters                *)
  Configs,         (* contents of GET_FEATURE 0x70 of the Linux sequence   *)
  Defects,         (* answers of the panel that are not as asked: pairs    *)
                   (* <<len, content>>                                     *)
  ResponseLimit,   (* G6TS_FEATURE_RESPONSE_LIMIT                          *)
  RecoveryLimit,   (* G6TS_RECOVERY_LIMIT                                  *)
  MaxResets, MaxSuspends, WireLength   (* bounds of the model              *)

Owners == {"feedback", "config", "cfu", "heat"}

(* parity: windows_init_parity; v2: reset_recovery_v2; fix:                *)
(* mode_config_fix; provides: the owners whose values were given.          *)
ASSUME ProfileAssumption ==
  /\ Profiles \subseteq [parity : BOOLEAN, v2 : BOOLEAN, fix : BOOLEAN,
                         provides : SUBSET Owners]
  \* g6ts_probe refuses a Heat opt-in without the parity attach.
  /\ \A q \in Profiles : "heat" \in q.provides => q.parity
  /\ ResponseLimit \in Nat \ {0} /\ RecoveryLimit \in Nat \ {0}

VARIABLES
  profile, config,            (* module parameters, the panel's own config *)
  wire, asked, heard,         (* panel: packets it offers, requests it has *)
                              (* not answered, steps done since its reset  *)
  resets, suspends,           (* bounds                                    *)
  wpc, path, step, responses, (* the worker and its attempt                *)
  initialization_stage, required, (* parity_*_required                     *)
  mode_enabled, awaiting_ready_heat,
  recovery_path, recovery_fail_streak, fatal_transport_error,
  mode_config,                (* what GET_FEATURE 0x70 answered            *)
  borrowed                    (* the attempt accepted an answer to an      *)
                              (* older request                             *)

panelVars   == <<config, wire, asked, heard, resets>>
attemptVars == <<path, step, responses, initialization_stage, required,
                 mode_config, borrowed>>
gateVars    == <<mode_enabled, awaiting_ready_heat>>
policyVars  == <<recovery_path, recovery_fail_streak, fatal_transport_error>>
vars == <<profile, panelVars, suspends, wpc, attemptVars, gateVars, policyVars>>

-----------------------------------------------------------------------------
(* The chronology.  A step is a request with the stage it belongs to, the  *)
(* reply it waits for ("none" when it does not wait), what of the reply is *)
(* checked, the owner that must have provided its values, and whether a    *)
(* failure to write it is fatal.                                           *)

Step(stage, reply, check, owner, fatal) ==
  [stage |-> stage, reply |-> reply, check |-> check, owner |-> owner,
   fatal |-> fatal]
Feature(stage, reply, check, owner) == Step(stage, reply, check, owner, TRUE)

Enumeration ==
  <<Step("device-descriptor", "device", {"len", "content"}, "none", TRUE),
    Step("report-descriptor", "report", {"len"}, "none", TRUE)>>

LinuxSteps(fix) ==
  <<Feature("set-feature05", "set05", {}, "none"),
    Feature("get-feature70", "get70", {"min"}, "none"),
    Feature("set-feature70", "set70", {}, "none")>>
  \o (IF fix THEN <<Step("set-feature70", "none", {}, "none", TRUE)>> ELSE <<>>)
  \o <<Feature("set-feature56", "set56", {}, "none")>>

AttachSteps ==
  <<Feature("early-feature73", "get73", {"len", "content"}, "none"),
    Feature("heat-caps06", "get06", {"len"}, "none"),
    Step("feedback-a1", "a0", {"len", "content"}, "feedback", FALSE),
    Step("feedback-a5", "none", {}, "feedback", FALSE),
    Feature("set-feature05", "set05", {"len"}, "none"),
    Feature("get-feature70", "get70", {"len", "content"}, "config"),
    Feature("set-feature70", "set70", {"len"}, "config"),
    Feature("set-feature56", "set56", {"len"}, "config")>>

InventorySteps ==
  <<Feature("cfu-get-version", "get60", {"len", "content"}, "cfu"),
    Step("cfu-start-transaction", "cfu", {"len", "content"}, "cfu", FALSE),
    Step("cfu-start-list", "cfu", {"len", "content"}, "cfu", FALSE),
    Step("cfu-offer", "cfu", {"len", "content"}, "cfu", FALSE),
    Step("cfu-end-list", "cfu", {"len", "content"}, "cfu", FALSE),
    Feature("final-feature73", "get73", {"len"}, "cfu")>>

Chronology ==
  Enumeration \o (IF profile.parity THEN AttachSteps \o InventorySteps
                                    ELSE LinuxSteps(profile.fix))

Current == Chronology[step]

(* DATA packets, which may come before the answer that is waited for.      *)
DataReplies == {"a0", "cfu", "heat"}

(* Mutant: whatever is not the answer is skipped.                          *)
SkippedAll == {s.reply : s \in {Chronology[k] : k \in DOMAIN Chronology}}
                \cup DataReplies \cup {"ack09"}

Skipped == DataReplies \cup {"ack09"}   \* OUTPUT_REPORT_RESPONSE 0x09

(* g6ts_dma_feature_exchange goes by class and id and checks the length    *)
(* afterwards; for g6ts_recovery_read_expected, which reads the answers to *)
(* everything else, a short packet is not the answer.                      *)
Matches(s, packet) ==
  /\ packet.reply = s.reply
  /\ s.reply \in {"device", "report", "a0", "cfu"} => packet.len # "short"

(* What is wrong with a packet that matches: the lengths and contents the  *)
(* step insists on.                                                        *)
Unexpected(s, packet) ==
  \/ "min" \in s.check /\ packet.len = "short"
  \/ "len" \in s.check /\ packet.len # "exact"
  \/ "content" \in s.check /\ packet.content # "good"

Init ==
  /\ profile \in Profiles /\ config \in Configs
  /\ wire \in {<<>>, <<[reply |-> "reset", len |-> "exact",
                        content |-> "good", own |-> FALSE]>>}
  /\ asked = <<>> /\ heard = 0 /\ resets = 0 /\ suspends = 0
  /\ wpc = "due" /\ path = "hardware" /\ step = 1 /\ responses = 0
  /\ initialization_stage = "idle" /\ required = {}
  /\ mode_enabled = FALSE /\ awaiting_ready_heat = FALSE
  /\ recovery_path = "hardware" /\ recovery_fail_streak = 0
  /\ fatal_transport_error = FALSE
  /\ mode_config = "none" /\ borrowed = FALSE

-----------------------------------------------------------------------------
(* The panel.                                                              *)

Packet(reply, len, content, own) ==
  [reply |-> reply, len |-> len, content |-> content, own |-> own]
ResetPacket == Packet("reset", "exact", "good", FALSE)

(* An answer to the oldest request; it may come after the host gave up.    *)
PanelAnswers ==
  /\ asked # <<>> /\ Len(wire) < WireLength
  /\ LET r == Head(asked)
         as(len, content) == Packet(r.reply, len, content, r.own)
     IN \/ /\ r.reply # "none"
           /\ \E d \in Defects \cup {<<"exact", "good">>} :
                wire' = Append(wire, as(d[1],
                          IF r.reply = "get70" /\ ~profile.parity THEN config ELSE d[2]))
        \/ r.reply = "none" /\ wire' \in {wire, Append(wire, Packet("ack09", "exact", "good", FALSE))}
  /\ asked' = Tail(asked)
  /\ UNCHANGED <<profile, config, heard, resets, suspends, wpc, attemptVars,
                 gateVars, policyVars>>

(* A finger is on the glass.                                               *)
PanelStreams ==
  /\ Len(wire) < WireLength
  /\ wire' = Append(wire, Packet("heat", "exact", "good", FALSE))
  /\ UNCHANGED <<profile, config, asked, heard, resets, suspends, wpc,
                 attemptVars, gateVars, policyVars>>

(* The panel resets by itself: it forgets requests and mode.               *)
PanelResets ==
  /\ resets < MaxResets /\ resets' = resets + 1
  /\ wire' \in {<<ResetPacket>>, Append(wire, ResetPacket)}
  /\ asked' = <<>> /\ heard' = 0 /\ config' \in Configs
  /\ UNCHANGED <<profile, suspends, wpc, attemptVars, gateVars, policyVars>>

-----------------------------------------------------------------------------
(* The end of an attempt.                                                  *)

(* g6ts_note_panel_reset_locked, without the storm breaker.                *)
NotedPath == IF profile.v2 THEN "software" ELSE "hardware"

(* Mutant: the streak of failures is not counted.                          *)
FailureStreakLost == recovery_fail_streak

FailureStreak == recovery_fail_streak + 1

(* The error path of g6ts_recovery_work: a software attempt always falls   *)
(* back to the hardware path, a hardware attempt is repeated a few times.  *)
(* next is recovery_path when the attempt ended.                           *)
AttemptFails(fatal, next) ==
  LET falls == path = "software" /\ ~fatal
      retry == falls \/ (~fatal /\ FailureStreak < RecoveryLimit)
  IN /\ recovery_fail_streak' = FailureStreak
     /\ fatal_transport_error' = fatal
     /\ recovery_path' = IF falls THEN "hardware" ELSE next
     /\ wpc' = IF retry THEN "due" ELSE "off"
     /\ mode_enabled' = FALSE /\ UNCHANGED awaiting_ready_heat

Fails == AttemptFails(fatal_transport_error, recovery_path)
FailsFatally == AttemptFails(TRUE, recovery_path)

(* The success path, also of an attempt that pauses.                       *)
AttemptSucceeds ==
  /\ recovery_fail_streak' = 0 /\ recovery_path' = "hardware"
  /\ UNCHANGED fatal_transport_error
  /\ wpc' = "off"

(* Another owner must provide what comes next: the attach stops here with  *)
(* input closed, and the worker counts it as a success.                    *)
PausesFor(owner) ==
  /\ initialization_stage' = owner
  /\ required' = required \cup {owner}
  /\ AttemptSucceeds
  /\ UNCHANGED gateVars

-----------------------------------------------------------------------------
(* g6ts_full_reinitialize_locked.                                          *)

(* Mutant: a new attempt keeps the boundary flags of the last one.         *)
ClearedFlagsKept == required

ClearedFlags == {}

CloseInput == mode_enabled' = FALSE /\ awaiting_ready_heat' = FALSE

WorkStarts ==
  /\ wpc = "due"
  /\ CloseInput
  /\ initialization_stage' = "idle" /\ required' = ClearedFlags
  /\ path' = recovery_path /\ step' = 1 /\ responses' = 0 /\ borrowed' = FALSE
  /\ wpc' = IF path' = "hardware" THEN "power" ELSE "send"
  /\ UNCHANGED <<profile, panelVars, suspends, policyVars, mode_config>>

(* g6ts_power_off and g6ts_power_on or g6ts_windows_power_on: the supply   *)
(* and the reset line, or the ACPI methods, which may fail.  The panel     *)
(* starts anew and announces it, unless it is dead.                        *)
PowerCycle ==
  /\ wpc = "power"
  /\ \/ /\ Fails
        /\ UNCHANGED <<panelVars, attemptVars>>
     \/ /\ wire' \in {<<>>, <<ResetPacket>>}
        /\ asked' = <<>> /\ heard' = 0 /\ config' \in Configs
        /\ wpc' = "reset" /\ initialization_stage' = "reset-response"
        /\ UNCHANGED <<resets, path, step, responses, required, mode_config,
                       borrowed, gateVars, policyVars>>
  /\ UNCHANGED <<profile, suspends>>

ReadReset ==
  /\ wpc = "reset"
  /\ \/ /\ wire = <<>> /\ Fails
        /\ UNCHANGED wire
     \/ /\ wire # <<>> /\ wire' = Tail(wire)
        /\ \/ FailsFatally
           \/ Head(wire).reply # "reset" /\ Fails
           \/ /\ Head(wire).reply = "reset"
              /\ wpc' = "send" /\ UNCHANGED <<gateVars, policyVars>>
  /\ UNCHANGED <<profile, config, asked, heard, resets, suspends, attemptVars>>

(* An owner's section starts: are its values there?                        *)
Provided == profile.parity => Current.owner \in profile.provides \cup {"none"}

(* A parity attach from the software path is not supported.                *)
Unsupported ==
  profile.parity /\ path = "software" /\ step = Len(Enumeration) + 1

(* One byte in front of the config may be too long for an output report.   *)
TooLong == Current.stage = "set-feature70" /\ ~profile.parity
             /\ profile.fix /\ mode_config = "full"

(* What the panel has heard in order since its reset counts only when the  *)
(* configuration it is told is its own.                                    *)
HeardInOrder ==
  /\ heard = step - 1 \/ step = 1
  /\ (Current.stage = "set-feature70" /\ ~profile.parity /\ profile.fix) =>
       mode_config = config

Old(p) == [p EXCEPT !.own = FALSE]

(* One request is written; what the panel answered or was asked before is  *)
(* no answer to it.                                                        *)
Sends ==
  /\ wpc = "send" /\ step <= Len(Chronology)
  /\ ~Unsupported /\ Provided /\ ~TooLong
  /\ wire' = [k \in DOMAIN wire |-> Old(wire[k])]
  /\ asked' = Append([k \in DOMAIN asked |-> Old(asked[k])],
                     [reply |-> Current.reply, own |-> TRUE])
  /\ heard' = IF HeardInOrder THEN step ELSE heard
  /\ initialization_stage' = Current.stage
  /\ responses' = 0
  /\ IF Current.reply = "none"
       THEN step' = step + 1 /\ UNCHANGED wpc
       ELSE wpc' = "read" /\ UNCHANGED step
  /\ UNCHANGED <<profile, config, resets, suspends, path, required, mode_config,
                 borrowed, gateVars, policyVars>>

(* The write fails.  Only feature requests and descriptor requests make    *)
(* that fatal, feedback and CFU reports leave it to the retries.           *)
SendFails ==
  /\ wpc = "send" /\ step <= Len(Chronology)
  /\ ~Unsupported /\ Provided
  /\ initialization_stage' = Current.stage
  /\ IF Current.fatal THEN FailsFatally ELSE Fails
  /\ UNCHANGED <<profile, panelVars, suspends, path, step, responses, required,
                 mode_config, borrowed>>

RefusesSoftware ==
  /\ wpc = "send" /\ Unsupported
  /\ Fails
  /\ UNCHANGED <<profile, panelVars, suspends, attemptVars>>

PausesAtOwner ==
  /\ wpc = "send" /\ step <= Len(Chronology)
  /\ ~Unsupported /\ ~Provided
  /\ PausesFor(Current.owner)
  /\ UNCHANGED <<profile, panelVars, suspends, path, step, responses,
                 mode_config, borrowed>>

(* Every step was answered.  The Linux sequence waits for Heat only with   *)
(* reset_recovery_v2; the parity attach needs its last opt-in.             *)
Completes ==
  /\ wpc = "send" /\ step > Len(Chronology)
  /\ \/ /\ profile.parity /\ "heat" \notin profile.provides
        /\ PausesFor("heat")
     \/ /\ profile.parity => "heat" \in profile.provides
        /\ mode_enabled' = TRUE
        /\ awaiting_ready_heat' = (profile.parity \/ profile.v2)
        /\ initialization_stage' = IF awaiting_ready_heat' THEN "wait-heat"
                                   ELSE initialization_stage
        /\ AttemptSucceeds
        /\ UNCHANGED required
  /\ UNCHANGED <<profile, panelVars, suspends, path, step, responses,
                 mode_config, borrowed>>

-----------------------------------------------------------------------------
(* g6ts_recovery_read_expected and the loop of g6ts_dma_feature_exchange.  *)

Reads == wpc = "read" /\ responses < ResponseLimit /\ wire # <<>>

(* g6ts_wait_pending times out, or nothing but other packets came.         *)
ReadGivesUp ==
  /\ wpc = "read" /\ (wire = <<>> \/ responses = ResponseLimit)
  /\ Fails
  /\ UNCHANGED <<profile, panelVars, suspends, attemptVars>>

(* The transfer fails or the header makes no sense.                        *)
ReadFails ==
  /\ Reads /\ wire' = Tail(wire)
  /\ FailsFatally \/ Fails
  /\ UNCHANGED <<profile, config, asked, heard, resets, suspends, attemptVars>>

(* Mutant: a configuration once read is kept for later attempts.           *)
ConfigTakenOnce(p) ==
  IF p.reply = "get70" /\ ~profile.parity /\ mode_config = "none"
    THEN p.content ELSE mode_config

(* The content of GET_FEATURE 0x70, for SET_FEATURE 0x70 and report 0x09.  *)
ConfigTaken(p) ==
  IF p.reply = "get70" /\ ~profile.parity THEN p.content ELSE mode_config

ReadAccepts ==
  /\ Reads /\ wire' = Tail(wire)
  /\ LET p == Head(wire)
     IN /\ Matches(Current, p) /\ ~Unexpected(Current, p)
        /\ borrowed' = (borrowed \/ ~p.own)
        /\ mode_config' = ConfigTaken(p)
  /\ step' = step + 1 /\ wpc' = "send"
  /\ UNCHANGED <<profile, config, asked, heard, resets, suspends, path, responses,
                 initialization_stage, required, gateVars, policyVars>>

(* An offer that the panel does not plainly accept would start a firmware  *)
(* update, which the driver leaves alone.                                  *)
ReadRefusesOffer ==
  /\ Reads /\ wire' = Tail(wire)
  /\ LET p == Head(wire)
     IN /\ Current.stage = "cfu-offer"
        /\ Matches(Current, p) /\ p.len = "exact" /\ p.content = "other"
        /\ borrowed' = (borrowed \/ ~p.own)
  /\ PausesFor("branch")
  /\ UNCHANGED <<profile, config, asked, heard, resets, suspends, path, step,
                 responses, mode_config>>

(* The answer, but not as expected; or a packet of a class that has no     *)
(* place here.                                                             *)
ReadRejects ==
  /\ Reads /\ wire' = Tail(wire)
  /\ LET p == Head(wire)
     IN IF Matches(Current, p)
          THEN /\ Unexpected(Current, p)
               /\ ~(Current.stage = "cfu-offer" /\ p.len = "exact" /\ p.content = "other")
          ELSE p.reply \notin Skipped \cup {"reset"}
  /\ Fails
  /\ UNCHANGED <<profile, config, asked, heard, resets, suspends, attemptVars>>

ReadSkips ==
  /\ Reads /\ wire' = Tail(wire)
  /\ ~Matches(Current, Head(wire)) /\ Head(wire).reply \in Skipped
  /\ responses' = responses + 1
  /\ UNCHANGED <<profile, config, asked, heard, resets, suspends, wpc, path, step,
                 initialization_stage, required, mode_config, borrowed,
                 gateVars, policyVars>>

(* The panel has reset under the attempt.                                  *)
ReadMeetsReset ==
  /\ Reads /\ wire' = Tail(wire)
  /\ Head(wire).reply = "reset"
  /\ AttemptFails(fatal_transport_error, NotedPath)
  /\ UNCHANGED <<profile, config, asked, heard, resets, suspends, attemptVars>>

-----------------------------------------------------------------------------
(* Between attempts.                                                       *)

(* The interrupt thread, open to input: one packet.                        *)
IrqReads ==
  /\ wpc \in {"off", "due"} /\ mode_enabled /\ wire # <<>>
  /\ wire' = Tail(wire)
  /\ IF Head(wire).reply = "reset"
       THEN /\ mode_enabled' = FALSE /\ awaiting_ready_heat' = FALSE
            /\ recovery_path' = NotedPath /\ wpc' = "due"
       ELSE /\ awaiting_ready_heat' = (awaiting_ready_heat /\ Head(wire).reply # "heat")
            /\ UNCHANGED <<mode_enabled, recovery_path, wpc>>
  /\ UNCHANGED <<profile, config, asked, heard, resets, suspends, attemptVars,
                 recovery_fail_streak, fatal_transport_error>>

(* g6ts_suspend, then g6ts_resume with power for the panel.                *)
SuspendResume ==
  /\ suspends < MaxSuspends /\ suspends' = suspends + 1
  /\ wpc \in {"off", "due"} /\ wpc' = "due"
  /\ mode_enabled' = FALSE /\ UNCHANGED awaiting_ready_heat
  /\ fatal_transport_error' = FALSE /\ recovery_fail_streak' = 0
  /\ recovery_path' = "hardware"
  /\ wire' \in {<<>>, <<ResetPacket>>}
  /\ asked' = <<>> /\ heard' = 0 /\ config' \in Configs
  /\ UNCHANGED <<profile, resets, attemptVars>>

Worker ==
  \/ WorkStarts \/ PowerCycle \/ ReadReset
  \/ Sends \/ SendFails \/ RefusesSoftware \/ PausesAtOwner \/ Completes
  \/ ReadGivesUp \/ ReadFails \/ ReadAccepts \/ ReadRefusesOffer \/ ReadRejects
  \/ ReadSkips \/ ReadMeetsReset

Idle == wpc = "off" /\ UNCHANGED vars

Next ==
  \/ Worker \/ IrqReads \/ SuspendResume
  \/ PanelAnswers \/ PanelStreams \/ PanelResets \/ Idle

(* The work queue and the timeouts of the worker make it go on; neither    *)
(* the panel nor the user need do anything.                                *)
Spec == Init /\ [][Next]_vars /\ WF_vars(Worker)

-----------------------------------------------------------------------------
(* Properties.                                                             *)

ResetUnread == \E k \in DOMAIN wire : wire[k].reply = "reset"

(* Input is open only over a panel that heard the whole chronology, in     *)
(* order and with its own configuration, since it last reset; unless it    *)
(* has reset again and the host is about to read that.                     *)
InputBehindChronology ==
  mode_enabled => heard = Len(Chronology) \/ ResetUnread

Settled == wpc = "off" /\ recovery_fail_streak = 0

(* Where an attach pauses for want of owner.                               *)
LastBefore(owner) ==
  IF owner = "heat" THEN Len(Chronology)
  ELSE CHOOSE k \in 1 .. Len(Chronology) :
         IF owner = "branch" THEN Chronology[k].stage = "cfu-offer"
         ELSE /\ k < Len(Chronology) /\ Chronology[k].owner # owner
              /\ Chronology[k + 1].owner = owner

(* An attempt that counts as a success either opened input or stands at    *)
(* one owner boundary: input is closed, exactly that boundary is reported, *)
(* the stage names it, and the panel was told nothing beyond it.           *)
PausedSaysWhy ==
  Settled =>
    /\ mode_enabled <=> required = {}
    /\ required # {} =>
         \E owner \in (Owners \cup {"branch"}) \ profile.provides :
           /\ required = {owner} /\ initialization_stage = owner
           /\ heard = LastBefore(owner) \/ ResetUnread

(* Classes and ids repeat from one attempt to the next, so an answer that  *)
(* comes late may be taken for the answer to a newer request; an attempt   *)
(* that does so never succeeds.                                            *)
SucceedsOnOwnAnswers == Settled => ~borrowed

(* However often the panel resets under it and whatever it streams, the    *)
(* worker comes to rest: it waits for nothing for ever and its retries are *)
(* bounded.                                                                *)
RecoverySettles == <>[](wpc = "off")
=============================================================================

---------------------------- MODULE G6tsService -----------------------------
(* G6tsLifecycle implements TouchService.                                  *)
EXTENDS G6tsLifecycle

(* mode_enabled is what Linux sees of the gate; awaiting_ready_heat counts *)
(* only behind it.  A report that has passed the test is on its way.       *)
Gate ==
  CASE mode_enabled /\ awaiting_ready_heat   -> "waiting"
    [] mode_enabled /\ ~awaiting_ready_heat  -> "open"
    [] ~mode_enabled /\ pcT \in Reports      -> "closing"
    [] ~mode_enabled /\ pcT \notin Reports   -> "closed"

(* How far the driver core is.                                             *)
Life ==
  CASE pcP \in {"bound", "abort", "requeue", "resumed", "queue"} -> "up"
    [] pcP \in {"disable", "drain", "cancel", "await", "poweroff"} -> "going down"
    [] pcP \in {"suspended", "resume_failed"} -> "down"
    [] pcP \in {"rcancel", "rawait", "rrelease"} -> "leaving"
    [] pcP \in {"rpoweroff", "removed", "freeing", "releasing"} -> "cleared"
    [] pcP = "unbound" -> "gone"

Service == INSTANCE TouchService WITH gate <- Gate, touching <- contacts, life <- Life

(* Whatever interleaving of interrupt thread, worker and driver core, the  *)
(* input core is told of a finger only through a gate that an              *)
(* initialization has opened, a reset or a recovery takes every finger up, *)
(* at most one report that had passed the test of mode_enabled comes after *)
(* a suspend or remove has closed the gate, and that one before the        *)
(* contacts are released; a device that is down reports nothing.           *)
ImplementsService == Service!Spec

-----------------------------------------------------------------------------
(* What G6tsLifecycle's IInv leaves open: after a failed resume nobody is  *)
(* there, and nothing wakes anybody.                                       *)
QuietInv ==
  pcP = "resume_failed" =>
    irq_disabled /\ ThreadQuiet /\ pcW = "idle" /\ ~work_pending
=============================================================================

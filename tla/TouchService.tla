---------------------------- MODULE TouchService ----------------------------
(***************************************************************************)
(* What the touch client promises to the input core and to whoever listens *)
(* there, without the panel, the interrupt, the mutex, the worker or the   *)
(* retries: fingers go down only through an open gate, a gate that closes  *)
(* by itself takes them up first, and a device that is down is silent.     *)
(* A suspend or a remove shuts the gate without waiting for anyone: one    *)
(* report that was already on its way may still come, after which the      *)
(* fingers are taken up for good.                                          *)
(***************************************************************************)
VARIABLES
  gate,       (* "closed", "waiting" for the first frame, "open", or         *)
              (* "closing": shut with one report on its way                  *)
  touching,   (* a finger is down in Linux                                   *)
  life        (* "up", "going down", "down", "leaving", "cleared", "gone"    *)

vars == <<gate, touching, life>>

Init == gate = "closed" /\ ~touching /\ life = "up"

Served == life \notin {"down", "gone"}

(* An initialization has succeeded.                                        *)
Opens ==
  /\ Served /\ gate = "closed" /\ ~touching
  /\ gate' \in {"waiting", "open"} /\ UNCHANGED <<touching, life>>

(* The first frame, and every report after it.                             *)
Reports ==
  /\ Served /\ gate \in {"waiting", "open"}
  /\ gate' = "open" /\ touching' \in BOOLEAN /\ UNCHANGED life

(* The one report that was on its way when the gate was shut.              *)
LastReport ==
  /\ gate = "closing"
  /\ gate' = "closed" /\ touching' \in BOOLEAN /\ UNCHANGED life

(* A frame that makes no sense.                                            *)
Lifts == Served /\ touching' = FALSE /\ UNCHANGED <<gate, life>>

(* A reset of the panel, a host fault or a recovery.                       *)
Closes ==
  /\ Served /\ gate # "closing"
  /\ gate' = "closed" /\ touching' = FALSE /\ UNCHANGED life

(* The driver core.                                                        *)
Shuts ==
  /\ gate' \in (IF gate = "closed" THEN {"closed"} ELSE {"closed", "closing"})
  /\ UNCHANGED touching

Suspends == life = "up" /\ life' = "going down" /\ Shuts
GoesDown ==
  /\ life = "going down" /\ gate # "closing"
  /\ life' \in {"down", "up"} /\ touching' = FALSE /\ UNCHANGED gate
Wakes    == life = "down" /\ life' = "up" /\ UNCHANGED <<gate, touching>>
Leaves   == life \in {"up", "down"} /\ life' = "leaving" /\ Shuts
Clears   ==
  /\ life = "leaving" /\ gate # "closing"
  /\ life' = "cleared" /\ touching' = FALSE /\ UNCHANGED gate
Goes     == life = "cleared" /\ life' = "gone" /\ UNCHANGED <<gate, touching>>

Next == \/ Opens \/ Reports \/ LastReport \/ Lifts \/ Closes
        \/ Suspends \/ GoesDown \/ Wakes \/ Leaves \/ Clears \/ Goes

Spec == Init /\ [][Next]_vars
=============================================================================

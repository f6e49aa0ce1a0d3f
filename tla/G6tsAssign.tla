----------------------------- MODULE G6tsAssign -----------------------------
(***************************************************************************)
(* g6ts_assign_tracks of mshw0485_touch.c: the Hungarian algorithm on a    *)
(* square matrix with dummy rows and columns.  Each round of a loop is a   *)
(* step; arrays are functions from 0 .. n, one-based as in the code, with  *)
(* the virtual column 0.                                                   *)
(***************************************************************************)
EXTENDS Integers, Sequences, FiniteSetsExt

CONSTANTS
  UnmatchedCost,    (* G6TS_ASSIGN_UNMATCHED_COST                          *)
  InvalidCost,      (* G6TS_ASSIGN_INVALID_COST                            *)
  IntMax            (* INT_MAX: the arrays hold C ints                     *)

NoSlot == -1

VARIABLES
  apc,              (* idle, row, relax, shift or done                     *)
  active_slots,     (* slots of the active tracks                          *)
  count,            (* contacts of the frame                               *)
  cost, u, v, p, way, minv, used,   (* work->..., used as a set            *)
  i, j0,            (* the row being added, the column just reached        *)
  contact_slots     (* what g6ts_assign_tracks returns                     *)

workVars == <<cost, u, v, p, way, minv, used, i, j0>>
assignVars == <<apc, active_slots, count, workVars, contact_slots>>

active_count == Len(active_slots)
n == active_count + count

Init ==
  /\ apc = "idle" /\ active_slots = <<>> /\ count = 0 /\ cost = <<>>
  /\ u = <<>> /\ v = <<>> /\ p = <<>> /\ way = <<>> /\ minv = <<>>
  /\ used = {} /\ i = 0 /\ j0 = 0 /\ contact_slots = <<>>

(* The call, for the distances of the pairs <<row, col>> not gated out.    *)
Begin(slots, contacts, d) ==
  LET a == Len(slots)
      zero == [j \in 0 .. a + contacts |-> 0]
      none == [c \in 1 .. contacts |-> NoSlot]
      costAt(row, col) ==
        IF row <= a /\ col <= contacts
          THEN IF <<row, col>> \in DOMAIN d THEN d[<<row, col>>] ELSE InvalidCost
        ELSE IF row <= a \/ col <= contacts THEN UnmatchedCost
        ELSE 0
  IN /\ apc = "idle"
     /\ active_slots' = slots /\ count' = contacts /\ contact_slots' = none
     /\ apc' = IF a = 0 \/ contacts = 0 THEN "done" ELSE "row"
     /\ cost' = [rc \in (1 .. a + contacts) \X (1 .. a + contacts) |->
                   costAt(rc[1], rc[2])]
     /\ u' = zero /\ v' = zero /\ p' = zero /\ way' = zero /\ minv' = zero
     /\ used' = {} /\ i' = 1 /\ j0' = 0

StartRow ==
  /\ apc = "row" /\ i <= n
  /\ p' = [p EXCEPT ![0] = i] /\ j0' = 0 /\ used' = {}
  /\ minv' = [j \in 0 .. n |-> IntMax]
  /\ apc' = "relax"
  /\ UNCHANGED <<active_slots, count, cost, u, v, way, i, contact_slots>>

(* Mutant: a column that was reached is not marked.                        *)
MarkedNot == used

Marked == used \cup {j0}
Open == (1 .. n) \ Marked

(* Mutant: the reduced cost leaves out the potential of the column.        *)
ReducedByRow(j) == cost[<<p[j0], j>>] - u[p[j0]]

Reduced(j) == cost[<<p[j0], j>>] - u[p[j0]] - v[j]
Nearer == {j \in Open : Reduced(j) < minv[j]}

RaisePotentials(delta, reached) ==
  LET rows == {p[j] : j \in reached}
  IN /\ u' = [r \in 0 .. n |-> IF r \in rows THEN u[r] + delta ELSE u[r]]
     /\ v' = [j \in 0 .. n |-> IF j \in reached THEN v[j] - delta ELSE v[j]]

(* One round of the inner loop: take in column j0, relax the others from   *)
(* the row matched with it, and go on to the first of the nearest ones.    *)
Relax ==
  LET relaxed == [j \in 0 .. n |-> IF j \in Nearer THEN Reduced(j) ELSE minv[j]]
      delta == Min({relaxed[j] : j \in Open})
  IN /\ apc = "relax"
     /\ used' = Marked
     /\ way' = [j \in 0 .. n |-> IF j \in Nearer THEN j0 ELSE way[j]]
     /\ minv' = [j \in 0 .. n |-> IF j \in Open THEN relaxed[j] - delta
                                                ELSE relaxed[j]]
     /\ RaisePotentials(delta, used')
     /\ j0' = Min({j \in Open : relaxed[j] = delta})
     /\ apc' = IF p[j0'] # 0 THEN "relax" ELSE "shift"
     /\ UNCHANGED <<active_slots, count, cost, p, i, contact_slots>>

(* The second loop: shift the matching along the way found.                *)
Shift ==
  /\ apc = "shift"
  /\ p' = [p EXCEPT ![j0] = p[way[j0]]]
  /\ j0' = way[j0]
  /\ IF j0' = 0 THEN apc' = "row" /\ i' = i + 1 ELSE UNCHANGED <<apc, i>>
  /\ UNCHANGED <<active_slots, count, cost, u, v, way, minv, used,
                 contact_slots>>

(* Back from one-based columns to contact_slots.                           *)
Finish ==
  /\ apc = "row" /\ i > n
  /\ contact_slots' =
       [c \in 1 .. count |->
          IF p[c] <= active_count /\ cost[<<p[c], c>>] < InvalidCost
            THEN active_slots[p[c]] ELSE NoSlot]
  /\ apc' = "done"
  /\ UNCHANGED <<active_slots, count, workVars>>

Next == StartRow \/ Relax \/ Shift \/ Finish

-----------------------------------------------------------------------------
(* Properties.                                                             *)

(* The certificate of optimality the loops carry from row to row: between  *)
(* two rows no potential exceeds a cost, and a matched pair meets it.  The *)
(* ints of the workspace stay far from INT_MAX.                            *)
PotentialsFeasible ==
  /\ apc = "row" =>
       /\ \A r \in 1 .. i - 1 : \A j \in 1 .. n : u[r] + v[j] <= cost[<<r, j>>]
       /\ \A j \in 1 .. n : p[j] # 0 => u[p[j]] + v[j] = cost[<<p[j], j>>]
       /\ \A j, k \in 1 .. n : p[j] = p[k] /\ p[j] # 0 => j = k
  /\ apc \in {"row", "relax", "shift"} =>
       \A j \in 0 .. n : /\ u[j] \in -IntMax .. IntMax
                         /\ v[j] \in -IntMax .. IntMax
                         /\ minv[j] \in -IntMax .. IntMax
=============================================================================

---------------------------- MODULE G6tsMatching ----------------------------
(***************************************************************************)
(* What g6ts_assign_tracks of mshw0485_touch.c promises, without its       *)
(* algorithm: the contacts of a frame are paired with slots of active      *)
(* tracks, no two with one slot and no pair that was gated out, and of all *)
(* such pairings one with the most pairs and, among those, the least sum   *)
(* of distances.                                                           *)
(***************************************************************************)
EXTENDS Integers, FiniteSets, FiniteSetsExt

NoSlot == -1

(* slots: those of active tracks; contacts: indices; near: the pairs       *)
(* <<slot, contact>> that are not gated out.                               *)
Pairings(slots, contacts, near) ==
  {m \in [contacts -> slots \cup {NoSlot}] :
     \A c \in contacts : m[c] # NoSlot =>
       /\ <<m[c], c>> \in near
       /\ \A d \in contacts : m[c] = m[d] => c = d}

(* Closing one track and opening another costs worth, more than any sum of *)
(* distances can save.                                                     *)
Saved(m, dist, worth) ==
  MapThenSumSet(LAMBDA c : worth - dist[<<m[c], c>>], {c \in DOMAIN m : m[c] # NoSlot})

Optimal(slots, contacts, near, dist, worth) ==
  LET all == Pairings(slots, contacts, near)
      best == Max({Saved(m, dist, worth) : m \in all})
  IN {m \in all : Saved(m, dist, worth) = best}
=============================================================================

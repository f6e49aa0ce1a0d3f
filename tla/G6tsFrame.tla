----------------------------- MODULE G6tsFrame ------------------------------
(***************************************************************************)
(* The first half of g6ts_report_heat_contacts (mshw0485_touch.c): a Heat  *)
(* report is parsed and segmented by G6tsHeat, and its contacts are        *)
(* assigned by G6tsAssign to the tracks that earlier frames left.  A track *)
(* is here where it is predicted to be; what the assignment is used for is *)
(* G6tsTracker.                                                            *)
(***************************************************************************)
EXTENDS G6tsHeat

CONSTANTS
  LogicalMax,       (* G6TS_LOGICAL_MAX                                    *)
  MatchMax,         (* G6TS_TRACK_MATCH_MAX                                *)
  Predictions,      (* where the active tracks may be expected: functions  *)
                    (* from slots to points                                *)
  UnmatchedCost, InvalidCost, IntMax

(* A gated-out pair must cost more than leaving both sides unmatched, and  *)
(* a row of such pairs, for each row of the matrix, must fit into an int.  *)
ASSUME CostAssumption ==
  /\ UnmatchedCost \in Nat /\ InvalidCost \in Nat /\ IntMax \in Nat
  /\ LogicalMax \in Nat /\ MatchMax \in Nat
  /\ 2 * UnmatchedCost < InvalidCost /\ MatchMax < InvalidCost
  /\ 2 * MaxContacts * InvalidCost < IntMax

(* There are as many tracks as contacts, and a prediction is clamped.      *)
ASSUME PredictionAssumption ==
  \A f \in Predictions : \E slots \in SUBSET (0 .. MaxContacts - 1) :
    f \in [slots -> [x : 0 .. LogicalMax, y : 0 .. LogicalMax]]

VARIABLES
  predicted,        (* of the active tracks                                *)
  apc, active_slots, count, cost, u, v, p, way, minv, used, i, j0,
  contact_slots

Assign == INSTANCE G6tsAssign
Matching == INSTANCE G6tsMatching

assignVars == <<apc, active_slots, count, cost, u, v, p, way, minv, used, i,
                j0, contact_slots>>
vars == <<heatVars, predicted, assignVars>>

(* contact.x and contact.y: the centroid, scaled to the logical range.     *)
Point(cells) ==
  [x |-> (WeightedX(cells) * LogicalMax) \div (Strength(cells) * (Cols - 1)),
   y |-> (WeightedY(cells) * LogicalMax) \div (Strength(cells) * (Rows - 1))]

Square(a) == a * a
Squared(a, b) == Square(a.x - b.x) + Square(a.y - b.y)
IntSqrt(a) == Max({r \in 0 .. a : r * r <= a})

(* g6ts_track_distance of the legacy tracker, on the pairs not gated out.  *)
Near(slots, points) ==
  {rc \in (DOMAIN slots) \X (DOMAIN points) :
     Squared(predicted[slots[rc[1]]], points[rc[2]]) <= Square(MatchMax)}

FrameInit ==
  /\ Init /\ Assign!Init
  /\ predicted \in Predictions

(* work->active_slots: the active slots in ascending order.                *)
ActiveSlots ==
  LET active == DOMAIN predicted
  IN [r \in 1 .. Cardinality(active) |->
        CHOOSE s \in active : Cardinality({t \in active : t < s}) = r - 1]

BeginAssign ==
  LET slots == ActiveSlots
      points == [c \in DOMAIN contacts |-> Point(contacts[c])]
      d == [rc \in Near(slots, points) |->
              IntSqrt(Squared(predicted[slots[rc[1]]], points[rc[2]]))]
  IN /\ hpc = "found"
     /\ Assign!Begin(slots, Len(contacts), d)
     /\ UNCHANGED <<heatVars, predicted>>

Parse == Next /\ UNCHANGED <<predicted, assignVars>>
AssignStep == Assign!Next /\ UNCHANGED <<heatVars, predicted>>

(* A frame is over when it was refused or its contacts have their slots.   *)
Over == hpc = "refused" \/ apc = "done"

FrameNext == Parse \/ BeginAssign \/ AssignStep \/ (Over /\ UNCHANGED vars)

FrameSpec == FrameInit /\ [][FrameNext]_vars /\ WF_vars(FrameNext)

-----------------------------------------------------------------------------
(* Whatever ties it breaks, the algorithm returns one of the pairings that *)
(* G6tsMatching promises, which is all G6tsTracker knows of it; on its way *)
(* it carries a certificate of optimality, far from the limits of an int.  *)
AssignsOptimally ==
  /\ Assign!PotentialsFeasible
  /\ apc = "done" =>
    LET slots == DOMAIN predicted
        points == [c \in DOMAIN contacts |-> Point(contacts[c])]
        near == {sc \in slots \X (DOMAIN contacts) :
                   Squared(predicted[sc[1]], points[sc[2]]) <= Square(MatchMax)}
        dist == [sc \in near |-> IntSqrt(Squared(predicted[sc[1]], points[sc[2]]))]
    IN contact_slots \in
         Matching!Optimal(slots, DOMAIN contacts, near, dist, 2 * UnmatchedCost)

(* Parsing, flood fill and both loops of the assignment end on every       *)
(* frame; the interrupt thread runs them holding io_lock.                  *)
FrameEnds == <>Over
=============================================================================

---------------------------- MODULE G6tsTracker ----------------------------
(***************************************************************************)
(* The contact tracker of mshw0485_touch.c: what one Heat frame does to    *)
(* the tracks and to the slots Linux input sees.  A frame is one step, as  *)
(* in the code, which runs it under io_lock without a callback in between: *)
(* assignment, matched updates, unmatched tracks, new tracks, collection.  *)
(*                                                                         *)
(* The glass has one dimension, 0 .. XMax; what the assignment tells apart *)
(* is the distance between a prediction and a contact.  A contact carries  *)
(* its position and its kind: pixel count (also for its strength), class   *)
(* of the classifier and whether the margins of its scores are wide.  The  *)
(* assignment is abstract here, any of the globally optimal ones of        *)
(* G6tsMatching; G6tsFrame has the algorithm and shows it returns one.     *)
(***************************************************************************)
EXTENDS Integers, Sequences, FiniteSets, G6tsMatching

CONSTANTS
  Slots,             (* 0 .. G6TS_MAX_CONTACTS - 1                         *)
  XMax,              (* G6TS_LOGICAL_MAX                                   *)
  Kinds,             (* what a contact can be besides its position         *)
  Frames,            (* the sequences of contacts a Heat frame may show    *)
  MatchMax,          (* G6TS_TRACK_MATCH_MAX: legacy gate, inclusive       *)
  AssignRadius,      (* G6TS_WINDOWS_ASSIGN_RADIUS: exclusive              *)
  PairWorth,         (* twice G6TS_ASSIGN_UNMATCHED_COST                   *)
  HoldFrames,        (* G6TS_CONTACT_HOLD_FRAMES                           *)
  ConfirmNormal, ConfirmWeak, ConfirmSplit, (* G6TS_TRACK_CONFIRM_*        *)
  BehaviorConfirm,   (* G6TS_BEHAVIOR_CONFIRM_NORMAL                       *)
  SplitRadius,       (* G6TS_TRACK_SPLIT_RADIUS                            *)
  MinPixels,         (* G6TS_HEAT_MIN_PIXELS                               *)
  Classes,           (* classes of the classifier, 0 .. 3                  *)
  Rules,             (* g6ts_transition_rules                              *)
  PointLimits,       (* g6ts_class_point_minimums and _maximums            *)
  HistoryCapacity,   (* G6TS_WINDOWS_HISTORY_CAPACITY                      *)
  U16Max, U8Max      (* where age and evidence saturate                    *)

Fingers      == {0, 2}   \* the classes that may become Linux contacts
Unclassified == 4        \* G6TS_WINDOWS_UNCLASSIFIED
Profiles     == {"legacy", "behavior", "orchestrator"}

ASSUME SlotAssumption ==
  /\ Slots \subseteq Nat /\ IsFiniteSet(Slots)
  /\ XMax \in Nat /\ MatchMax \in Nat /\ AssignRadius \in Nat
  /\ SplitRadius \in Nat /\ MinPixels \in Nat
  /\ HoldFrames \in Nat \ {0} /\ HistoryCapacity \in Nat \ {0}
  /\ Classes \subseteq Nat /\ Unclassified \notin Classes

ASSUME EvidenceAssumption ==
  /\ {ConfirmNormal, ConfirmWeak, ConfirmSplit, BehaviorConfirm} \subseteq
       2 .. U8Max
  /\ U8Max \in Nat /\ U16Max \in Nat \ {0}

ASSUME FrameAssumption ==
  /\ \A k \in Kinds : k.pixels \in Nat /\ k.cls \in Classes /\ k.wide \in BOOLEAN
  /\ \A f \in Frames :
       f \in Seq([x : 0 .. XMax, kind : Kinds])

VARIABLES
  profile,    (* the module parameters behavior_v2, windows_orchestrator   *)
  tracks,     (* ts->tracks                                                *)
  reported    (* slots that hold a contact in Linux input                  *)

vars == <<profile, tracks, reported>>

(* memset(track, 0).                                                       *)
NoTrack == [active |-> FALSE, confirmed |-> FALSE, x |-> 0, vel |-> 0,
            pixels |-> 0, age |-> 0, missed |-> 0, evidence |-> 0,
            required |-> 0, class |-> 0, history |-> <<>>]

Active(t) == {s \in Slots : t[s].active}

Init ==
  /\ profile \in Profiles
  /\ tracks = [s \in Slots |-> NoTrack]
  /\ reported = {}

-----------------------------------------------------------------------------
(* Assignment.                                                             *)

Clamp(n) == IF n < 0 THEN 0 ELSE IF n > XMax THEN XMax ELSE n
Dist(a, b) == IF a < b THEN b - a ELSE a - b
AtMost(n, limit) == IF n < limit THEN n ELSE limit

Predicted(track) == Clamp(track.x + track.vel)

(* g6ts_track_distance: the pairs it does not gate out, and their cost.    *)
Matchable(track, c) ==
  LET d == Dist(Predicted(track), c.x)
  IN IF profile = "legacy" THEN d <= MatchMax ELSE d < AssignRadius

Distance(track, c) ==
  LET d == Dist(Predicted(track), c.x)
  IN IF profile = "legacy" THEN d ELSE d * d

(* The assignments of the contacts of f to the tracks that the frame may   *)
(* take; a pair that is not gated out is always worth it.                  *)
Assignments(f) ==
  LET slots == Active(tracks)
      near == {sc \in slots \X DOMAIN f : Matchable(tracks[sc[1]], f[sc[2]])}
      dist == [sc \in near |-> Distance(tracks[sc[1]], f[sc[2]])]
  IN Optimal(slots, DOMAIN f, near, dist, PairWorth)

-----------------------------------------------------------------------------
(* One track.                                                              *)

(* g6ts_transition_current_passes and g6ts_transition_history_passes: a    *)
(* sample passes a rule when its best class is the candidate, by a margin. *)
CurrentPasses(rule, sample)   == rule.current /\ sample.wide
HistoryPasses(track, rule, candidate) ==
  /\ rule.depth <= HistoryCapacity
  /\ Len(track.history) >= rule.depth
  /\ \A i \in 1 .. rule.depth :
       track.history[i].cls = candidate /\ track.history[i].wide

(* g6ts_windows_update_class, for a track whose age is already counted.    *)
UpdateClass(track, kind) ==
  LET sample == [cls |-> kind.cls, wide |-> kind.wide]
      seen == [track EXCEPT !.history =
                 SubSeq(<<sample>> \o track.history, 1,
                        AtMost(Len(track.history) + 1, HistoryCapacity))]
      rule == Rules[track.class, kind.cls]
      limit == PointLimits[kind.cls]
      accepted ==
        \/ track.class = kind.cls
        \/ /\ \/ /\ track.age = 1 \/ track.age <= rule.ageLimit
                 /\ CurrentPasses(rule, sample)
              \/ track.age > 1 /\ HistoryPasses(seen, rule, kind.cls)
           /\ kind.pixels \in limit
      class == IF accepted THEN kind.cls ELSE track.class
  IN [seen EXCEPT !.class = class, !.confirmed = class \in Fingers]

(* Mutant: every frame counts as evidence twice.                           *)
UpdateEvidenceTwice(track, kind) ==
  LET evidence == IF ~track.confirmed /\ kind.cls \in Fingers
                    THEN AtMost(track.evidence + 2, U8Max)
                    ELSE track.evidence
  IN [track EXCEPT !.evidence = evidence,
                   !.confirmed = @ \/ evidence >= track.required]

(* The evidence of a track that is not confirmed: frames of allowed shape. *)
UpdateEvidence(track, kind) ==
  LET counts == ~track.confirmed /\ kind.cls \in Fingers /\ track.evidence < U8Max
      evidence == track.evidence + 1
  IN IF counts
       THEN [track EXCEPT !.evidence = evidence,
                          !.confirmed = evidence >= track.required]
       ELSE track

(* g6ts_update_track.                                                      *)
Updated(track, c) ==
  LET moved == [track EXCEPT !.x = c.x, !.vel = c.x - track.x,
                             !.pixels = c.kind.pixels,
                             !.age = AtMost(track.age + 1, U16Max)]
      classed == IF profile = "orchestrator" THEN UpdateClass(moved, c.kind)
                                             ELSE UpdateEvidence(moved, c.kind)
  IN [classed EXCEPT !.missed = 0]

(* C division truncates toward zero.                                       *)
Halved(v) == IF v < 0 THEN -((-v) \div 2) ELSE v \div 2

(* Mutant: a track is dropped in the first frame that does not show it.    *)
AdvancedAtOnce(track) == NoTrack

(* g6ts_advance_unmatched_tracks for one active track.                     *)
Advanced(track) ==
  IF track.missed < HoldFrames
    THEN [track EXCEPT !.missed = @ + 1, !.vel = Halved(@)]
    ELSE NoTrack

(* g6ts_confirmation_requirement, looking at the tracks t.                 *)
Requirement(t, c) ==
  LET near == {s \in Slots : /\ t[s].active /\ t[s].confirmed
                             /\ t[s].missed = 0
                             /\ Dist(t[s].x, c.x) <= SplitRadius}
      split == \E s \in near : 2 * c.kind.pixels <= t[s].pixels
      weak == c.kind.pixels < MinPixels \/ c.kind.cls \notin Fingers
      normal == IF profile = "behavior" THEN BehaviorConfirm ELSE ConfirmNormal
  IN IF split THEN ConfirmSplit
     ELSE IF near # {} \/ weak THEN ConfirmWeak
     ELSE normal

(* g6ts_new_track: a confirmed track never follows from the first frame,   *)
(* except by its class.                                                    *)
NewTrack(t, c) ==
  LET track == [NoTrack EXCEPT !.active = TRUE, !.x = c.x,
                               !.pixels = c.kind.pixels, !.age = 1]
  IN IF profile = "orchestrator"
       THEN UpdateClass([track EXCEPT !.class = Unclassified], c.kind)
       ELSE [track EXCEPT !.evidence = IF c.kind.cls \in Fingers THEN 1 ELSE 0,
                          !.required = Requirement(t, c)]

-----------------------------------------------------------------------------
(* g6ts_report_heat_contacts, given the assignment m of the contacts of f. *)

(* The tracks after g6ts_update_track and g6ts_advance_unmatched_tracks.   *)
Aged(f, m) ==
  [s \in Slots |->
     IF \E c \in DOMAIN f : m[c] = s
       THEN Updated(tracks[s], f[CHOOSE c \in DOMAIN f : m[c] = s])
     ELSE IF tracks[s].active THEN Advanced(tracks[s])
     ELSE tracks[s]]

(* g6ts_create_unmatched_tracks: in order, each unmatched contact takes    *)
(* the lowest free slot; the last ones are dropped when no slot is left.   *)
(* A contact is new on slot s when as many slots are free below s as       *)
(* unmatched contacts came before it.                                      *)
IsNewOn(f, m, t, c, s) ==
  /\ m[c] = NoSlot /\ ~t[s].active
  /\ Cardinality({d \in DOMAIN f : d < c /\ m[d] = NoSlot})
       = Cardinality({r \in Slots : r < s /\ ~t[r].active})

Created(f, m, t) ==
  [s \in Slots |->
     IF \E c \in DOMAIN f : IsNewOn(f, m, t, c, s)
       THEN NewTrack(t, f[CHOOSE c \in DOMAIN f : IsNewOn(f, m, t, c, s)])
       ELSE t[s]]

(* Mutant: retained tracks are reported at their last position.            *)
CollectedRetained(f, m, aged, t) ==
  {s \in Slots : t[s].active /\ t[s].confirmed}

(* g6ts_collect_linux_contacts: the slots a contact of this frame updated  *)
(* or took; INPUT_MT_DROP_UNUSED releases every other one.                 *)
Collected(f, m, aged, t) ==
  {s \in Slots :
     /\ t[s].active /\ t[s].confirmed
     /\ \E c \in DOMAIN f : m[c] = s \/ IsNewOn(f, m, aged, c, s)}

FrameWith(f, m) ==
  LET aged == Aged(f, m)
      created == Created(f, m, aged)
  IN /\ tracks' = created
     /\ reported' = Collected(f, m, aged, created)
     /\ UNCHANGED profile

Frame == \E f \in Frames : \E m \in Assignments(f) : FrameWith(f, m)

(* g6ts_release_contacts: a malformed frame, a panel reset, a host fault,  *)
(* suspend and remove.                                                     *)
Release ==
  /\ tracks' = [s \in Slots |-> NoTrack]
  /\ reported' = {}
  /\ UNCHANGED profile

Next == Frame \/ Release

Spec == Init /\ [][Next]_vars

-----------------------------------------------------------------------------
(* Properties.                                                             *)

Samples == [cls : Classes, wide : BOOLEAN]

TrackType ==
  [active : BOOLEAN, confirmed : BOOLEAN, x : 0 .. XMax, vel : -XMax .. XMax,
   pixels : Nat, age : 0 .. U16Max, missed : 0 .. HoldFrames,
   evidence : 0 .. U8Max, required : 0 .. U8Max,
   class : Classes \cup {0, Unclassified}, history : Seq(Samples)]

(* Types; an inactive track is all zero, as memset leaves it, and a class  *)
(* history never outgrows its array.                                       *)
TypeOK ==
  /\ profile \in Profiles
  /\ tracks \in [Slots -> TrackType]
  /\ reported \subseteq Slots
  /\ \A s \in Slots : /\ ~tracks[s].active => tracks[s] = NoTrack
                      /\ Len(tracks[s].history) <= HistoryCapacity

(* A slot is down in Linux exactly while its track is confirmed and was    *)
(* seen in the last frame: a retained track is never a ghost contact, and  *)
(* a contact that was confirmed is never withheld.                         *)
ReportedIsSeen ==
  reported = {s \in Slots : /\ tracks[s].active /\ tracks[s].confirmed
                            /\ tracks[s].missed = 0}

(* A track that is not classified by the orchestrator is reported only     *)
(* after it was seen in as many frames as its admission window asks for,   *)
(* at least two and more for weak and split candidates: no path, neither a *)
(* takeover of a slot nor a retained track, confirms it on a shorter life. *)
AdmissionWindow ==
  profile # "orchestrator" =>
    \A s \in Slots : tracks[s].confirmed =>
      /\ tracks[s].required <= tracks[s].evidence
      /\ AtMost(tracks[s].evidence, U16Max) <= tracks[s].age
      /\ tracks[s].required >= 2

(* Linux gives a slot that is down in two frames one tracking identifier,  *)
(* so the two must be the same contact: the track aged by one frame and    *)
(* was not replaced by a new one on the same slot.                         *)
SlotKeepsContact ==
  [][\A s \in reported \cap reported' :
       /\ tracks'[s].age = AtMost(tracks[s].age + 1, U16Max)
       /\ Matchable(tracks[s], [x |-> tracks'[s].x])]_vars
=============================================================================

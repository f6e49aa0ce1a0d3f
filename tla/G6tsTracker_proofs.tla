------------------------- MODULE G6tsTracker_proofs -------------------------
(***************************************************************************)
(* The properties of G6tsTracker for any number of slots, any contacts and *)
(* every threshold.  All of them follow from what one frame can do to one  *)
(* slot (SlotStep) and the inductive invariant TypeOK /\ Windows.          *)
(***************************************************************************)
EXTENDS G6tsTracker, SequenceTheorems, TLAPS

Contact == [x : 0 .. XMax, kind : Kinds]

-----------------------------------------------------------------------------
(* One track.                                                              *)

LEMMA NoTrackType == NoTrack \in TrackType /\ ~NoTrack.active
<1>1. 0 \in 0 .. XMax /\ 0 \in -XMax .. XMax /\ 0 \in 0 .. U16Max
      /\ 0 \in 0 .. HoldFrames /\ 0 \in 0 .. U8Max
  BY SlotAssumption, EvidenceAssumption
<1>2. <<>> \in Seq(Samples)
  OBVIOUS
<1> QED
  BY <1>1, <1>2 DEF NoTrack, TrackType

(* A class update leaves everything but class, confirmation and history.   *)
LEMMA UpdateClassKeeps ==
  ASSUME NEW track \in TrackType, NEW kind \in Kinds,
         Len(track.history) <= HistoryCapacity
  PROVE  LET t == UpdateClass(track, kind)
         IN /\ t \in TrackType /\ Len(t.history) <= HistoryCapacity
            /\ t.active = track.active /\ t.x = track.x /\ t.age = track.age
            /\ t.missed = track.missed
<1> DEFINE sample == [cls |-> kind.cls, wide |-> kind.wide]
           long == <<sample>> \o track.history
           n == AtMost(Len(track.history) + 1, HistoryCapacity)
           kept == SubSeq(long, 1, n)
<1>1. track.history \in Seq(Samples) /\ Len(track.history) \in Nat
  BY DEF TrackType
<1>2. kind.cls \in Classes /\ kind.wide \in BOOLEAN
  BY FrameAssumption
<1>3. <<sample>> \in Seq(Samples) /\ Len(<<sample>>) = 1
  BY <1>2 DEF Samples
<1>4. long \in Seq(Samples) /\ Len(long) = 1 + Len(track.history)
  BY <1>1, <1>3, ConcatProperties
<1>5. n \in Nat /\ n <= HistoryCapacity /\ n <= Len(long)
  BY <1>1, <1>4, SlotAssumption DEF AtMost
<1>6. \A i \in 1 .. n : long[i] \in Samples
  BY <1>4, <1>5
<1> HIDE DEF long, n
<1>7. kept \in Seq(Samples) /\ Len(kept) <= HistoryCapacity
  BY <1>5, <1>6, SubSeqProperties
<1> HIDE DEF kept, sample
<1>8. PICK class \in Classes \cup {0, Unclassified} :
        UpdateClass(track, kind) =
          [[track EXCEPT !.history = kept] EXCEPT
             !.class = class, !.confirmed = class \in Fingers]
  BY <1>2 DEF UpdateClass, kept, n, long, sample, TrackType
<1> DEFINE seen == [track EXCEPT !.history = kept]
           t == [seen EXCEPT !.class = class, !.confirmed = class \in Fingers]
<1>9. /\ seen \in TrackType /\ seen.history = kept
      /\ seen.active = track.active /\ seen.x = track.x
      /\ seen.age = track.age /\ seen.missed = track.missed
  BY <1>7 DEF TrackType
<1> HIDE DEF seen
<1>10. (class \in Fingers) \in BOOLEAN
  OBVIOUS
<1>11. /\ t \in TrackType /\ t.history = seen.history
       /\ t.active = seen.active /\ t.x = seen.x
       /\ t.age = seen.age /\ t.missed = seen.missed
  BY <1>8, <1>9, <1>10 DEF TrackType
<1>12. UpdateClass(track, kind) = t
  BY <1>8 DEF seen
<1> HIDE DEF t
<1> QED
  BY <1>7, <1>9, <1>11, <1>12

LEMMA UpdateEvidenceKeeps ==
  ASSUME NEW track \in TrackType, NEW kind \in Kinds
  PROVE  LET t == UpdateEvidence(track, kind)
         IN /\ t \in TrackType /\ t.history = track.history
            /\ t.active = track.active /\ t.x = track.x /\ t.age = track.age
            /\ t.missed = track.missed /\ t.required = track.required
            /\ \/ t.evidence = track.evidence /\ t.confirmed = track.confirmed
               \/ /\ t.evidence = track.evidence + 1
                  /\ t.confirmed <=> t.evidence >= t.required
<1> DEFINE evidence == track.evidence + 1
           enough == evidence >= track.required
           t == [track EXCEPT !.evidence = evidence, !.confirmed = enough]
<1>1. CASE track.evidence < U8Max
  <2>1. evidence \in 0 .. U8Max /\ enough \in BOOLEAN
    BY <1>1, EvidenceAssumption DEF TrackType
  <2>2. evidence = track.evidence + 1 /\ (enough <=> evidence >= track.required)
    OBVIOUS
  <2> HIDE DEF enough, evidence
  <2>3. /\ t \in TrackType /\ t.history = track.history
        /\ t.active = track.active /\ t.x = track.x /\ t.age = track.age
        /\ t.missed = track.missed /\ t.required = track.required
        /\ t.evidence = evidence /\ t.confirmed = enough
    BY <2>1 DEF TrackType
  <2>4. UpdateEvidence(track, kind) \in {t, track}
    BY DEF UpdateEvidence, enough, evidence
  <2> QED
    BY <2>2, <2>3, <2>4
<1>2. CASE ~(track.evidence < U8Max)
  BY <1>2 DEF UpdateEvidence
<1> QED
  BY <1>1, <1>2

(* What a frame that shows the contact does to its track.                  *)
LEMMA UpdatedKeeps ==
  ASSUME NEW track \in TrackType, NEW c \in Contact,
         Len(track.history) <= HistoryCapacity
  PROVE  LET t == Updated(track, c)
         IN /\ t \in TrackType /\ Len(t.history) <= HistoryCapacity
            /\ t.active = track.active /\ t.x = c.x /\ t.missed = 0
            /\ t.age = AtMost(track.age + 1, U16Max)
            /\ profile # "orchestrator" =>
                 /\ t.required = track.required
                 /\ \/ /\ t.evidence = track.evidence
                       /\ t.confirmed = track.confirmed
                    \/ /\ t.evidence = track.evidence + 1
                       /\ t.confirmed <=> t.evidence >= t.required
<1> DEFINE moved == [track EXCEPT !.x = c.x, !.vel = c.x - track.x,
                                  !.pixels = c.kind.pixels,
                                  !.age = AtMost(track.age + 1, U16Max)]
           classed == IF profile = "orchestrator" THEN UpdateClass(moved, c.kind)
                                                  ELSE UpdateEvidence(moved, c.kind)
<1>1. c.x \in 0 .. XMax /\ c.kind \in Kinds /\ c.kind.pixels \in Nat
  BY FrameAssumption DEF Contact
<1>2. c.x - track.x \in -XMax .. XMax
  BY <1>1, SlotAssumption DEF TrackType
<1>3. AtMost(track.age + 1, U16Max) \in 0 .. U16Max
  BY EvidenceAssumption DEF TrackType, AtMost
<1>4. /\ moved \in TrackType /\ moved.history = track.history
      /\ moved.active = track.active /\ moved.x = c.x
      /\ moved.age = AtMost(track.age + 1, U16Max)
      /\ moved.evidence = track.evidence /\ moved.required = track.required
      /\ moved.confirmed = track.confirmed
  BY <1>1, <1>2, <1>3 DEF TrackType
<1> HIDE DEF moved
<1>5. /\ classed \in TrackType /\ Len(classed.history) <= HistoryCapacity
      /\ classed.active = moved.active /\ classed.x = moved.x
      /\ classed.age = moved.age
      /\ profile # "orchestrator" =>
           /\ classed.required = moved.required
           /\ \/ /\ classed.evidence = moved.evidence
                 /\ classed.confirmed = moved.confirmed
              \/ /\ classed.evidence = moved.evidence + 1
                 /\ classed.confirmed <=> classed.evidence >= classed.required
  BY <1>1, <1>4, UpdateClassKeeps, UpdateEvidenceKeeps
<1>6. Updated(track, c) = [classed EXCEPT !.missed = 0]
  BY DEF Updated, moved
<1>7. 0 \in 0 .. HoldFrames
  BY SlotAssumption
<1> HIDE DEF classed
<1> QED
  BY <1>4, <1>5, <1>6, <1>7 DEF TrackType

LEMMA HalvedType == \A v \in -XMax .. XMax : Halved(v) \in -XMax .. XMax
<1> SUFFICES ASSUME NEW v \in -XMax .. XMax PROVE Halved(v) \in -XMax .. XMax
  OBVIOUS
<1>1. XMax \in Nat /\ v \in Int
  BY SlotAssumption
<1>2. \A n \in Nat : n \div 2 \in 0 .. n
  OBVIOUS
<1>3. CASE v < 0
  <2>1. -v \in Nat /\ -v <= XMax
    BY <1>1, <1>3
  <2>2. (-v) \div 2 \in 0 .. -v
    BY <1>2, <2>1
  <2> QED
    BY <1>1, <1>3, <2>1, <2>2 DEF Halved
<1>4. CASE ~(v < 0)
  <2>1. v \div 2 \in 0 .. v
    BY <1>1, <1>2, <1>4
  <2> QED
    BY <1>1, <1>4, <2>1 DEF Halved
<1> QED
  BY <1>3, <1>4

(* A track that the frame does not show is retained or forgotten.          *)
LEMMA AdvancedKeeps ==
  ASSUME NEW track \in TrackType, Len(track.history) <= HistoryCapacity
  PROVE  LET t == Advanced(track)
         IN /\ t \in TrackType /\ Len(t.history) <= HistoryCapacity
            /\ IF track.missed < HoldFrames
                 THEN /\ t.active = track.active /\ t.missed = track.missed + 1
                      /\ t.confirmed = track.confirmed /\ t.age = track.age
                      /\ t.evidence = track.evidence
                      /\ t.required = track.required
                 ELSE t = NoTrack
<1>1. CASE track.missed < HoldFrames
  <2>1. Halved(track.vel) \in -XMax .. XMax
    BY HalvedType DEF TrackType
  <2>2. track.missed + 1 \in 0 .. HoldFrames
    BY <1>1, SlotAssumption DEF TrackType
  <2> QED
    BY <1>1, <2>1, <2>2 DEF Advanced, TrackType
<1>2. CASE ~(track.missed < HoldFrames)
  <2>1. Len(NoTrack.history) = 0
    BY DEF NoTrack
  <2> QED
    BY <1>2, <2>1, NoTrackType, SlotAssumption DEF Advanced
<1> QED
  BY <1>1, <1>2

(* A new track; without the orchestrator it is not confirmed, and asks for *)
(* two frames of evidence or more.                                         *)
LEMMA NewTrackKeeps ==
  ASSUME NEW t0, NEW c \in Contact
  PROVE  LET t == NewTrack(t0, c)
         IN /\ t \in TrackType /\ Len(t.history) <= HistoryCapacity
            /\ t.active /\ t.missed = 0 /\ t.age = 1
            /\ profile # "orchestrator" =>
                 ~t.confirmed /\ t.evidence \in {0, 1} /\ t.required >= 2
<1> DEFINE track == [NoTrack EXCEPT !.active = TRUE, !.x = c.x,
                                    !.pixels = c.kind.pixels, !.age = 1]
           raw == [track EXCEPT !.class = Unclassified]
<1>1. c.x \in 0 .. XMax /\ c.kind \in Kinds /\ c.kind.pixels \in Nat
  BY FrameAssumption DEF Contact
<1>2. 1 \in 0 .. U16Max
  BY EvidenceAssumption
<1>3. /\ track \in TrackType /\ track.history = <<>> /\ track.active
      /\ track.missed = 0 /\ track.age = 1 /\ ~track.confirmed
  BY <1>1, <1>2, NoTrackType DEF NoTrack, TrackType
<1> HIDE DEF track
<1>4. CASE profile = "orchestrator"
  <2>1. /\ raw \in TrackType /\ raw.history = <<>> /\ raw.active
        /\ raw.missed = 0 /\ raw.age = 1
    BY <1>3 DEF TrackType
  <2>2. Len(raw.history) <= HistoryCapacity
    BY <2>1, SlotAssumption
  <2>3. NewTrack(t0, c) = UpdateClass(raw, c.kind)
    BY <1>4 DEF NewTrack, track
  <2> HIDE DEF raw
  <2> QED
    BY <1>1, <1>4, <2>1, <2>2, <2>3, UpdateClassKeeps
<1>5. CASE profile # "orchestrator"
  <2> DEFINE e == IF c.kind.cls \in Fingers THEN 1 ELSE 0
  <2>1. NewTrack(t0, c) = [track EXCEPT !.evidence = e, !.required = Requirement(t0, c)]
    BY <1>5 DEF NewTrack, track
  <2>2. Requirement(t0, c) \in 2 .. U8Max
    BY EvidenceAssumption DEF Requirement
  <2>3. Requirement(t0, c) \in 0 .. U8Max /\ Requirement(t0, c) >= 2
        /\ e \in 0 .. U8Max /\ e \in {0, 1}
    BY <2>2, EvidenceAssumption
  <2> HIDE DEF e
  <2>4. LET t == NewTrack(t0, c)
        IN /\ t \in TrackType /\ t.history = track.history /\ t.active = track.active
           /\ t.missed = track.missed /\ t.age = track.age
           /\ t.confirmed = track.confirmed /\ t.evidence = e
           /\ t.required = Requirement(t0, c)
    BY <1>3, <2>1, <2>3 DEF TrackType
  <2>5. Len(track.history) <= HistoryCapacity
    BY <1>3, SlotAssumption
  <2> QED
    BY <1>3, <2>3, <2>4, <2>5
<1> QED
  BY <1>4, <1>5

-----------------------------------------------------------------------------
(* One frame, seen from one slot.                                          *)

(* A pairing goes from the contacts to active tracks that were not gated   *)
(* out, or to none.                                                        *)
LEMMA AssignmentsPair ==
  ASSUME NEW f \in Frames, NEW m \in Assignments(f), NEW c \in DOMAIN f,
         m[c] # NoSlot
  PROVE  m[c] \in Slots /\ tracks[m[c]].active /\ Matchable(tracks[m[c]], f[c])
<1> DEFINE near == {sc \in Active(tracks) \X DOMAIN f :
                      Matchable(tracks[sc[1]], f[sc[2]])}
<1>1. m \in Pairings(Active(tracks), DOMAIN f, near)
  BY DEF Assignments, Optimal
<1>2. <<m[c], c>> \in near
  BY <1>1 DEF Pairings
<1> QED
  BY <1>2 DEF Active

LEMMA FrameContacts ==
  ASSUME NEW f \in Frames, NEW c \in DOMAIN f
  PROVE  f[c] \in Contact
<1>1. f \in Seq(Contact)
  BY FrameAssumption DEF Contact
<1> QED
  BY <1>1

(* The four things that can happen to a slot: its contact is seen, its     *)
(* track is retained, a new track takes it, or it stays or becomes free.   *)
LEMMA SlotStep ==
  ASSUME TypeOK, NEW f \in Frames, NEW m \in Assignments(f), FrameWith(f, m),
         NEW s \in Slots
  PROVE  \/ /\ tracks[s].active
            /\ \E c \in DOMAIN f : /\ Matchable(tracks[s], f[c])
                                   /\ tracks'[s] = Updated(tracks[s], f[c])
            /\ s \in reported' <=> tracks'[s].active /\ tracks'[s].confirmed
         \/ /\ tracks[s].active /\ tracks[s].missed < HoldFrames
            /\ tracks'[s] = Advanced(tracks[s])
            /\ s \notin reported'
         \/ /\ tracks[s].active => ~(tracks[s].missed < HoldFrames)
            /\ \E c \in DOMAIN f : \E t : tracks'[s] = NewTrack(t, f[c])
            /\ s \in reported' <=> tracks'[s].active /\ tracks'[s].confirmed
         \/ tracks'[s] = NoTrack /\ s \notin reported'
<1> DEFINE aged == Aged(f, m)
           new == \E c \in DOMAIN f : IsNewOn(f, m, aged, c, s)
           matched == \E c \in DOMAIN f : m[c] = s
<1>1. /\ tracks[s] \in TrackType /\ Len(tracks[s].history) <= HistoryCapacity
      /\ ~tracks[s].active => tracks[s] = NoTrack
      /\ s # NoSlot
  BY SlotAssumption DEF TypeOK, NoSlot
<1>2. tracks' = Created(f, m, aged) /\ reported' = Collected(f, m, aged, tracks')
  BY DEF FrameWith
<1>3. s \in reported' <=>
        tracks'[s].active /\ tracks'[s].confirmed /\ (matched \/ new)
  BY <1>2 DEF Collected
<1>4. /\ new => \E c \in DOMAIN f : tracks'[s] = NewTrack(aged, f[c])
      /\ ~new => tracks'[s] = aged[s]
      /\ new => ~aged[s].active
  BY <1>2 DEF Created, IsNewOn
<1>5. CASE matched
  <2>1. PICK c \in DOMAIN f : m[c] = s /\ aged[s] = Updated(tracks[s], f[c])
    BY <1>5 DEF Aged
  <2>2. tracks[s].active /\ Matchable(tracks[s], f[c])
    BY <1>1, <2>1, AssignmentsPair
  <2>3. aged[s].active
    BY <1>1, <2>1, <2>2, FrameContacts, UpdatedKeeps
  <2> QED
    BY <1>3, <1>4, <1>5, <2>1, <2>2, <2>3
<1>6. CASE ~matched /\ tracks[s].active
  <2>1. aged[s] = Advanced(tracks[s])
    BY <1>6 DEF Aged
  <2>2. CASE tracks[s].missed < HoldFrames
    <3>1. aged[s].active
      BY <1>1, <1>6, <2>1, <2>2, AdvancedKeeps
    <3> QED
      BY <1>3, <1>4, <1>6, <2>1, <2>2, <3>1
  <2>3. CASE ~(tracks[s].missed < HoldFrames)
    <3>1. aged[s] = NoTrack
      BY <2>1, <2>3 DEF Advanced
    <3> QED
      BY <1>3, <1>4, <1>6, <2>3, <3>1
  <2> QED
    BY <2>2, <2>3
<1>7. CASE ~matched /\ ~tracks[s].active
  <2>1. aged[s] = NoTrack
    BY <1>1, <1>7 DEF Aged
  <2> QED
    BY <1>3, <1>4, <1>7, <2>1
<1> QED
  BY <1>5, <1>6, <1>7

-----------------------------------------------------------------------------
(* The invariant.                                                          *)

(* Evidence never gets ahead of age, and confirmation never of evidence.   *)
Window(track) ==
  /\ AtMost(track.evidence, U16Max) <= track.age
  /\ track.required >= 2
  /\ track.confirmed => track.required <= track.evidence

Windows ==
  profile # "orchestrator" =>
    \A s \in Slots : tracks[s].active => Window(tracks[s])

TInv == TypeOK /\ Windows /\ ReportedIsSeen

LEMMA TypeStep ==
  ASSUME TypeOK, [Next]_vars
  PROVE  TypeOK'
<1>1. CASE Frame
  <2>1. PICK f \in Frames : \E m \in Assignments(f) : FrameWith(f, m)
    BY <1>1 DEF Frame
  <2>2. ASSUME NEW s \in Slots
        PROVE  /\ tracks'[s] \in TrackType
               /\ ~tracks'[s].active => tracks'[s] = NoTrack
               /\ Len(tracks'[s].history) <= HistoryCapacity
    <3>1. tracks[s] \in TrackType /\ Len(tracks[s].history) <= HistoryCapacity
      BY DEF TypeOK
    <3>2. CASE tracks'[s] = NoTrack
      <4>1. Len(NoTrack.history) = 0
        BY DEF NoTrack
      <4> QED
        BY <3>2, <4>1, NoTrackType, SlotAssumption
    <3>3. CASE \E c \in DOMAIN f : tracks'[s] = Updated(tracks[s], f[c])
                                  /\ tracks[s].active
      BY <3>1, <3>3, FrameContacts, UpdatedKeeps
    <3>4. CASE tracks'[s] = Advanced(tracks[s]) /\ tracks[s].active
                 /\ tracks[s].missed < HoldFrames
      BY <3>1, <3>4, AdvancedKeeps
    <3>5. CASE \E c \in DOMAIN f : \E t : tracks'[s] = NewTrack(t, f[c])
      BY <3>5, FrameContacts, NewTrackKeeps
    <3> QED
      BY <2>1, <3>2, <3>3, <3>4, <3>5, SlotStep
  <2>3. /\ profile' = profile /\ reported' \subseteq Slots
        /\ tracks' = [s \in Slots |-> tracks'[s]]
    BY <2>1 DEF FrameWith, Created, Collected
  <2>4. tracks' \in [Slots -> TrackType]
    BY <2>2, <2>3
  <2> QED
    BY <2>2, <2>3, <2>4 DEF TypeOK
<1>2. CASE Release
  <2>1. Len(NoTrack.history) = 0
    BY DEF NoTrack
  <2> QED
    BY <1>2, <2>1, NoTrackType, SlotAssumption DEF Release, TypeOK
<1>3. CASE UNCHANGED vars
  BY <1>3 DEF vars, TypeOK
<1> QED
  BY <1>1, <1>2, <1>3 DEF Next

(* One more frame of life for one more of evidence, at most.               *)
LEMMA EvidenceAge ==
  ASSUME NEW e \in Nat, NEW a \in 0 .. U16Max, AtMost(e, U16Max) <= a
  PROVE  /\ AtMost(e, U16Max) <= AtMost(a + 1, U16Max)
         /\ AtMost(e + 1, U16Max) <= AtMost(a + 1, U16Max)
BY EvidenceAssumption DEF AtMost

LEMMA WindowsStep ==
  ASSUME TypeOK, Windows, [Next]_vars
  PROVE  Windows'
<1>1. CASE Frame
  <2>1. PICK f \in Frames : \E m \in Assignments(f) : FrameWith(f, m)
    BY <1>1 DEF Frame
  <2>2. profile' = profile
    BY <2>1 DEF FrameWith
  <2>3. ASSUME profile # "orchestrator", NEW s \in Slots, tracks'[s].active
        PROVE  Window(tracks'[s])
    <3>1. tracks[s] \in TrackType /\ Len(tracks[s].history) <= HistoryCapacity
      BY DEF TypeOK
    <3>2. tracks[s].active => Window(tracks[s])
      BY <2>3 DEF Windows
    <3>3. CASE tracks'[s] = NoTrack
      BY <2>3, <3>3, NoTrackType
    <3>4. CASE \E c \in DOMAIN f : tracks'[s] = Updated(tracks[s], f[c])
                                  /\ tracks[s].active
      <4>1. PICK c \in DOMAIN f : tracks'[s] = Updated(tracks[s], f[c])
        BY <3>4
      <4>2. /\ tracks'[s].age = AtMost(tracks[s].age + 1, U16Max)
            /\ tracks'[s].required = tracks[s].required
            /\ \/ /\ tracks'[s].evidence = tracks[s].evidence
                  /\ tracks'[s].confirmed = tracks[s].confirmed
               \/ /\ tracks'[s].evidence = tracks[s].evidence + 1
                  /\ tracks'[s].confirmed <=>
                       tracks'[s].evidence >= tracks'[s].required
        BY <2>3, <3>1, <4>1, FrameContacts, UpdatedKeeps
      <4>3. /\ tracks[s].evidence \in Nat /\ tracks[s].age \in 0 .. U16Max
            /\ tracks[s].required \in Nat
        BY <3>1, EvidenceAssumption DEF TrackType
      <4>4. AtMost(tracks'[s].evidence, U16Max) <= tracks'[s].age
        BY <3>2, <3>4, <4>2, <4>3, EvidenceAge DEF Window
      <4> QED
        BY <3>2, <3>4, <4>2, <4>3, <4>4 DEF Window
    <3>5. CASE tracks'[s] = Advanced(tracks[s]) /\ tracks[s].active
                 /\ tracks[s].missed < HoldFrames
      BY <3>1, <3>2, <3>5, AdvancedKeeps DEF Window
    <3>6. CASE \E c \in DOMAIN f : \E t : tracks'[s] = NewTrack(t, f[c])
      <4>1. /\ tracks'[s].age = 1 /\ ~tracks'[s].confirmed
            /\ tracks'[s].evidence \in {0, 1} /\ tracks'[s].required >= 2
        BY <2>3, <3>6, FrameContacts, NewTrackKeeps
      <4> QED
        BY <4>1, EvidenceAssumption DEF Window, AtMost
    <3> QED
      BY <2>1, <3>3, <3>4, <3>5, <3>6, SlotStep
  <2> QED
    BY <2>2, <2>3 DEF Windows
<1>2. CASE Release
  BY <1>2, NoTrackType DEF Release, Windows
<1>3. CASE UNCHANGED vars
  BY <1>3 DEF vars, Windows
<1> QED
  BY <1>1, <1>2, <1>3 DEF Next

LEMMA ReportedStep ==
  ASSUME TypeOK, ReportedIsSeen, [Next]_vars
  PROVE  ReportedIsSeen'
<1>1. CASE Frame
  <2>1. PICK f \in Frames : \E m \in Assignments(f) : FrameWith(f, m)
    BY <1>1 DEF Frame
  <2>2. ASSUME NEW s \in Slots
        PROVE  s \in reported' <=> /\ tracks'[s].active /\ tracks'[s].confirmed
                                   /\ tracks'[s].missed = 0
    <3>1. tracks[s] \in TrackType /\ Len(tracks[s].history) <= HistoryCapacity
      BY DEF TypeOK
    <3>2. CASE tracks'[s] = NoTrack /\ s \notin reported'
      BY <3>2, NoTrackType
    <3>3. CASE /\ \E c \in DOMAIN f : tracks'[s] = Updated(tracks[s], f[c])
               /\ s \in reported' <=> tracks'[s].active /\ tracks'[s].confirmed
      BY <3>1, <3>3, FrameContacts, UpdatedKeeps
    <3>4. CASE tracks'[s] = Advanced(tracks[s]) /\ s \notin reported'
                 /\ tracks[s].missed < HoldFrames
      <4>1. tracks'[s].missed = tracks[s].missed + 1 /\ tracks[s].missed \in Nat
        BY <3>1, <3>4, SlotAssumption, AdvancedKeeps DEF TrackType
      <4> QED
        BY <3>4, <4>1
    <3>5. CASE /\ \E c \in DOMAIN f : \E t : tracks'[s] = NewTrack(t, f[c])
               /\ s \in reported' <=> tracks'[s].active /\ tracks'[s].confirmed
      BY <3>5, FrameContacts, NewTrackKeeps
    <3> QED
      BY <2>1, <3>2, <3>3, <3>4, <3>5, SlotStep
  <2>3. reported' \subseteq Slots
    BY <2>1 DEF FrameWith, Collected
  <2> QED
    BY <2>2, <2>3 DEF ReportedIsSeen
<1>2. CASE Release
  BY <1>2, NoTrackType DEF Release, ReportedIsSeen
<1>3. CASE UNCHANGED vars
  BY <1>3 DEF vars, ReportedIsSeen
<1> QED
  BY <1>1, <1>2, <1>3 DEF Next

LEMMA TInvInit == Init => TInv
<1> SUFFICES ASSUME Init PROVE TInv
  OBVIOUS
<1>1. Len(NoTrack.history) = 0
  BY DEF NoTrack
<1> QED
  BY <1>1, NoTrackType, SlotAssumption
     DEF Init, TInv, TypeOK, Windows, ReportedIsSeen

LEMMA TInvStep == TInv /\ [Next]_vars => TInv'
BY TypeStep, WindowsStep, ReportedStep DEF TInv

LEMMA Invariance == Spec => []TInv
BY TInvInit, TInvStep, PTL DEF Spec

-----------------------------------------------------------------------------
(* A slot is down in Linux exactly while its track is confirmed and was    *)
(* seen in the last frame: see ReportedIsSeen.                             *)
THEOREM NoGhostContact == Spec => []ReportedIsSeen
<1>1. TInv => ReportedIsSeen
  BY DEF TInv
<1> QED
  BY <1>1, Invariance, PTL

(* No contact is reported before its admission window is full: see         *)
(* AdmissionWindow.                                                        *)
THEOREM Admission == Spec => []AdmissionWindow
<1>1. TInv => AdmissionWindow
  <2> SUFFICES ASSUME TInv, profile # "orchestrator", NEW s \in Slots,
                      tracks[s].confirmed
               PROVE  Window(tracks[s])
    BY DEF AdmissionWindow, Window
  <2>1. tracks[s].active
    BY DEF TInv, TypeOK, NoTrack
  <2> QED
    BY <2>1 DEF TInv, Windows
<1> QED
  BY <1>1, Invariance, PTL

(* Linux never gives two contacts one tracking identifier: a slot that is  *)
(* down in two frames keeps its contact (SlotKeepsContact).                *)
THEOREM SlotsKept == Spec => SlotKeepsContact
<1>1. TInv /\ [Next]_vars =>
        [\A s \in reported \cap reported' :
           /\ tracks'[s].age = AtMost(tracks[s].age + 1, U16Max)
           /\ Matchable(tracks[s], [x |-> tracks'[s].x])]_vars
  <2> SUFFICES ASSUME TInv, Next, NEW s \in reported \cap reported'
               PROVE  /\ tracks'[s].age = AtMost(tracks[s].age + 1, U16Max)
                      /\ Matchable(tracks[s], [x |-> tracks'[s].x])
    OBVIOUS
  <2>1. /\ s \in Slots /\ tracks[s] \in TrackType /\ tracks[s].active
        /\ tracks[s].missed < HoldFrames
        /\ Len(tracks[s].history) <= HistoryCapacity
    BY SlotAssumption DEF TInv, ReportedIsSeen, TypeOK
  <2>2. Frame
    BY DEF Next, Release
  <2>3. PICK f \in Frames : \E m \in Assignments(f) : FrameWith(f, m)
    BY <2>2 DEF Frame
  <2>4. PICK c \in DOMAIN f : /\ Matchable(tracks[s], f[c])
                              /\ tracks'[s] = Updated(tracks[s], f[c])
    BY <2>1, <2>3, SlotStep DEF TInv
  <2>5. /\ tracks'[s].age = AtMost(tracks[s].age + 1, U16Max)
        /\ tracks'[s].x = f[c].x
    BY <2>1, <2>4, FrameContacts, UpdatedKeeps
  <2> QED
    BY <2>4, <2>5 DEF Matchable
<1> QED
  BY <1>1, Invariance, PTL DEF Spec, SlotKeepsContact
=============================================================================

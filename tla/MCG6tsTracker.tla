--------------------------- MODULE MCG6tsTracker ---------------------------
(* Constants of G6tsTracker for TLC: a small glass with two slots.         *)
EXTENDS G6tsTracker

MCSlots == {0, 1}

(* A finger, a fragment of one or two cells, a palm.                       *)
Finger   == [pixels |-> 3, cls |-> 0, wide |-> TRUE]
Fragment == [pixels |-> 1, cls |-> 0, wide |-> FALSE]
Palm     == [pixels |-> 3, cls |-> 1, wide |-> TRUE]
MCKinds  == {Finger, Fragment, Palm}

(* Up to two contacts at different places, in either order of the scan; of *)
(* two contacts the first is a finger and the second no palm.              *)
MCContacts == [x : 0 .. XMax, kind : {Finger, Fragment}] \cup [x : {1}, kind : {Palm}]
MCFrames ==
  {<<>>} \cup {<<c>> : c \in MCContacts}
    \cup {f \in [x : {0, 2}, kind : {Finger}]
                 \X [x : 0 .. XMax, kind : {Finger, Fragment}] :
             f[1].x # f[2].x}

MCClasses == {0, 1}
MCRules ==
  [r \in {0, 1, 4} \X {0, 1} |->
     CASE r = <<0, 1>> -> [depth |-> 2, ageLimit |-> 2, current |-> TRUE]
       [] r = <<1, 0>> -> [depth |-> 2, ageLimit |-> 0, current |-> FALSE]
       [] r = <<4, 0>> -> [depth |-> 2, ageLimit |-> 2, current |-> TRUE]
       [] r = <<4, 1>> -> [depth |-> 2, ageLimit |-> 0, current |-> FALSE]
       [] OTHER -> [depth |-> 0, ageLimit |-> 0, current |-> FALSE]]
MCPointLimits == [c \in {0, 1} |-> IF c = 0 THEN 0 .. 20 ELSE 2 .. 9999]
=============================================================================

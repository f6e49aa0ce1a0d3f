---------------------------- MODULE MCG6tsFrame ----------------------------
(* Constants of G6tsFrame for TLC: a sensor of two rows and three columns. *)
(* A cell is untouched, weakly touched or strongly, in two degrees.        *)
EXTENDS G6tsFrame

MCImages == [Cells -> {10, 7, 5, 2}]
PlainImages == [Cells -> {10, 7, 5}]
MCRowToBin == [r \in {0, 1} |-> r]

Run(first, n) == [first |-> first, count |-> n, fits |-> TRUE]
Heat(rs) == [type |-> "heat", fits |-> TRUE, format |-> TRUE, runs |-> rs]
Noise(bs) == [type |-> "metadata", fits |-> TRUE, records |-> bs]
Other == [type |-> "other", fits |-> TRUE]
Whole == Heat(<<Run(2, 4), Run(0, 2)>>)

(* Well-formed reports, with and without a noisy row, and reports that are *)
(* wrong in one place: cut off, doubled, incomplete, overlapping, beyond   *)
(* the map, or with a count so large that 32 bits wrap around.             *)
GoodReports ==
  {<<Whole>>, <<Noise(<<<<0, 9>>>>), Other, Whole>>}
BadReports ==
  {<<>>, <<Other>>, <<Whole, Whole>>,
   <<[Whole EXCEPT !.fits = FALSE]>>, <<[Whole EXCEPT !.format = FALSE]>>,
   <<Noise(<<<<0>>>>), Noise(<<<<0>>>>), Whole>>,
   <<Noise(<<<<0, 0, 0>>>>), Whole>>, <<[Other EXCEPT !.fits = FALSE], Whole>>}
  \cup {<<Heat(<<Run(a, m), Run(b, k)>>)>> :
          a \in {0, 2, 15}, m \in {2, 4, 6, 15}, b \in {0, 2, 5}, k \in {0, 2, 4, 8}}
MCReports == GoodReports \cup BadReports

(* The tracks vary over the images of three degrees, and one image is      *)
(* enough to see a malformed report refused.                               *)
NoTracks == [s \in {} |-> 0]
MCInit ==
  /\ FrameInit
  /\ image \notin PlainImages => predicted = NoTracks
  /\ sections \notin GoodReports =>
       image = [c \in Cells |-> 5] /\ predicted = NoTracks
MCSpec == MCInit /\ [][FrameNext]_vars /\ WF_vars(FrameNext)

MCPoint(a, b) == [x |-> a, y |-> b]
MCPoints == {MCPoint(0, 0), MCPoint(2, 2), MCPoint(4, 1)}
MCPredictions ==
  {NoTracks, [s \in {1} |-> MCPoint(4, 4)]}
    \cup [{0, 1} -> MCPoints]
=============================================================================

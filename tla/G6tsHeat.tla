------------------------------ MODULE G6tsHeat ------------------------------
(***************************************************************************)
(* From a Heat report to contacts (mshw0485_touch.c): the parser of the    *)
(* container of sections, which assembles the heat map out of runs, and    *)
(* the segmentation of the map into contacts.  Cells are numbered as in    *)
(* the code, row * Cols + col.                                             *)
(*                                                                         *)
(* A section is [type, fits, ...]: fits says that its length fields agree  *)
(* with the bytes that are there.  A heat section also has format, the two *)
(* bytes 6 and 7, and its runs of [first, count, fits]; a metadata section *)
(* has the bins of each of its noise records.  image is what the panel     *)
(* measured, the bytes the runs carry.  The classifier's features are not  *)
(* modelled: they decide the kind of a contact, not that there is one.     *)
(***************************************************************************)
EXTENDS Integers, Sequences, FiniteSets, SequencesExt

CONSTANTS
  Rows, Cols,        (* G6TS_HEAT_ROWS, G6TS_HEAT_COLS                     *)
  Images,            (* what the panel may measure                         *)
  Reports,           (* the containers it may send: sequences of sections  *)
  U32,               (* 2^32: destination and count are u32                *)
  SignalZero,        (* G6TS_HEAT_SIGNAL_ZERO                              *)
  ActiveMax,         (* G6TS_HEAT_ACTIVE_MAX                               *)
  StrongMax,         (* G6TS_HEAT_STRONG_MAX                               *)
  MinPixels,         (* G6TS_HEAT_MIN_PIXELS                               *)
  PalmPixels,        (* G6TS_HEAT_PALM_PIXELS                              *)
  PalmSpan,          (* G6TS_HEAT_PALM_SPAN                                *)
  NsrBins,           (* G6TS_NSR_BINS                                      *)
  NsrCutoff,         (* G6TS_NSR_CUTOFF                                    *)
  RowToBin,          (* g6ts_nsr_row_to_bin                                *)
  MaxContacts        (* G6TS_MAX_CONTACTS                                  *)

Samples == Rows * Cols
Cells   == 0 .. Samples - 1
Old     == -1        \* a byte of the map that the frame before left there

(* A report as it lies in memory: its length fields are what they are.     *)
HeatRun == [first : 0 .. U32 - 1, count : 0 .. U32 - 1, fits : BOOLEAN]
Section ==
  [type : {"heat"}, fits : BOOLEAN, format : BOOLEAN, runs : Seq(HeatRun)]
  \cup [type : {"metadata"}, fits : BOOLEAN, records : Seq(Seq(Nat))]
  \cup [type : {"other"}, fits : BOOLEAN]

(* A coordinate is divided by Cols - 1 or Rows - 1.                        *)
ASSUME GridAssumption ==
  /\ Rows \in Nat \ {0, 1} /\ Cols \in Nat \ {0, 1} /\ MaxContacts \in Nat \ {0}
  /\ U32 \in Nat /\ U32 > Samples
  /\ SignalZero \in Nat /\ ActiveMax \in Nat /\ ActiveMax < SignalZero
  /\ Images \subseteq [Cells -> Nat]
  /\ Reports \subseteq Seq(Section)

VARIABLES
  hpc,        (* parse, runs, scan, grow, found or refused                 *)
  image,
  sections,   (* sections not yet parsed                                   *)
  runs,       (* runs of the current section not yet copied                *)
  complete,   (* found: a whole heat section was read                      *)
  nsr,        (* nsr_bins when nsr_valid, else the empty set               *)
  heatmap, written, outside,  (* the map, the cells of this frame, and     *)
                              (* whether a byte went beyond the array      *)
  seen, queue, head,          (* heat_seen and heat_queue of the scan      *)
  contacts                    (* ts->contacts: a component for each        *)

parseVars == <<sections, runs, complete, nsr>>
mapVars   == <<heatmap, written, outside>>
scanVars  == <<seen, queue, head, contacts>>
heatVars  == <<hpc, image, parseVars, mapVars, scanVars>>

Init ==
  /\ hpc = "parse"
  /\ image \in Images /\ sections \in Reports
  /\ runs = <<>> /\ complete = FALSE /\ nsr = {}
  /\ heatmap = [c \in Cells |-> Old] /\ written = {} /\ outside = FALSE
  /\ seen = {} /\ queue = <<>> /\ head = 1 /\ contacts = <<>>

-----------------------------------------------------------------------------
(* g6ts_extract_heatmap and g6ts_extract_nsr_metadata.                     *)

Refuse == hpc' = "refused" /\ UNCHANGED <<image, parseVars, mapVars, scanVars>>

(* The bins of a metadata section: at most one noise record in a frame.    *)
ParseMetadata ==
  /\ hpc = "parse" /\ sections # <<>>
  /\ LET s == Head(sections)
     IN /\ s.type = "metadata"
        /\ IF ~s.fits \/ Len(s.records) + Cardinality(nsr) > 1
                \/ \E r \in DOMAIN s.records : Len(s.records[r]) > NsrBins
             THEN Refuse
             ELSE /\ sections' = Tail(sections)
                  /\ nsr' = nsr \cup ToSet(s.records)
                  /\ UNCHANGED <<hpc, image, runs, complete, mapVars, scanVars>>

ParseOther ==
  /\ hpc = "parse" /\ sections # <<>>
  /\ LET s == Head(sections)
     IN /\ s.type = "other"
        /\ IF ~s.fits
             THEN Refuse
             ELSE /\ sections' = Tail(sections)
                  /\ UNCHANGED <<hpc, image, runs, complete, nsr, mapVars, scanVars>>

(* A heat section starts: the map is cleared and nothing of it seen.       *)
ParseHeat ==
  /\ hpc = "parse" /\ sections # <<>>
  /\ LET s == Head(sections)
     IN /\ s.type = "heat"
        /\ IF ~s.fits \/ complete \/ ~s.format
             THEN Refuse
             ELSE /\ hpc' = "runs" /\ runs' = s.runs
                  /\ heatmap' = [c \in Cells |-> 0] /\ written' = {}
                  /\ UNCHANGED <<image, sections, complete, nsr, outside, scanVars>>

(* Mutant: the count of a run is not compared with the map.                *)
RunUnfitUnsigned(r) ==
  ~r.fits \/ r.first > (Samples - r.count) % U32

(* destination and count are u32: the second test guards the subtraction.  *)
RunUnfit(r) ==
  ~r.fits \/ r.count > Samples \/ r.first > (Samples - r.count) % U32

(* One run: refused when it does not fit or writes a cell twice.           *)
CopyRun ==
  /\ hpc = "runs" /\ runs # <<>>
  /\ LET r == Head(runs)
         cells == r.first .. r.first + r.count - 1
     IN IF RunUnfit(r) \/ written \cap cells # {}
          THEN Refuse
          ELSE /\ runs' = Tail(runs)
               /\ heatmap' = [c \in Cells |-> IF c \in cells THEN image[c]
                                                            ELSE heatmap[c]]
               /\ written' = written \cup (cells \cap Cells)
               /\ outside' = (outside \/ ~(cells \subseteq Cells))
               /\ UNCHANGED <<hpc, image, sections, complete, nsr, scanVars>>

(* Mutant: a heat section need not cover the whole map.                    *)
HeatEndsPartial ==
  /\ hpc = "runs" /\ runs = <<>>
  /\ hpc' = "parse" /\ complete' = TRUE /\ sections' = Tail(sections)
  /\ UNCHANGED <<image, runs, nsr, mapVars, scanVars>>

(* Every sample must have been written.                                    *)
HeatEnds ==
  /\ hpc = "runs" /\ runs = <<>>
  /\ IF Cardinality(written) # Samples
       THEN Refuse
       ELSE /\ hpc' = "parse" /\ complete' = TRUE /\ sections' = Tail(sections)
            /\ UNCHANGED <<image, runs, nsr, mapVars, scanVars>>

ContainerEnds ==
  /\ hpc = "parse" /\ sections = <<>>
  /\ hpc' = IF complete THEN "scan" ELSE "refused"
  /\ UNCHANGED <<image, parseVars, mapVars, scanVars>>

-----------------------------------------------------------------------------
(* g6ts_find_contacts.                                                     *)

IsActive(c) == heatmap[c] <= ActiveMax   \* g6ts_heat_active
Row(c) == c \div Cols
Col(c) == c % Cols

Strength(cells)  == MapThenSumSet(LAMBDA c : SignalZero - heatmap[c], cells)
WeightedX(cells) == MapThenSumSet(LAMBDA c : Col(c) * (SignalZero - heatmap[c]), cells)
WeightedY(cells) == MapThenSumSet(LAMBDA c : Row(c) * (SignalZero - heatmap[c]), cells)

(* Cells that share an edge.                                               *)
Neighbours(c) ==
  {d \in Cells : \/ Row(d) = Row(c) /\ Col(d) - Col(c) \in {-1, 1}
                 \/ Col(d) = Col(c) /\ Row(d) - Row(c) \in {-1, 1}}

Span(cells, coordinate(_)) ==
  LET at == {coordinate(c) : c \in cells} IN Max(at) - Min(at) + 1

(* The noise bin of the row the component is centred on, rounded.          *)
TooNoisy(cells) ==
  \E bins \in nsr :
    LET row == (WeightedY(cells) + Strength(cells) \div 2) \div Strength(cells)
    IN RowToBin[row] < Len(bins) /\ bins[RowToBin[row] + 1] > NsrCutoff

Rejected(cells) ==
  \/ /\ Cardinality(cells) < MinPixels
     /\ \A c \in cells : heatmap[c] > StrongMax
  \/ TooNoisy(cells)
  \/ Cardinality(cells) > PalmPixels
  \/ Span(cells, Col) > PalmSpan \/ Span(cells, Row) > PalmSpan

(* Mutant: when the table is full the newcomer always replaces the first.  *)
StoredFirst(kept, cells) ==
  IF Len(kept) < MaxContacts THEN Append(kept, cells)
  ELSE [kept EXCEPT ![1] = cells]

(* g6ts_store_contact: when the table is full, the first of the weakest    *)
(* gives way to a stronger newcomer.                                       *)
Stored(kept, cells) ==
  IF Len(kept) < MaxContacts THEN Append(kept, cells)
  ELSE LET least == Min({Strength(kept[i]) : i \in DOMAIN kept})
           weakest == Min({i \in DOMAIN kept : Strength(kept[i]) = least})
       IN IF Strength(cells) > least THEN [kept EXCEPT ![weakest] = cells]
                                     ELSE kept

(* The next cell of the scan that is active and not yet part of a blob.    *)
SeedBlob ==
  /\ hpc = "scan"
  /\ LET open == {c \in Cells \ seen : IsActive(c)}
     IN IF open = {}
          THEN hpc' = "found" /\ UNCHANGED scanVars
          ELSE /\ hpc' = "grow"
               /\ queue' = <<Min(open)>> /\ head' = 1
               /\ seen' = seen \cup {Min(open)}
               /\ UNCHANGED contacts
  /\ UNCHANGED <<image, parseVars, mapVars>>

GrowBlob ==
  /\ hpc = "grow" /\ head <= Len(queue)
  /\ LET at == queue[head]
         new == {d \in Neighbours(at) \ seen : IsActive(d)}
         Push(q, d) == IF d \in new THEN Append(q, d) ELSE q
     IN /\ queue' = Push(Push(Push(Push(queue, at - Cols), at - 1), at + 1), at + Cols)
        /\ seen' = seen \cup new
  /\ head' = head + 1
  /\ UNCHANGED <<hpc, image, parseVars, mapVars, contacts>>

CloseBlob ==
  /\ hpc = "grow" /\ head > Len(queue)
  /\ hpc' = "scan"
  /\ contacts' = IF Rejected(ToSet(queue)) THEN contacts
                                           ELSE Stored(contacts, ToSet(queue))
  /\ UNCHANGED <<image, parseVars, mapVars, seen, queue, head>>

Next ==
  \/ ParseMetadata \/ ParseOther \/ ParseHeat \/ CopyRun \/ HeatEnds
  \/ ContainerEnds \/ SeedBlob \/ GrowBlob \/ CloseBlob

-----------------------------------------------------------------------------
(* Properties.                                                             *)

(* No run writes outside the map, whatever its two 32-bit numbers are, and *)
(* neither the queue of the search nor the table of contacts overflows.    *)
NoWriteOutside ==
  ~outside /\ Len(queue) <= Samples /\ Len(contacts) <= MaxContacts

(* A frame that is accepted was measured whole: no cell keeps the cleared  *)
(* value, which would be the strongest touch there is, or an older one.    *)
MapIsMeasured == hpc \in {"scan", "grow", "found"} => heatmap = image

(* The blobs, defined without a search: sets of active cells that cannot   *)
(* be split without cutting an edge and have no active neighbour outside.  *)
Touch(c, d) ==
  LET square(n) == n * n
  IN square(Row(c) - Row(d)) + square(Col(c) - Col(d)) = 1
IsBlob(cells) ==
  /\ cells # {} /\ \A c \in cells : IsActive(c)
  /\ \A c \in cells, d \in Cells : Touch(c, d) /\ IsActive(d) => d \in cells
  /\ \A part \in (SUBSET cells) \ {{}, cells} :
       \E c \in part, d \in cells \ part : Touch(c, d)

(* What comes out are the blobs that pass the filters, each once; when     *)
(* there are too many the strongest, in whatever order they were scanned.  *)
ContactsAreStrongestBlobs ==
  hpc = "found" =>
    LET wanted == {b \in SUBSET Cells : IsBlob(b) /\ ~Rejected(b)}
        kept == ToSet(contacts)
    IN /\ kept \subseteq wanted /\ Len(contacts) = Cardinality(kept)
       /\ \/ kept = wanted
          \/ /\ Len(contacts) = MaxContacts
             /\ \A b \in wanted \ kept : \A k \in kept : Strength(b) <= Strength(k)
=============================================================================

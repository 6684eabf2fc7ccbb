-------------------------- MODULE DownloadPlanner --------------------------
(***************************************************************************)
(* The pure part of the download engine: the states of a download and how  *)
(* its bytes are divided into segments that are fetched side by side.      *)
(***************************************************************************)
EXTENDS Integers, Sequences, FiniteSets

CONSTANTS Unit,        \* the size a segment is worth having for (8 MiB)
          MaxBytes     \* bound: the largest length whose plans are compared

ASSUME PlannerAssumption == Unit \in Nat \ {0} /\ MaxBytes \in Nat

(***************************************************************************)
(* WAITING_WIFI is never given to a download by the code.                  *)
(***************************************************************************)
DownloadState == {"QUEUED", "RUNNING", "PAUSED", "COMPLETED", "FAILED", "CANCELLED"}

SEGMENT_CHOICES == {1, 2, 4, 8}

(***************************************************************************)
(* The largest choice that leaves each segment at least Unit bytes.        *)
(***************************************************************************)
segmentCount(acceptRanges, totalBytes) ==
  LET usable == {c \in SEGMENT_CHOICES : totalBytes >= c * Unit}
  IN  IF ~acceptRanges \/ usable = {} THEN 1
      ELSE CHOOSE c \in usable : \A d \in usable : d <= c

(***************************************************************************)
(* The segments of a file, the first and last byte of each.  Every segment *)
(* begins where the one before it ended; the first totalBytes % count are  *)
(* one byte longer.  A file of unknown length, which is -1, gets one       *)
(* segment that ends before it begins.                                     *)
(***************************************************************************)
planSegmentsUneven(totalBytes, count) ==
  LET base == totalBytes \div count
  IN  [k \in 1..count |-> [start |-> (k - 1) * base, end |-> k * base - 1]]

segmentStart(base, remainder, k) ==
  (k - 1) * base + (IF k - 1 < remainder THEN k - 1 ELSE remainder)

planSegments(totalBytes, count) ==
  IF totalBytes <= 0 \/ count <= 1 THEN <<[start |-> 0, end |-> totalBytes - 1]>>
  ELSE LET base == totalBytes \div count
           remainder == totalBytes % count
       IN  [k \in 1..count |-> [start |-> segmentStart(base, remainder, k),
                                end |-> segmentStart(base, remainder, k + 1) - 1]]

Plan(acceptRanges, totalBytes) == planSegments(totalBytes, segmentCount(acceptRanges, totalBytes))

(***************************************************************************)
(* Every byte of a file of known length, of whatever length, belongs to    *)
(* exactly one of its segments, and no segment reaches outside the file:   *)
(* otherwise a finished file has a hole that its length does not show, or  *)
(* two threads write the same bytes.                                       *)
(***************************************************************************)
Tiles(plan, n) ==
  /\ \A k \in DOMAIN plan : plan[k].start >= 0 /\ plan[k].end < n
  /\ \A b \in 0..n - 1 : \E k \in DOMAIN plan :
       /\ b \in plan[k].start..plan[k].end
       /\ \A m \in DOMAIN plan : b \in plan[m].start..plan[m].end => m = k

SegmentsTile == \A n \in 1..MaxBytes, ranges \in BOOLEAN : Tiles(Plan(ranges, n), n)

=============================================================================

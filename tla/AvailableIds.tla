---------------------------- MODULE AvailableIds ----------------------------
(***************************************************************************)
(* The interval arithmetic a claim selects its ids with: SubidRange::new   *)
(* (sandbox/subid/delegation.rs) and AvailableIds (sandbox/subid/mod.rs),  *)
(* for one id kind.  Ranges are parsed, then merged in sorted order into   *)
(* inclusive intervals keyed by their start, then ids are removed one by   *)
(* one: 0, the daemon's own id and those the ledger records.  Integers     *)
(* keep the widths of the code: IdSpace stands for 2^32, Wide for 2^64.    *)
(***************************************************************************)
EXTENDS Integers

CONSTANTS IdSpace,    \* number of u32 values
          Wide,       \* number of u64 values
          Starts,     \* range starts the parser may read
          Counts,     \* range lengths the parser may read
          MaxRanges   \* bound: ranges in a delegation

VARIABLES phase,      \* "parse", "merge" or "select"
          ranges,     \* <<start, end>> of the ranges not merged yet
          intervals,  \* <<start, end>> of the map intervals
          delegated,  \* ids the parsed text delegates (specification only)
          removed,    \* ids removed so far (specification only)
          parsed      \* ranges parsed so far

idVars == <<phase, ranges, intervals, delegated, removed, parsed>>

Ids == 0 .. IdSpace - 1

ASSUME WidthAssumption ==
    /\ IdSpace \in Nat \ {0} /\ Wide \in Nat \ {0} /\ IdSpace <= Wide
    /\ Starts \subseteq 0 .. Wide - 1 /\ Counts \subseteq 0 .. Wide - 1
    /\ MaxRanges \in Nat

IdsInit ==
    /\ phase = "parse"
    /\ ranges = {} /\ intervals = {}
    /\ delegated = {} /\ removed = {} /\ parsed = 0

(* SubidRange::new: the sum is a plain u64 addition, which wraps in a build  *)
(* without overflow checks.                                                  *)
Accepts(start, count) ==
    /\ count # 0
    /\ start < IdSpace
    /\ (start + count) % Wide <= IdSpace

(* The inclusive end from_ranges computes for the range, cast to u32.        *)
EndOf(start, count) == (start + (count % IdSpace) - 1) % IdSpace

Parse ==
    /\ phase = "parse" /\ parsed < MaxRanges
    /\ \E start \in Starts, count \in Counts :
         /\ Accepts(start, count)
         /\ ranges' = ranges \union {<<start, EndOf(start, count)>>}
         /\ delegated' = delegated \union (start .. start + count - 1)
    /\ parsed' = parsed + 1
    /\ UNCHANGED <<phase, intervals, removed>>

FromRanges ==
    /\ phase = "parse"
    /\ phase' = "merge"
    /\ UNCHANGED <<ranges, intervals, delegated, removed, parsed>>

(* The next range in sort_unstable's order; equal ranges merge as one.       *)
Least(r) == \A q \in ranges : r[1] < q[1] \/ (r[1] = q[1] /\ r[2] <= q[2])
Last(i) == \A j \in intervals : j[1] <= i[1]

WrappingSucc(n) == (n + 1) % IdSpace
SaturatingSucc(n) == IF n + 1 < IdSpace THEN n + 1 ELSE n
TouchesWrapping(start, end) == start <= WrappingSucc(end)
Touches(start, end) == start <= SaturatingSucc(end)
Farther(m, n) == IF m < n THEN n ELSE m

MergeOne ==
    /\ phase = "merge"
    /\ \E r \in ranges :
         /\ Least(r)
         /\ ranges' = ranges \ {r}
         /\ \/ \E i \in intervals :
                 /\ Last(i) /\ Touches(r[1], i[2])
                 /\ intervals' = (intervals \ {i}) \union {<<i[1], Farther(i[2], r[2])>>}
            \/ /\ \A i \in intervals : Last(i) => ~Touches(r[1], i[2])
               /\ intervals' = intervals \union {r}
    /\ UNCHANGED <<phase, delegated, removed, parsed>>

Merged ==
    /\ phase = "merge" /\ ranges = {}
    /\ phase' = "select"
    /\ UNCHANGED <<ranges, intervals, delegated, removed, parsed>>

(* AvailableIds::remove: the interval with the greatest start not above id,  *)
(* when it contains the id, loses it, shrinking or splitting.                *)
AtOrBelow(id) == {i \in intervals : i[1] <= id}
Without(i, id) == {j \in {<<i[1], id - 1>>, <<id + 1, i[2]>>} : j[1] <= j[2]}

Remove(id) ==
    /\ phase = "select"
    /\ removed' = removed \union {id}
    /\ \/ \E i \in AtOrBelow(id) :
            /\ \A j \in AtOrBelow(id) : j[1] <= i[1]
            /\ id <= i[2]
            /\ intervals' = (intervals \ {i}) \union Without(i, id)
       \/ /\ \A i \in AtOrBelow(id) : (\A j \in AtOrBelow(id) : j[1] <= i[1]) => i[2] < id
          /\ UNCHANGED intervals
    /\ UNCHANGED <<phase, ranges, delegated, parsed>>

IdsNext == Parse \/ FromRanges \/ MergeOne \/ Merged \/ \E id \in Ids : Remove(id)

IdsSpec == IdsInit /\ [][IdsNext]_idVars

-----------------------------------------------------------------------------
Covered == UNION {i[1] .. i[2] : i \in intervals}

(* Range ends stay inside the id space and intervals are never empty.        *)
TypeOK ==
    /\ phase \in {"parse", "merge", "select"}
    /\ ranges \subseteq Ids \X Ids
    /\ intervals \subseteq Ids \X Ids
    /\ \A i \in intervals : i[1] <= i[2]
    /\ parsed \in 0 .. MaxRanges

(* Once merged, the intervals hold exactly the delegated ids not removed     *)
(* yet, each in one interval, so a recorded, own or root id is never offered *)
(* and no delegated free id is lost (from_ranges, remove).                   *)
IntervalsExact ==
    phase = "select" =>
      /\ Covered = delegated \ removed
      /\ \A i, j \in intervals : i = j \/ i[2] < j[1] \/ j[2] < i[1]

(* lowest, the first interval's start, is the least delegated id not yet     *)
(* removed, and there is none only when all are removed.                     *)
LowestIsLeast ==
    phase = "select" =>
      /\ intervals = {} => delegated \subseteq removed
      /\ \A i \in intervals : (\A j \in intervals : i[1] <= j[1]) =>
           /\ i[1] \in delegated \ removed
           /\ \A id \in delegated \ removed : i[1] <= id
=============================================================================

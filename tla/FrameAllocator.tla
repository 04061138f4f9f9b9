--------------------------- MODULE FrameAllocator ---------------------------
(***************************************************************************)
(* The frame allocator (hal/src/memory.rs): a range of frames, a bitmap of *)
(* those in use, a reference count for each, a hint where to search, and   *)
(* the reserved regions, as operators on its record fa.                    *)
(*                                                                         *)
(* `fault' is the panic of an assertion: too many regions, or a frame      *)
(* given back twice (the debug_assert of deallocate_frame, which the dev   *)
(* profile of Cargo.toml keeps).                                           *)
(***************************************************************************)
EXTENDS Integers, SequencesExt

CONSTANTS
    FirstFrame,     \* available_frames.start, at least 1
    EndFrame,       \* available_frames.end
    MaxRegions,     \* MAX_RESERVED_REGIONS
    MaxRefcount     \* MAX_REFCOUNT

ASSUME FramesAssumption ==
    /\ FirstFrame \in Nat \ {0} /\ EndFrame \in Nat /\ FirstFrame < EndFrame
    /\ MaxRegions \in Nat /\ MaxRefcount \in Nat \ {0}

Frames == FirstFrame .. EndFrame - 1
NoFrame == 0
TotalFrames == EndFrame - FirstFrame

ReservedRegion == {r \in [start : Nat, end : Nat] : r.start < r.end}

AllocatorType ==
    [next : FirstFrame .. EndFrame, regions : Seq(ReservedRegion), used : SUBSET Frames,
     refs : [Frames -> 0 .. MaxRefcount], fault : BOOLEAN]

NewAllocator ==
    [next |-> FirstFrame, regions |-> <<>>, used |-> {},
     refs |-> [f \in Frames |-> 0], fault |-> FALSE]

-----------------------------------------------------------------------------
(* Reservations: regions that touch or overlap are merged.                 *)

Covers(r, f) == r.start <= f /\ f < r.end
Overlaps(a, b) == a.start < b.end /\ b.start < a.end
CanMerge(a, b) == a.end = b.start \/ b.end = a.start \/ Overlaps(a, b)
Merged(a, b) == [start |-> Min({a.start, b.start}), end |-> Max({a.end, b.end})]

IsReserved(fa, f) == \E i \in DOMAIN fa.regions : Covers(fa.regions[i], f)

\* The first pair that can merge, by its first member and then its second.
MergePairs(s) ==
    {p \in (DOMAIN s) \X (DOMAIN s) : p[1] < p[2] /\ CanMerge(s[p[1]], s[p[2]])}

\* The n-th round: the first pair becomes one region.
MergeFirst(s, n) ==
    IF MergePairs(s) = {} THEN s
    ELSE LET p == CHOOSE p \in MergePairs(s) : \A q \in MergePairs(s) :
                     p[1] < q[1] \/ (p[1] = q[1] /\ p[2] <= q[2])
         IN  RemoveAt([s EXCEPT ![p[1]] = Merged(s[p[1]], s[p[2]])], p[2])

\* Every merge removes a region, so Len(s) rounds reach the end.
ConsolidateReservations(s) ==
    FoldLeft(MergeFirst, s, [n \in 1 .. Len(s) |-> n])

Reserve(fa, r) ==
    LET hits == {i \in DOMAIN fa.regions : CanMerge(fa.regions[i], r)}
    IN  IF hits # {}
        THEN [fa EXCEPT !.regions =
                 ConsolidateReservations([@ EXCEPT ![Min(hits)] = Merged(@, r)])]
        ELSE IF Len(fa.regions) < MaxRegions
        THEN [fa EXCEPT !.regions = Append(@, r)]
        ELSE [fa EXCEPT !.fault = TRUE]

ReserveRange(fa, start, end) ==
    IF start >= end THEN fa ELSE Reserve(fa, [start |-> start, end |-> end])

-----------------------------------------------------------------------------
(* Frames: found from the hint on, once around the range.                  *)

Available(fa, f) == ~IsReserved(fa, f) /\ f \notin fa.used

ScanStart(fa) == IF fa.next \in Frames THEN fa.next ELSE FirstFrame

\* The k-th frame the search looks at.
Scanned(fa, k) == FirstFrame + ((ScanStart(fa) - FirstFrame + k) % TotalFrames)

\* The frame allocate_frame returns, NoFrame for None.
NextFree(fa) ==
    LET hits == {k \in 0 .. TotalFrames - 1 : Available(fa, Scanned(fa, k))}
    IN  IF hits = {} THEN NoFrame ELSE Scanned(fa, Min(hits))

\* allocate_frame returned f.
Take(fa, f) ==
    [fa EXCEPT !.used = @ \cup {f}, !.refs[f] = 1, !.next = f + 1]

\* Mistake: the hint stays above the frame.
ReleaseKeepHint(fa, f) == [fa EXCEPT !.used = @ \ {f}, !.refs[f] = 0]

Release(fa, f) ==
    [fa EXCEPT !.used = @ \ {f}, !.refs[f] = 0, !.next = Min({@, f})]

\* Whatever the count: the frame is free afterwards.
DeallocateFrame(fa, f) ==
    IF IsReserved(fa, f) THEN fa
    ELSE IF f \in fa.used THEN Release(fa, f)
    ELSE [fa EXCEPT !.fault = TRUE]

IncRefcount(fa, f) ==
    IF fa.refs[f] > 0 /\ fa.refs[f] < MaxRefcount
    THEN [fa EXCEPT !.refs[f] = @ + 1] ELSE fa

DecRefcount(fa, f) ==
    CASE fa.refs[f] = 0 -> fa
      [] fa.refs[f] = 1 -> Release(fa, f)
      [] OTHER -> [fa EXCEPT !.refs[f] = @ - 1]
=============================================================================

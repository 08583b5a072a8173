-------------------------------- MODULE Sahi --------------------------------
(***************************************************************************)
(* Slicing-aided inference on one stream: SahiSchedulerStage cuts a frame  *)
(* into tiles (the whole grid now and then, in between the surroundings of *)
(* what was found last), the tiles are inferred in any order and may get   *)
(* lost, SahiMergeStage puts the answers of a frame together again and     *)
(* leaves what it found in the SahiRoiRegistry for the scheduler.          *)
(*                                                                         *)
(* One axis stands for both: the grid is the product of two sets of starts *)
(* computed alike, a box that of two intervals.  Ratios are percentages.   *)
(***************************************************************************)
EXTENDS Integers, Sequences, FiniteSets, FiniteSetsExt

CONSTANTS
    Widths,                 \* sizes of the frames that arrive
    TileWidth, Overlap,     \* tile_width, x_overlap_ratio
    MaxTiles,               \* max_tiles_per_frame
    FullInterval,           \* full_interval
    RoiExpand, MinRoi,      \* roi_expand_ratio, min_roi_width
    RoiMaxAge, FallbackGap, \* roi_max_age_frames, fallback_full_min_gap_frames
    MergeIou, MergeIos,     \* merge_iou, merge_ios
    MaxFrames               \* bound

\* What StageFactory demands of a scheduler, and a frame that is not empty.
ASSUME SahiAssumption ==
    /\ Widths \subseteq Nat \ {0}
    /\ TileWidth \in Nat \ {0} /\ MaxTiles \in Nat \ {0}
    /\ Overlap \in Int /\ RoiExpand \in Int /\ MinRoi \in Int

VARIABLES
    nextSeq,   \* frame_seq of the next frame; starts again at a reconnect
    stream,    \* stream_state_: [count, fallback]
    cut,       \* how each frame was cut: [seq, full, pass, rects, capped]
    tiles,     \* tiles on their way: <<frame, index into its rects>>; one dropped by
               \* a queue or not inferred stays here for ever
    gathering, \* pending_ of the merge stage: frame_seq -> [seq, got, n, dets, late]
    roi,       \* SahiRoiRegistry: [seq, dets], or NoRoi
    merged     \* results emitted: [seq, got], with the tiles they are made of

sahiVars == <<nextSeq, stream, tiles, cut, gathering, roi, merged>>

NoRoi == [seq |-> -1, dets |-> {}]
Fresh == [count |-> 0, fallback |-> 0]

SahiInit ==
    /\ nextSeq = 0 /\ stream = Fresh /\ tiles = {} /\ cut = <<>>
    /\ gathering = <<>> /\ roi = NoRoi /\ merged = {}

-----------------------------------------------------------------------------
(* SahiSchedulerStage.                                                     *)

SafeTile(full) == Max({1, Min({TileWidth, full})})
Stride(full) ==
    LET overlap == (2 * SafeTile(full) * Overlap + 100) \div 200 IN
    Max({1, SafeTile(full) - overlap})

\* Mutant: only the tiles that fit before the border.
StartsThatFit(full) ==
    {x \in {k * Stride(full) : k \in 0..full} : x + SafeTile(full) <= full}

\* Multiples of the stride, the last one pushed back inside the frame.
makeAxisStarts(full) ==
    {Min({x, full - SafeTile(full)}) :
        x \in {y \in {k * Stride(full) : k \in 0..full} : y < full}}

makeFullTiles(full) ==
    {[x |-> x, w |-> Min({TileWidth, full - x})] : x \in makeAxisStarts(full)}

\* A window of at least min_roi around each detection, cut off at the frame.
makeRoiTiles(full, dets) ==
    LET want(d)   == Max({MinRoi * 100, Max({1, d.x2 - d.x1}) * RoiExpand})
        x(d)      == Max({0, ((d.x1 + d.x2) * 100 - want(d)) \div 200})
        width(d)  == Min({(want(d) + 99) \div 100, full - x(d)})
    IN  {r \in {[x |-> x(d), w |-> width(d)] : d \in dets} : r.w > 0}

\* Sorted from the left, the tiles before r, and the first MaxTiles of them.
Before(r, rects) == {q \in rects : q.x < r.x \/ (q.x = r.x /\ q.w < r.w)}
firstTiles(rects) ==
    [i \in {j \in 0..(MaxTiles - 1) : j < Cardinality(rects)} |->
        CHOOSE r \in rects : Cardinality(Before(r, rects)) = i]

\* The tiles of a pass: without any, the whole frame is one.
makeTiles(pass, full, dets) ==
    LET whole == {[x |-> 0, w |-> full]}
        found == CASE pass \in {"full", "fallback"} -> makeFullTiles(full)
                   [] pass = "roi" -> makeRoiTiles(full, dets)
                   [] OTHER -> whole
    IN  IF found = {} THEN whole ELSE found

\* process: which pass the frame gets, with the counters s and the entry r of
\* the registry.
PassOf(s, r, seq) ==
    LET periodic == FullInterval <= 1 \/ s.count % FullInterval = 1
        stale    == r = NoRoi \/ seq - r.seq > Max({1, RoiMaxAge})
        due      == s.count - s.fallback >= Max({1, FallbackGap})
    IN  CASE periodic -> "full"
          [] ~periodic /\ ~stale -> "roi"
          [] ~periodic /\ stale /\ due -> "fallback"
          [] OTHER -> "single"

\* A frame of width full.  After a minute without frames the stream's
\* counters and its registry entry are swept first; when the camera has been
\* opened again since the last frame, its decoder counts from 0.
Schedule(full, idle, reopened) ==
    LET seq   == IF reopened THEN 0 ELSE nextSeq
        s     == [(IF idle THEN Fresh ELSE stream) EXCEPT !.count = @ + 1]
        r     == IF idle THEN NoRoi ELSE roi
        pass  == PassOf(s, r, seq)
        all   == makeTiles(pass, full, r.dets)
        rects == firstTiles(all)
    IN  /\ Len(cut) < MaxFrames /\ (idle \/ reopened => cut # <<>>)
        /\ nextSeq' = seq + 1
        /\ stream' = IF pass = "fallback" THEN [s EXCEPT !.fallback = s.count] ELSE s
        /\ roi' = r
        /\ cut' = Append(cut, [seq |-> seq, full |-> full, pass |-> pass, rects |-> rects,
                                capped |-> Cardinality(all) > MaxTiles])
        /\ tiles' = tiles \cup {<<Len(cut) + 1, i>> : i \in DOMAIN rects}
        /\ UNCHANGED <<gathering, merged>>

-----------------------------------------------------------------------------
(* SahiMergeStage.                                                         *)

\* iou and ios of two intervals, compared with the thresholds.
Overlaps(a, b) ==
    LET inter   == Max({0, Min({a.x2, b.x2}) - Max({a.x1, b.x1})})
        la == a.x2 - a.x1
        lb == b.x2 - b.x1
    IN  \/ la + lb - inter > 0 /\ inter * 100 >= MergeIou * (la + lb - inter)
        \/ Min({la, lb}) > 0 /\ inter * 100 >= MergeIos * Min({la, lb})

\* From the surest detection down, one is kept unless one kept before it
\* overlaps it too much.
runNms(dets) ==
    LET removed(d, kept) == \E k \in kept : k.conf > d.conf /\ Overlaps(k, d)
        kept == CHOOSE kept \in SUBSET dets : \A d \in dets : d \in kept <=> ~removed(d, kept)
    IN  {d \in dets : ~removed(d, kept)}

\* sweepStale, then: the entries that are left.
Swept == [q \in {p \in DOMAIN gathering : ~gathering[p].late} |-> gathering[q]]

\* Mutant: tiles are gathered per stream instead of per frame.
AnyFrame(t) == 1

\* PendingKey: parent_frame_seq.
GatherKey(t) == cut[t[1]].seq

\* process: the answer to tile t, with or without a detection at its left
\* border, moved to frame coordinates.  The last tile expected emits.
Merge(t, hit) ==
    LET k     == GatherKey(t)
        rects == cut[t[1]].rects
        start == [seq |-> cut[t[1]].seq, got |-> {}, n |-> Cardinality(DOMAIN rects), dets |-> {}, late |-> FALSE]
        old   == IF k \in DOMAIN Swept THEN Swept[k] ELSE start
        dets  == IF hit THEN {[x1 |-> rects[t[2]].x, x2 |-> rects[t[2]].x + Min({2, rects[t[2]].w}), conf |-> t[2]]}
                 ELSE {}
        e     == [old EXCEPT !.got = @ \cup {t}, !.dets = @ \cup dets]
    IN  /\ tiles' = tiles \ {t}
        /\ IF Cardinality(e.got) >= e.n
           THEN /\ gathering' = [q \in DOMAIN Swept \ {k} |-> Swept[q]]
                /\ merged' = merged \cup {[seq |-> e.seq, got |-> e.got]}
                /\ roi' = [seq |-> e.seq, dets |-> runNms(e.dets)]
           ELSE /\ gathering' = [q \in DOMAIN Swept \cup {k} |-> IF q = k THEN e ELSE Swept[q]]
                /\ UNCHANGED <<merged, roi>>
        /\ UNCHANGED <<nextSeq, stream, cut>>

\* stale_timeout_ms passes for an entry.
TurnStale(q) ==
    /\ ~gathering[q].late
    /\ gathering' = [gathering EXCEPT ![q].late = TRUE]
    /\ UNCHANGED <<nextSeq, stream, tiles, cut, roi, merged>>

SahiNext ==
    \/ \E full \in Widths, idle, reopened \in BOOLEAN : Schedule(full, idle, reopened)
    \/ \E t \in tiles, hit \in BOOLEAN : Merge(t, hit)
    \/ \E q \in DOMAIN gathering : TurnStale(q)

-----------------------------------------------------------------------------
\* The tiles of each new frame stay inside it, and those of a full pass that was
\* not capped leave no pixel out, also where the stride does not divide the frame
\* or the frame is smaller than a tile.
TilesCover ==
    cut # <<>> =>
        LET pixels(r) == r.x..(r.x + r.w - 1)
            c == cut[Len(cut)]
        IN  /\ \A i \in DOMAIN c.rects :
                 c.rects[i].w > 0 /\ pixels(c.rects[i]) \subseteq 0..(c.full - 1)
            /\ c.pass \in {"full", "fallback"} /\ ~c.capped =>
                 UNION {pixels(c.rects[i]) : i \in DOMAIN c.rects} = 0..(c.full - 1)

FramesNumbered(n) == {f \in DOMAIN cut : cut[f].seq = n}

\* No answer enters two results, and a result is made of answers to tiles of
\* frames of one number only: to all tiles of one frame, unless a reconnect has
\* given the number to a second.  Tiles may be lost, their answers come in any
\* order, and after their frame was given up: sweepStale drops what has been
\* gathered of it (docs/iterations.md:815 would have it put out by force).
MergedOnce ==
    /\ \A e, f \in merged : e # f => e.got \cap f.got = {}
    /\ \A e \in merged : \A t \in e.got : cut[t[1]].seq = e.seq
    /\ \A e \in merged, f \in DOMAIN cut :
         FramesNumbered(e.seq) = {f} => e.got = {f} \X DOMAIN cut[f].rects
=============================================================================

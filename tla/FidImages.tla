----------------------------- MODULE FidImages ------------------------------
(***************************************************************************)
(* The thresholders of libfidtrack, which turn a gray image into the black *)
(* and white one the segmenter reads: the adaptive ones of threshold.cpp   *)
(* and the tiled Bernsen thresholder.  They work on tiles of the image,    *)
(* each with its own rule for what a pixel is compared with.               *)
(*                                                                         *)
(* The tiles are products of intervals, and the loops over rows and over   *)
(* columns are alike, so a thresholder is given by its cells on one axis:  *)
(* the pixels from..to it writes and what it looks at for them.            *)
(*                                                                         *)
(* Two machines: the thresholders, and the segmenter.                      *)
(***************************************************************************)
EXTENDS Integers, Sequences, SequencesExt, FiniteSetsExt

CONSTANTS
  Frames,               \* [width, height, tile_size, source]
  gradient_threshold, contrast_threshold,
  None

VARIABLES frame, method, dest

threshold_vars == <<frame, method, dest>>

WHITE == 255
BLACK == 0

T == frame.tile_size
Pixels == (0..(frame.width - 1)) \X (0..(frame.height - 1))
Source(p) == frame.source[p]

Span(from, to) == from..(to - 1)
Least(a, b) == IF a < b THEN a ELSE b
Count(n, step) == (n + step - 1) \div step
-----------------------------------------------------------------------------
(* Cells of an axis of n pixels: what is written and what is looked at, a  *)
(* set of tiles that are intervals.                                        *)

AdaptiveCells(n) ==
  [k \in 1..Count(n, T) |->
     LET tile == Span((k - 1) * T, Least(k * T, n)) IN [written |-> tile, tiles |-> {tile}]]

OverlappedCells(n) ==
  [k \in 1..Count(n, T \div 2) |->
     LET z == (k - 1) * (T \div 2)
         end == Least(z + T, n)
     IN [written |-> Span(IF z = 0 THEN 0 ELSE z + (T \div 4), Least(z + T - (T \div 4), end)),
         tiles |-> {Span(z, end)}]]

\* The gradient thresholder measures aligned tiles, without the last pixel,
\* and decides cells that lie across them: half a tile at the borders.
GradientTile(n, k) == Span(k * T, Least((k + 1) * T, n - 1))
GradientCells(n) ==
  LET last == (n \div T) - 1 IN
  <<[written |-> Span(0, T \div 2), tiles |-> {GradientTile(n, 0)}]>>
    \o [k \in 1..last |-> [written |-> Span((k - 1) * T + (T \div 2), k * T + (T \div 2)),
                           tiles |-> {GradientTile(n, k - 1), GradientTile(n, k)}]]
    \o <<[written |-> Span(n - (T \div 2), n), tiles |-> {GradientTile(n, last)}]>>

\* The Bernsen thresholder measures tiles that begin half a tile early and
\* combines two of them for each aligned tile.
MinMaxSpan(n, j) ==
  LET half == T \div 2
      full == (n - half) \div T
  IN CASE j = 0 -> Span(0, half)
       [] j > full -> Span(half + full * T, n)
       [] OTHER -> Span(half + (j - 1) * T, half + j * T)

\* The measures lie row by row in min_max.  The one behind a row's last is
\* the first of the next row, and behind the last row there is none.
min_max_width(n) == ((n - (T \div 2)) \div T) + 2

\* The places in min_max that decide p, wherever they point.
Combined(p) ==
  {(p[2] \div T + j) * min_max_width(frame.width) + (p[1] \div T) + k : j, k \in {0, 1}}

PastTheEnd(p) ==
  \E at \in Combined(p) : at >= min_max_width(frame.width) * min_max_width(frame.height)

BernsenTiles(p) ==
  LET wide == min_max_width(frame.width)
  IN {MinMaxSpan(frame.width, at % wide) \X MinMaxSpan(frame.height, at \div wide) :
        at \in {at \in Combined(p) : at < wide * min_max_width(frame.height)}}

\* The last cell that writes z decides.
CellOf(cells, z) == cells[Max({k \in DOMAIN cells : z \in cells[k].written})]

\* The tiles of the image that decide p.
Tiles(columns, rows, p) ==
  {tx \X ty : tx \in CellOf(columns, p[1]).tiles,
              ty \in CellOf(rows, p[2]).tiles}
-----------------------------------------------------------------------------
(* What is measured on a tile.                                             *)
Total(pixels, f(_)) == FoldSet(LAMBDA p, n : n + f(p), 0, pixels)
Mean(tile) == Total(tile, Source) \div Cardinality(tile)
\* The variance is below 100.
IsFlat(tile) ==
  LET n == Cardinality(tile)
      sum == Total(tile, Source)
  IN n * Total(tile, LAMBDA p : Source(p) * Source(p)) - sum * sum < 100 * n * n

Before(p, q) == p[2] < q[2] \/ (p[2] = q[2] /\ p[1] < q[1])
Values(tile) == {Source(p) : p \in tile}

\* An else keeps a new maximum from being a minimum (gradient) and a new
\* minimum from being a maximum (Bernsen).
MaxTile(tile) == Max({0} \cup Values(tile))
MinTile(tile) ==
  Min({255} \cup {Source(p) : p \in {p \in tile :
                    \/ Source(p) = 0
                    \/ \E q \in tile : Before(q, p) /\ Source(q) >= Source(p)}})
MinSpan(tile) == Min({255} \cup Values(tile))
MaxSpan(tile) ==
  Max({0} \cup {Source(p) : p \in {p \in tile :
                  \/ Source(p) = 255
                  \/ \E q \in tile : Before(q, p) /\ Source(q) <= Source(p)}})

Abs(n) == IF n < 0 THEN -n ELSE n
Gradient(tile) ==
  Max({0} \cup {Abs(Source(<<p[1] + 1, p[2]>>) - Source(p))
                  + Abs(Source(<<p[1], p[2] + 1>>) - Source(p)) : p \in tile})

Cut(p, level) == IF Source(p) > level THEN WHITE ELSE BLACK

DecideAdaptive(p, tiles) == Cut(p, Mean(CHOOSE tile \in tiles : TRUE))

DecideOverlapped(p, tiles) ==
  LET tile == CHOOSE tile \in tiles : TRUE
  IN Cut(p, Mean(tile) - (IF IsFlat(tile) THEN 10 ELSE 0))

DecideGradient(p, tiles) ==
  IF Max({Gradient(tile) : tile \in tiles}) > gradient_threshold
  THEN Cut(p, (Max({MaxTile(tile) : tile \in tiles}) + Min({MinTile(tile) : tile \in tiles})) \div 2)
  ELSE BLACK

\* compute_row_thresholds, apply_frame_thresholds; read is what was found
\* past the end of min_max, a minimum and a maximum.
DecideBernsen(p, read) ==
  LET tiles == BernsenTiles(p)
      past == PastTheEnd(p)
      max == Max({MaxSpan(tile) : tile \in tiles} \cup (IF past THEN {read[2]} ELSE {}))
      min == Min({MinSpan(tile) : tile \in tiles} \cup (IF past THEN {read[1]} ELSE {}))
      mean == (min + max) \div 2
  IN Cut(p, IF max - min >= contrast_threshold THEN mean
            ELSE IF mean < 127 THEN WHITE ELSE BLACK)
-----------------------------------------------------------------------------
ThresholdInit == frame \in Frames /\ method = None /\ dest = None

Threshold(name, decide(_)) ==
  /\ dest = None
  /\ method' = name
  /\ dest' = [p \in Pixels |-> decide(p)]
  /\ UNCHANGED frame

simple_adaptive_threshold ==
  Threshold("adaptive", LAMBDA p : DecideAdaptive(p,
    Tiles(AdaptiveCells(frame.width), AdaptiveCells(frame.height), p)))
overlapped_adaptive_threshold ==
  Threshold("overlapped", LAMBDA p : DecideOverlapped(p,
    Tiles(OverlappedCells(frame.width), OverlappedCells(frame.height), p)))
\* "hardwired dimensions for now": whole tiles.
overlapped_adaptive_threshold2 ==
  /\ frame.width % T = 0 /\ frame.height % T = 0
  /\ Threshold("gradient", LAMBDA p : DecideGradient(p,
    Tiles(GradientCells(frame.width), GradientCells(frame.height), p)))
\* Past the end of min_max is any memory: extreme bytes, the same for every
\* such read, as a pixel is decided by one of them.
tiled_bernsen_threshold ==
  \E read \in {BLACK, WHITE} \X {BLACK, WHITE} :
    Threshold("bernsen", LAMBDA p : DecideBernsen(p, read))

ThresholdNext ==
           \/ simple_adaptive_threshold \/ overlapped_adaptive_threshold
           \/ overlapped_adaptive_threshold2 \/ tiled_bernsen_threshold

ThresholdSpec == ThresholdInit /\ [][ThresholdNext]_threshold_vars
-----------------------------------------------------------------------------
\* The square that reaches half a tile over p's tile on every side.
Around(p) ==
  LET near(z, n) == {c \in 0..(n - 1) : /\ c >= (z \div T) * T - (T \div 2)
                                        /\ c < (z \div T) * T + T + (T \div 2)}
  IN near(p[1], frame.width) \X near(p[2], frame.height)

\* The aligned tiles that the square of a tile's size around p touches.
Touched(p) ==
  LET k(z) == ((z + (T \div 2)) \div T) - 1
      near(z, n) == {GradientTile(n, j) : j \in {k(z), k(z) + 1} \cap (0..((n \div T) - 1))}
  IN {tx \X ty : tx \in near(p[1], frame.width), ty \in near(p[2], frame.height)}

\* p lies in a last tile of less than half the size: the tile has a
\* threshold, but one measure too few was taken for it.
Unmeasured(p) ==
  LET short(z, n) == z \div T = n \div T /\ n % T < T \div 2
  IN short(p[1], frame.width) \/ short(p[2], frame.height)

(* Every pixel is decided by its own surroundings: its own tile (adaptive) *)
(* or one of the overlapping tiles, none of which decides a pixel within a *)
(* quarter of its end unless it is the image's; the gradient thresholder compares a pixel with the  *)
(* tiles next to it, though corners, borders and the inside are nine       *)
(* pieces of code; and the Bernsen thresholder with the square around its  *)
(* tile, put together from tiles that are shifted by half a tile.  The     *)
(* exception are the pixels of a last column or row of tiles that has less *)
(* than half a tile's size, where compute_row_thresholds                   *)
(* (tiled_bernsen_threshold.cpp:185-200) takes in a measure of the other   *)
(* side of the image or one from behind the array; only they see either.   *)
PixelsSeeTheirSurroundings ==
  dest # None =>
    \A p \in Pixels :
      /\ method = "adaptive" =>
           dest[p] = Cut(p, Mean({q \in Pixels : /\ q[1] \div T = p[1] \div T
                                                /\ q[2] \div T = p[2] \div T}))
      /\ method = "overlapped" =>
           \A tile \in Tiles(OverlappedCells(frame.width), OverlappedCells(frame.height), p) :
             \A q \in Pixels : /\ Abs(q[1] - p[1]) <= T \div 4
                              /\ Abs(q[2] - p[2]) <= T \div 4 => q \in tile
      /\ method = "gradient" => dest[p] = DecideGradient(p, Touched(p))
      /\ method = "bernsen" /\ ~Unmeasured(p) =>
           UNION BernsenTiles(p) = Around(p) /\ ~PastTheEnd(p)
-----------------------------------------------------------------------------
(***************************************************************************)
(* The segmenter of libfidtrack, which moFiducialFinderModule runs on      *)
(* every frame: one pass over a black and white image builds its regions,  *)
(* merging two of them where they turn out to be one, and for each region  *)
(* the list of the regions next to it.                                     *)
(*                                                                         *)
(* A step is one pixel of build_regions.  labels remembers the reference   *)
(* each pixel was given; the code keeps those of two rows.                 *)
(***************************************************************************)

CONSTANTS
  width, height,
  Images,                  \* sequences of width * height colours
  MaxAdjacent              \* values of max_adjacent_regions

VARIABLES
  source, max_adjacent_regions,
  i,       \* the next pixel, from 0
  s        \* the Segmenter

segment_vars == <<source, max_adjacent_regions, i, s>>

ImagePixels == 1..(width * height)
X(p) == (p - 1) % width
Y(p) == (p - 1) \div width
-----------------------------------------------------------------------------
initialize_segmenter ==
  [regions |-> <<>>, refs |-> <<>>, freed |-> <<>>, labels |-> <<>>,
   previous_row |-> <<>>, current_row |-> <<>>]

\* A new region is the one freed last or the next of the array.
new_region(t, x, y, colour) ==
  LET new == [colour |-> colour, left |-> x, right |-> x, top |-> y, bottom |-> y,
              flags |-> {}, adjacent |-> <<>>]
      id == IF t.freed # <<>> THEN Head(t.freed) ELSE Len(t.regions) + 1
  IN [t EXCEPT !.regions = IF t.freed # <<>> THEN [@ EXCEPT ![id] = new] ELSE Append(@, new),
               !.freed = IF @ # <<>> THEN Tail(@) ELSE @,
               !.refs = Append(@, [region |-> id, redirect |-> Len(t.refs) + 1])]

is_adjacent(t, r1, r2) ==
  IF Len(t.regions[r1].adjacent) > Len(t.regions[r2].adjacent)
  THEN r1 \in Range(t.regions[r2].adjacent) ELSE r2 \in Range(t.regions[r1].adjacent)

\* The last element takes the place of the one removed.
DropAt(list, k) == SubSeq([list EXCEPT ![k] = Last(list)], 1, Len(list) - 1)

IndexOf(list, e) == CHOOSE k \in DOMAIN list : list[k] = e /\ \A j \in 1..(k - 1) : list[j] # e

remove_adjacent_from(t, r1, r2) ==
  IF r2 \notin Range(t.regions[r1].adjacent) THEN t
  ELSE [t EXCEPT !.regions[r1].adjacent = DropAt(@, IndexOf(@, r2))]

Flag(t, r, f) == [t EXCEPT !.regions[r].flags = @ \cup {f}]

make_saturated(t, r1) ==
  LET detach(u, a) == Flag(remove_adjacent_from(u, a, r1), a, "fragmented")
      u == FoldLeft(detach, t, t.regions[r1].adjacent)
  IN Flag([u EXCEPT !.regions[r1].adjacent = <<>>], r1, "saturated")

Saturated(t, r) == "saturated" \in t.regions[r].flags
Full(t, r) == Len(t.regions[r].adjacent) = max_adjacent_regions

make_adjacent(t, r1, r2) ==
  CASE is_adjacent(t, r1, r2) -> t
    [] ~is_adjacent(t, r1, r2) /\ Saturated(t, r1) -> Flag(t, r2, "fragmented")
    [] OTHER ->
       CASE Saturated(t, r2) -> Flag(t, r1, "fragmented")
         [] ~Saturated(t, r2) /\ Full(t, r1) ->
              LET u == Flag(make_saturated(t, r1), r2, "fragmented")
              IN IF Full(u, r2) THEN Flag(make_saturated(u, r2), r1, "fragmented") ELSE u
         [] ~Saturated(t, r2) /\ ~Full(t, r1) /\ Full(t, r2) ->
              Flag(make_saturated(t, r2), r1, "fragmented")
         [] OTHER -> [t EXCEPT !.regions[r1].adjacent = Append(@, r2),
                               !.regions[r2].adjacent = Append(@, r1)]

RECURSIVE DropCommon(_, _, _, _)
\* The first loop of merge_regions: what takes the place of a removed
\* adjacency is not looked at again.
DropCommon(t, r1, r2, k) ==
  IF k > Len(t.regions[r2].adjacent) THEN t
  ELSE LET a == t.regions[r2].adjacent[k] IN
       IF is_adjacent(t, a, r1)
       THEN DropCommon([remove_adjacent_from(t, a, r2) EXCEPT !.regions[r2].adjacent = DropAt(@, k)],
                       r1, r2, k + 1)
       ELSE DropCommon(t, r1, r2, k + 1)

\* The second loop: the neighbours of r2 become those of r1.
Transfer(t, r1, r2) ==
  LET replace_adjacent(u, a) ==
        [u EXCEPT !.regions[a].adjacent = [@ EXCEPT ![IndexOf(@, r2)] = r1],
                  !.regions[r1].adjacent = Append(@, a)]
  IN [FoldLeft(replace_adjacent, t, t.regions[r2].adjacent) EXCEPT !.regions[r2].adjacent = <<>>]

Min2(a, b) == IF a < b THEN a ELSE b
Max2(a, b) == IF a > b THEN a ELSE b

merge_regions(t, r1, r2) ==
  LET linked == IF Saturated(t, r1) THEN make_saturated(make_saturated(t, r2), r1)
                ELSE IF Saturated(t, r2) THEN make_saturated(t, r1)
                ELSE LET u == DropCommon(t, r1, r2, 1) IN
                     IF Len(u.regions[r1].adjacent) + Len(u.regions[r2].adjacent)
                          > max_adjacent_regions
                     THEN make_saturated(make_saturated(u, r1), r2)
                     ELSE Transfer(u, r1, r2)
      b == linked.regions[r2]
  IN [linked EXCEPT !.regions[r1] =
        [@ EXCEPT !.flags = @ \cup b.flags, !.left = Min2(@, b.left), !.top = Min2(@, b.top),
                  !.right = Max2(@, b.right), !.bottom = Max2(@, b.bottom)]]

RECURSIVE Resolve(_, _)
\* RESOLVE_REGIONREF_REDIRECTS
Resolve(t, ref) == IF t.refs[ref].redirect = ref THEN ref ELSE Resolve(t, t.refs[ref].redirect)

\* Merges the current reference into the one above it and frees its region.
Join(t, cur, above) ==
  LET freed == t.refs[cur].region
      u == merge_regions(t, t.refs[above].region, freed)
  IN [u EXCEPT !.regions[freed].flags = {"free"}, !.freed = <<freed>> \o @,
               !.refs[cur] = [region |-> 0, redirect |-> above]]

Put(t, ref) == [t EXCEPT !.current_row = Append(@, ref), !.labels = Append(@, ref)]

NewHere(t, x, y, edge) ==
  LET u == new_region(t, x, y, source[y * width + x + 1])
      ref == Len(u.refs)
  IN Put(IF edge THEN Flag(u, u.refs[ref].region, "border") ELSE u, ref)

TopPixel(t, x) ==
  LET p == x + 1 IN
  IF x > 0 /\ source[p] = source[p - 1] THEN Put(t, Last(t.current_row))
  ELSE LET u == NewHere(t, x, 0, TRUE) IN
       IF x = 0 THEN u
       ELSE make_adjacent(u, Last(u.refs).region, u.refs[u.current_row[x]].region)

LeftPixel(t, y) ==
  LET above == Resolve(t, t.previous_row[1]) IN
  IF source[y * width + 1] = t.regions[t.refs[above].region].colour THEN Put(t, above)
  ELSE LET u == NewHere(t, 0, y, TRUE)
       IN make_adjacent(u, Last(u.refs).region, u.refs[above].region)

\* The west cell's colour ends a run or goes on; a run that goes on below a
\* region of its colour joins it.
CenterPixel(t, x, y) ==
  LET p == y * width + x + 1
      above == Resolve(t, t.previous_row[x + 1])
      west == t.current_row[x]
      westRegion == t.refs[west].region
      same == source[p] = t.regions[t.refs[above].region].colour
      ended == [t EXCEPT !.regions[westRegion].right = Max2(@, x - 1)]
  IN IF source[p] = source[p - 1]
     THEN IF west # above /\ same THEN Put(Join(t, west, above), above) ELSE Put(t, west)
     ELSE IF same THEN Put([ended EXCEPT !.regions[t.refs[above].region].bottom = y], above)
     ELSE LET u == NewHere(ended, x, y, FALSE)
              new == Last(u.refs).region
              v == make_adjacent(u, new, u.refs[above].region)
          IN IF westRegion # v.refs[above].region THEN make_adjacent(v, new, westRegion) ELSE v

\* The end of a row marks its last region; the end of the image those below.
EndOfRow(t, x, y) ==
  LET u == IF y > 0 THEN Flag(t, t.refs[Last(t.current_row)].region, "border") ELSE t
      bottom == FoldLeft(LAMBDA v, ref : Flag(v, v.refs[Resolve(v, ref)].region, "border"),
                         u, u.current_row)
  IN IF x < width - 1 THEN t
     ELSE IF y = height - 1 THEN bottom
     ELSE [u EXCEPT !.previous_row = u.current_row, !.current_row = <<>>]

build_regions ==
  LET x == i % width
      y == i \div width
  IN /\ i < width * height
     /\ i' = i + 1
     /\ s' = EndOfRow(CASE y = 0 -> TopPixel(s, x)
                        [] y > 0 /\ x = 0 -> LeftPixel(s, y)
                        [] OTHER -> CenterPixel(s, x, y), x, y)
     /\ UNCHANGED <<source, max_adjacent_regions>>

SegmentInit ==
         /\ source \in Images /\ max_adjacent_regions \in MaxAdjacent
         /\ i = 0 /\ s = initialize_segmenter

\* The next frame.
step_segmenter ==
  /\ i = width * height
  /\ i' = 0 /\ s' = initialize_segmenter
  /\ UNCHANGED <<source, max_adjacent_regions>>

SegmentNext == build_regions \/ step_segmenter

SegmentSpec == SegmentInit /\ [][SegmentNext]_segment_vars
-----------------------------------------------------------------------------
Beside(p, q) ==
  \/ Y(p) = Y(q) /\ (X(p) = X(q) + 1 \/ X(q) = X(p) + 1)
  \/ X(p) = X(q) /\ (Y(p) = Y(q) + 1 \/ Y(q) = Y(p) + 1)

RECURSIVE Grow(_)
Grow(set) ==
  LET more == {q \in ImagePixels \ set : \E p \in set : Beside(p, q) /\ source[p] = source[q]}
  IN IF more = {} THEN set ELSE Grow(set \cup more)

RegionOf(p) == s.refs[Resolve(s, s.labels[p])].region
Inside(r) == {p \in ImagePixels : RegionOf(p) = r}
Live == {r \in DOMAIN s.regions : "free" \notin s.regions[r].flags}

LostOne(r) == s.regions[r].flags \cap {"saturated", "fragmented"} # {}
Times(list, e) == Cardinality({k \in DOMAIN list : list[k] = e})

(* When the image has been read, its regions are its connected areas of    *)
(* one colour, however often runs were merged and region structures freed  *)
(* and used again.  Two regions list each other equally often; a region    *)
(* that lost no adjacency to a full list is linked with exactly the        *)
(* regions that touch it; it is marked as a border region if and only if   *)
(* it touches the border, and otherwise has its true bounding box.  A      *)
(* neighbour may be listed twice, where the first loop of merge_regions    *)
(* (segment.cpp:293-299) skipped it.  A saturated region lists none.       *)
RegionsAreComponents ==
  i = width * height =>
    /\ \A r \in Live :
         LET px == Inside(r)
             reg == s.regions[r]
             touching == {RegionOf(q) : q \in {q \in ImagePixels \ px : \E p \in px : Beside(p, q)}}
         IN /\ px # {} /\ px = Grow({CHOOSE p \in px : TRUE})
            /\ \A a \in Range(reg.adjacent) :
                 a \in Live /\ Times(reg.adjacent, a) = Times(s.regions[a].adjacent, r)
            /\ Saturated(s, r) =>
                 reg.adjacent = <<>> /\ \A a \in touching : LostOne(a)
            /\ Len(reg.adjacent) <= max_adjacent_regions
            /\ ~LostOne(r) => Range(reg.adjacent) = touching
            /\ LET edge == \E p \in px : X(p) \in {0, width - 1} \/ Y(p) \in {0, height - 1}
               IN /\ edge <=> "border" \in reg.flags
                  /\ ~edge => /\ {X(p) : p \in px} = reg.left..reg.right
                              /\ {Y(p) : p \in px} = reg.top..reg.bottom
    /\ \A p \in ImagePixels : RegionOf(p) \in Live
=============================================================================

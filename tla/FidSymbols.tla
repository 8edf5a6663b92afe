----------------------------- MODULE FidSymbols -----------------------------
(***************************************************************************)
(* find_fiducialsX of libfidtrack: from the leaves of the tree of regions  *)
(* upwards, the regions whose subtree has the size and the depth of a      *)
(* symbol are found; the left heavy depth string of such a subtree is      *)
(* looked up in the TreeIdMap, which gives the fiducial its id.            *)
(*                                                                         *)
(* Input are the regions the segmenter built (FidImages).  They form a     *)
(* tree, where parent is 0 for the outermost region; border regions touch  *)
(* the image's border.  A region with too many neighbours is saturated: it *)
(* lists none, and none lists it.  A region in twice and its parent list   *)
(* each other two times.  A freed structure lists none and is in no list;  *)
(* it is left out.                                                         *)
(* A depth string is a sequence of depths behind the root's colour.        *)
(*                                                                         *)
(* Two machines: find_fiducialsX, and find_fiducials120.                   *)
(***************************************************************************)
EXTENDS Integers, Sequences, SequencesExt, FiniteSetsExt

CONSTANTS
  Sizes,             \* numbers of regions
  MaxSaturated, MaxTwice,  \* how many may be
  TreeFile,          \* the depth strings of the file, in its order
  FUZZY_NODE_RANGE,
  None

VARIABLES
  parent, border, colour,  \* the regions: colour is that of region 1
  saturated, twice,
  ft,                      \* fields of the regions and root_regions
  next,                    \* the loop of find_roots
  found                    \* region -> id of the fiducials reported

tree == <<parent, border, colour, saturated, twice>>
tracker_vars == <<tree, ft, next, found>>

Regions == DOMAIN parent
Children(r) == {c \in Regions : parent[c] = r}
Touching(r) == Children(r) \cup ({parent[r]} \ {0})

\* adjacent_regions is a list: what it holds and how often.
Adjacent(r) == IF r \in saturated THEN {} ELSE Touching(r) \ saturated
Times(r, a) == IF (IF parent[a] = r THEN a ELSE r) \in twice THEN 2 ELSE 1
Entries(r, set) == FoldSet(LAMBDA a, n : n + Times(r, a), 0, set)
adjacent_region_count(r) == Entries(r, Adjacent(r))

\* A region that lost a neighbour to its saturation.
fragmented == {r \in Regions : Touching(r) \cap saturated # {}}

RECURSIVE Level(_)
Level(r) == IF parent[r] = 0 THEN 0 ELSE 1 + Level(parent[r])

Colour(r) == IF (Level(r) + Level(1)) % 2 = 0 THEN colour
             ELSE CHOOSE c \in {"w", "b"} : c # colour
-----------------------------------------------------------------------------
(* TreeIdMapImplementation: ids count the lines; the bounds of the trees.  *)
Body(k) == Tail(TreeFile[k])
NodeCounts == {Len(Body(k)) : k \in DOMAIN TreeFile}
Depths == {Max({Body(k)[j] : j \in DOMAIN Body(k)}) : k \in DOMAIN TreeFile}

treestring_to_id(string) ==
  LET hits == {k \in DOMAIN TreeFile : TreeFile[k] = string}
  IN IF hits = {} THEN None ELSE Min(hits) - 1

\* initialize_fidtrackerX
min_count == Min(NodeCounts) - 1
max_count == Max(NodeCounts) - 1
min_range == Max({min_count - FUZZY_NODE_RANGE, 3})
max_range == max_count + FUZZY_NODE_RANGE
min_depth == Min(Depths)
max_depth == Max(Depths)
-----------------------------------------------------------------------------
InitRegions ==
  [level |-> [r \in Regions |-> "not traversed"], depth |-> [r \in Regions |-> 0],
   visited |-> [r \in Regions |-> 0], descendents |-> [r \in Regions |-> 32767],
   lost |-> {}, roots |-> <<>>, failed |-> FALSE]

RECURSIVE Propagate(_, _)
\* Whether the parent, counting r, has seen all its children.
Goes(t, r, up) ==
  /\ up \notin saturated
  /\ t.visited[up] + 1 = adjacent_region_count(up)
                           - (IF up \in border \cup fragmented THEN 0 ELSE 1)

\* propagate_descendent_count_and_max_depth_upwards; failed is an assertion:
\* r was visited before, or has more than one neighbour left to visit.
Propagate(t, r) ==
  LET below == {a \in Adjacent(r) : t.level[a] = "traversed"}
      count == FoldSet(LAMBDA a, n : n + Times(r, a) * (t.descendents[a] + 1), 0, below)
      depth == Max({0} \cup {t.depth[a] + 1 : a \in below})
      fits == depth >= min_depth /\ depth <= max_depth
      target == fits /\ count >= min_count /\ count <= max_count
      lost == fits /\ ~target /\ count >= min_range /\ count < max_range
      u == [t EXCEPT !.level[r] = "traversed", !.descendents[r] = count, !.depth[r] = depth,
                     !.failed = \/ @ \/ t.level[r] # "not traversed"
                                \/ Entries(r, Adjacent(r) \ below) > 1,
                     !.lost = IF lost THEN @ \cup {r} ELSE @,
                     !.roots = IF target \/ lost THEN Append(@, r) ELSE @]
      ups == Adjacent(r) \ below
  IN IF (target /\ count = max_count) \/ ups = {} \/ r \in border \cup saturated THEN u
     ELSE LET up == CHOOSE a \in ups : TRUE
              v == [u EXCEPT !.visited[up] = @ + 1]
          IN IF count < max_count /\ depth < max_depth /\ Goes(u, r, up)
             THEN Propagate(v, up) ELSE v

\* find_roots, one region a step.
find_roots ==
  /\ next \in Regions
  /\ next' = next + 1
  /\ ft' = IF adjacent_region_count(next) = 1
                /\ next \notin border \cup saturated \cup fragmented
           THEN Propagate(ft, next) ELSE ft
  /\ UNCHANGED <<tree, found>>

Below(r) == IF adjacent_region_count(r) = 1 THEN {}
            ELSE {a \in Adjacent(r) : ft.level[a] = "traversed"
                                        /\ ft.descendents[a] < ft.descendents[r]}

\* strcmp of depth strings.
Greater(a, b) ==
  \E k \in 1..Len(a) : /\ \A j \in 1..(k - 1) : j <= Len(b) /\ a[j] = b[j]
                       /\ k > Len(b) \/ a[k] > b[k]

RECURSIVE DepthString(_, _)
\* build_left_heavy_depth_string with set_depth: depth counts from the root.
\* A string that was put in is cleared: a child listed twice is put in once.
DepthString(r, depth) ==
  LET kids == SetToSeq(Below(r))
      strings == [k \in DOMAIN kids |-> DepthString(kids[k], depth + 1)]
  IN <<depth>> \o FlattenSeq(SortSeq(strings, Greater))

RECURSIVE Leaves(_)
\* sum_leaf_centers: the leaves whose centers give position and angle.
Leaves(r) == IF adjacent_region_count(r) = 1 THEN {r} ELSE UNION {Leaves(a) : a \in Below(r)}

\* find_fiducialsX with compute_fiducial_statistics.
find_fiducialsX ==
  /\ next = Cardinality(Regions) + 1 /\ found = None
  /\ found' = [r \in {ft.roots[k] : k \in DOMAIN ft.roots} |->
                 [id |-> IF r \in ft.lost THEN None
                         ELSE treestring_to_id(<<Colour(r)>> \o DepthString(r, 0)),
                  leaves |-> Leaves(r)]]
  /\ UNCHANGED <<tree, ft, next>>

IsTree(p) ==
  LET n == Cardinality(DOMAIN p)
      up[k \in 0..n, r \in 0..n] == IF k = 0 THEN r ELSE IF r = 0 THEN 0 ELSE up[k - 1, p[r]]
  IN Cardinality({r \in DOMAIN p : p[r] = 0}) = 1 /\ \A r \in DOMAIN p : up[n, r] = 0

TrackerInit ==
         /\ \E n \in Sizes : parent \in {p \in [1..n -> 0..n] : IsTree(p)}
         /\ border \in {b \in SUBSET Regions :
                          /\ \E r \in b : parent[r] = 0
                          /\ \A r \in b : parent[r] \in b \cup {0}
                          /\ Cardinality(b) <= 2}
         /\ colour \in {"w", "b"}
         /\ saturated \in {set \in SUBSET Regions : Cardinality(set) <= MaxSaturated}
         /\ twice \in {set \in SUBSET {r \in Regions : parent[r] # 0} :
                          Cardinality(set) <= MaxTwice}
         \* With damage, one numbering of each tree.
         /\ \/ saturated \cup twice = {}
            \/ /\ saturated = {} \/ twice = {}
               /\ \A r \in Regions : parent[r] < r
         /\ ft = InitRegions /\ next = 1 /\ found = None

TrackerNext == find_roots \/ find_fiducialsX

TrackerSpec == TrackerInit /\ [][TrackerNext]_tracker_vars
-----------------------------------------------------------------------------
RECURSIVE Subtree(_), Height(_), Same(_, _, _)
Subtree(r) == {r} \cup UNION {Subtree(c) : c \in Children(r)}
Height(r) == Max({0} \cup {Height(c) + 1 : c \in Children(r)})

\* The tree a depth string writes down: the children of its k-th node.
Listed(string, k) ==
  {j \in (k + 1)..Len(string) :
     /\ string[j] = string[k] + 1
     /\ \A l \in (k + 1)..(j - 1) : string[l] > string[k]}

\* Whether the subtree of r has the shape of the string's node k.
Same(r, string, k) ==
  LET kids == Children(r)
      nodes == Listed(string, k)
  IN /\ Cardinality(kids) = Cardinality(nodes)
     /\ \E f \in [kids -> nodes] :
          /\ \A a, b \in kids : a # b => f[a] # f[b]
          /\ \A a \in kids : Same(a, string, f[a])

\* No region of r's tree lost a neighbour or lists one twice.
Whole(r) == Subtree(r) \cap (saturated \cup fragmented \cup twice) = {}

(* Fiducials are found and told apart by their trees alone: however the    *)
(* regions are numbered and ordered, a region inside the image is reported *)
(* with id k if and only if the tree of the regions in it has the shape    *)
(* and the root colour of line k of the tree file, no region is reported   *)
(* twice, and the position is that of all leaves in the tree.  Regions are *)
(* visited from the leaves up, a parent when the last of its children has  *)
(* been.  The exception are trees with a saturated or fragmented region    *)
(* or a neighbour listed twice (segment.cpp:293-299).  Those of the last   *)
(* kind go unreported, as do trees above a saturated or fragmented region; *)
(* a fragmented region itself may be reported, with what is left of its    *)
(* tree.  The assertions hold in every case.                               *)
SymbolsGetTheirId ==
  found # None =>
    /\ ~ft.failed /\ IsInjective(ft.roots)
    /\ \A r \in DOMAIN found : Whole(r) \/ (r \in fragmented /\ r \notin saturated)
    /\ \A r \in {r \in Regions \ border : Whole(r)} :
         /\ \A k \in DOMAIN TreeFile :
              (/\ TreeFile[k][1] = Colour(r)
               /\ \A j \in 1..(k - 1) : TreeFile[j] # TreeFile[k]
               /\ Same(r, Body(k), 1))
              <=> (r \in DOMAIN found /\ found[r].id = k - 1)
         /\ r \in DOMAIN found =>
              found[r].leaves = {l \in Subtree(r) : Children(l) = {}}
-----------------------------------------------------------------------------
(***************************************************************************)
(* find_fiducials120 of libfidtrack: symbols of six white containers, two  *)
(* lines of three, with one to six black dots each.  The topology search   *)
(* finds them bottom up; the geometry of the containers says in which      *)
(* order to read the dots, and the order is the id.                        *)
(*                                                                         *)
(* A symbol is the sequence of its dots minus one, read from the corner    *)
(* with a single dot along its line and back along the other.  It lies on  *)
(* a white ground in any of four turns, with its containers in any         *)
(* rotation of the list of the root's adjacent regions, and some black     *)
(* specks beside it on the ground.                                         *)
(***************************************************************************)

CONSTANTS symbol_count, Turns, Specks  

VARIABLES symbol, place, first, specks, id

six_vars == <<symbol, place, first, specks, id>>

Slots == 1..symbol_count

Symbols == {f \in [Slots -> 0..(symbol_count - 1)] : f[1] = 0 /\ IsInjective(f)}

\* Centers of the containers, in slots 1 to 6 around the symbol, turned.
RECURSIVE Turned(_, _)
Turned(p, n) == IF n = 0 THEN p ELSE Turned([x |-> -p.y, y |-> p.x], n - 1)
Layout(turn) == [k \in Slots |-> Turned(IF k <= 3 THEN [x |-> 10 * (k - 1), y |-> 0]
                                         ELSE [x |-> 10 * (6 - k), y |-> 7], turn)]
-----------------------------------------------------------------------------
(* topologysearch: regions are the ground, the root, its containers; the   *)
(* dots and specks are black leaves.                                       *)
Ground == 0
Root == symbol_count + 1

AdjacentCount(r) ==
  CASE r = Ground -> 1 + specks
    [] r = Root -> 1 + symbol_count
    [] OTHER -> 1 + (symbol[r] + 1)

\* find_black_leaf_container_regions: white regions with dots and one
\* other neighbour.  The ground's other neighbour is the root.
IsContainer(r) ==
  /\ r # Root /\ AdjacentCount(r) >= 2
  /\ AdjacentCount(r) <= symbol_count + 1

\* find_root_regions
RootIsFound ==
  LET others == {r \in {Ground} : ~IsContainer(r)}
  IN /\ \A r \in Slots : IsContainer(r)
     /\ \/ AdjacentCount(Root) = symbol_count /\ others = {}
        \/ AdjacentCount(Root) = symbol_count + 1 /\ Cardinality(others) = 1
-----------------------------------------------------------------------------
(* fidtrack120.                                                            *)
squared_distance(a, b) ==
  (place[a].x - place[b].x) * (place[a].x - place[b].x)
    + (place[a].y - place[b].y) * (place[a].y - place[b].y)

\* The first triple of the list with the least ratio of the squared sides.
find_straightest_line_of_3(points) ==
  LET triples == {t \in (1..Len(points)) \X (1..Len(points)) \X (1..Len(points)) :
                    t[1] # t[2] /\ t[2] # t[3] /\ t[1] # t[3]}
      num == [t \in triples |-> squared_distance(points[t[1]], points[t[2]])
                                  + squared_distance(points[t[2]], points[t[3]])]
      den == [t \in triples |-> squared_distance(points[t[1]], points[t[3]])]
      before(t, u) == \/ t[1] < u[1]
                      \/ t[1] = u[1] /\ (t[2] < u[2] \/ (t[2] = u[2] /\ t[3] < u[3]))
      best == {t \in triples : \A u \in triples : num[t] * den[u] <= num[u] * den[t]}
      t == CHOOSE t \in best : \A u \in best \ {t} : before(t, u)
  IN <<points[t[1]], points[t[2]], points[t[3]]>>

intersects(A, B, C, D) ==
  LET ABx == place[B].x - place[A].x
      ABy == place[B].y - place[A].y
      CDx == place[D].x - place[C].x
      CDy == place[D].y - place[C].y
      a == CDx * ABy - CDy * ABx
      b == (place[C].y - place[A].y) * ABx + (place[A].x - place[C].x) * ABy
  IN /\ a # 0
     /\ IF a > 0 THEN 0 <= b /\ b <= a ELSE a <= b /\ b <= 0

has_all_symbols_once(sequence) ==
  IsInjective(sequence) /\ Range(sequence) \subseteq 0..(Len(sequence) - 1)

factorial[n \in Nat] == IF n = 0 THEN 1 ELSE n * factorial[n - 1]

\* mapping[v] has been decremented once for each smaller value before.
fiducial120_id_from_symbol_sequence(sequence) ==
  LET s == Tail(sequence)
      mapping(k) == s[k] - 1 - Cardinality({j \in 1..(k - 1) : s[j] < s[k]})
  IN FoldSet(LAMBDA k, n : n + mapping(k) * factorial[Len(s) - k], 0, 1..Len(s))

\* Faulty: the second line is read as it was found.
SecondLine_AsFound(one, two) == two

\* Reads on from the end of the first line.
SecondLine(one, two) ==
  IF intersects(one[1], two[3], two[1], one[3]) THEN Reverse(two) ELSE two

\* compute_location_angle_and_id_for_6_symbol_fiducial: the id from the two
\* lines, begun at the container with one dot.
IdOf(line1, line2) ==
  LET startsWithOne(line) == AdjacentCount(line[1]) = 2
      one == CASE startsWithOne(line1) -> line1
               [] startsWithOne(Reverse(line1)) -> Reverse(line1)
               [] startsWithOne(Reverse(line2)) -> Reverse(line2)
               [] OTHER -> line2
      two == IF Range(one) = Range(line1) THEN line2 ELSE line1
      read == one \o SecondLine(one, two)
      sequence == <<AdjacentCount(read[1]) - 2, AdjacentCount(read[2]) - 2,
                    AdjacentCount(read[3]) - 2, AdjacentCount(read[4]) - 2,
                    AdjacentCount(read[5]) - 2, AdjacentCount(read[6]) - 2>>
  IN IF sequence[1] = 0 /\ has_all_symbols_once(sequence)
     THEN fiducial120_id_from_symbol_sequence(sequence) ELSE -1

find_fiducials120 ==
  /\ id = None
  /\ IF ~RootIsFound THEN id' = -1
     ELSE \E points \in {[k \in Slots |-> ((first + k) % symbol_count) + 1]} :
          \E line1 \in {find_straightest_line_of_3(points)} :
          \E rest \in {SelectSeq(points, LAMBDA p : p \notin Range(line1))} :
          \E line2 \in {find_straightest_line_of_3(rest)} :
            id' = IdOf(line1, line2)
  /\ UNCHANGED <<symbol, place, first, specks>>

SixInit ==
     /\ symbol \in Symbols /\ place \in {Layout(turn) : turn \in Turns} /\ first \in Slots /\ specks \in Specks
     /\ id = None

SixNext == find_fiducials120

SixSpec == SixInit /\ [][SixNext]_six_vars
-----------------------------------------------------------------------------
\* Symbols that come before this one in the order of their sequences.
Smaller == {f \in Symbols : \E k \in Slots : f[k] < symbol[k] /\ \A j \in 1..(k - 1) : f[j] = symbol[j]}

(* The id of a six container symbol is its rank among the 120, whichever   *)
(* way it lies in the image and in whatever order the segmenter listed its *)
(* containers: the lines are found, begun and joined at the right ends.    *)
(* The exception is a ground with one to six black specks, which the       *)
(* topology search takes for one more container of the symbol.             *)
IdIsItsRank ==
  id # None =>
    id = IF specks \in 1..symbol_count THEN -1 ELSE Cardinality(Smaller)
=============================================================================

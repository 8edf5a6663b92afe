-------------------------- MODULE EventContainers ---------------------------
(***************************************************************************)
(* The trees of libevent's WIN32-Code/tree.h: the red-black tree that      *)
(* win32.c generates to find the event_entry of a socket, and the splay    *)
(* tree the same header defines. Nodes are their keys; the fields of the   *)
(* entries are functions of the node. Code written twice, once per side,   *)
(* is written once with the side as a parameter.                           *)
(*                                                                         *)
(* Three machines: the trees, the heap of the timers, the evbuffer.        *)
(***************************************************************************)
EXTENDS Integers, Sequences, FiniteSetsExt

CONSTANTS Keys,   \* sockets
          Nil     \* NULL

VARIABLES rb,     \* RB_HEAD: rbh_root and the RB_ENTRY fields of every node
          sp,     \* SPLAY_HEAD: sph_root and the SPLAY_ENTRY fields
          held    \* the keys inserted and not removed

tree_vars == <<rb, sp, held>>

Sides == {"l", "r"}
Other(s) == IF s = "l" THEN "r" ELSE "l"
SideOf(a, b) == IF a < b THEN "l" ELSE "r"      \* (cmp)(a, b) < 0, > 0
Fields == [s \in Sides |-> [k \in Keys |-> Nil]]

----------------------------------------------------------------------------
\* Red-black tree: ch is rbe_left and rbe_right, up rbe_parent, red rbe_color.
RB_INIT == [root |-> Nil, ch |-> Fields, up |-> [k \in Keys |-> Nil], red |-> {}]

Red(h, k) == k # Nil /\ k \in h.red
SetBlackRed(h, b, r) == [h EXCEPT !.red = (@ \ {b}) \cup {r}]
Blacken(h, k) == [h EXCEPT !.red = @ \ {k}]

\* The parent p (or the head) points to new where it pointed to old.
Replace(h, p, old, new) ==
    IF p = Nil THEN [h EXCEPT !.root = new]
    ELSE [h EXCEPT !.ch[IF h.ch["l"][p] = old THEN "l" ELSE "r"][p] = new]

\* RB_ROTATE_LEFT (s = "l") and RB_ROTATE_RIGHT (s = "r") at elm.
RB_ROTATE(h, elm, s) ==
    LET o == Other(s)
        tmp == h.ch[o][elm]
        mid == h.ch[s][tmp]
        h1 == [h EXCEPT !.ch[o][elm] = mid,
                        !.up = IF mid # Nil THEN [@ EXCEPT ![mid] = elm] ELSE @]
        h2 == Replace([h1 EXCEPT !.up[tmp] = h.up[elm]], h.up[elm], elm, tmp)
    IN  [h2 EXCEPT !.ch[s][tmp] = elm, !.up[elm] = tmp]

RECURSIVE RB_INSERT_COLOR(_, _)
RB_INSERT_COLOR(h, elm) ==
    LET p == h.up[elm] IN
    IF ~Red(h, p) THEN Blacken(h, h.root)
    ELSE LET g == h.up[p]
             s == IF h.ch["l"][g] = p THEN "l" ELSE "r"
             uncle == h.ch[Other(s)][g]
             inner == h.ch[Other(s)][p] = elm
             h1 == IF inner THEN RB_ROTATE(h, p, s) ELSE h
             top == IF inner THEN elm ELSE p
         IN  IF Red(h, uncle)
             THEN RB_INSERT_COLOR(SetBlackRed(Blacken(h, uncle), p, g), g)
             ELSE RB_INSERT_COLOR(RB_ROTATE(SetBlackRed(h1, top, g), g, Other(s)),
                                  IF inner THEN p ELSE elm)

\* elm (perhaps NULL) below parent lacks one black node.
RECURSIVE RB_REMOVE_COLOR(_, _, _)
RB_REMOVE_COLOR(h, parent, elm) ==
    IF Red(h, elm) \/ elm = h.root THEN IF elm = Nil THEN h ELSE Blacken(h, elm)
    ELSE LET s == IF h.ch["l"][parent] = elm THEN "l" ELSE "r"
             o == Other(s)
             t0 == h.ch[o][parent]
             h1 == IF Red(h, t0) THEN RB_ROTATE(SetBlackRed(h, t0, parent), parent, s) ELSE h
             tmp == h1.ch[o][parent]
             near == h1.ch[s][tmp]
             far == h1.ch[o][tmp]
             h2 == IF Red(h1, far) THEN h1
                   ELSE RB_ROTATE([h1 EXCEPT !.red = (@ \ {near}) \cup {tmp}], tmp, o)
             t2 == h2.ch[o][parent]
             h3 == [h2 EXCEPT !.red = (IF Red(h2, parent) THEN @ \cup {t2} ELSE @ \ {t2})
                                          \ {parent, h2.ch[o][t2]}]
             h4 == RB_ROTATE(h3, parent, s)
         IN  IF ~Red(h1, near) /\ ~Red(h1, far)
             THEN RB_REMOVE_COLOR([h1 EXCEPT !.red = @ \cup {tmp}], h1.up[parent], parent)
             ELSE Blacken(h4, h4.root)

RECURSIVE Leftmost(_, _)
Leftmost(h, k) == IF h.ch["l"][k] = Nil THEN k ELSE Leftmost(h, h.ch["l"][k])

\* An element with two children gives its place to its successor.
RB_REMOVE(h, old) ==
    LET two == h.ch["l"][old] # Nil /\ h.ch["r"][old] # Nil
        elm == IF two THEN Leftmost(h, h.ch["r"][old]) ELSE old
        child == IF h.ch["l"][elm] = Nil THEN h.ch["r"][elm] ELSE h.ch["l"][elm]
        black == ~Red(h, elm)
        h1 == Replace([h EXCEPT !.up = IF child # Nil THEN [@ EXCEPT ![child] = h.up[elm]] ELSE @],
                      h.up[elm], elm, child)
        parent == IF two /\ h.up[elm] = old THEN elm ELSE h.up[elm]
        h2 == [h1 EXCEPT !.ch["l"][elm] = h1.ch["l"][old], !.ch["r"][elm] = h1.ch["r"][old],
                         !.up[elm] = h1.up[old],
                         !.red = IF Red(h1, old) THEN @ \cup {elm} ELSE @ \ {elm}]
        h3 == Replace(h2, h2.up[old], old, elm)
        h4 == [h3 EXCEPT !.up = [k \in Keys |-> IF k \in {h3.ch["l"][old], h3.ch["r"][old]} THEN elm ELSE @[k]]]
        out == IF two THEN h4 ELSE h1
        done == IF black THEN RB_REMOVE_COLOR(out, parent, child) ELSE out
    IN  \* the fields of a node that is out of the tree are not read again
        [done EXCEPT !.ch["l"][old] = Nil, !.ch["r"][old] = Nil, !.up[old] = Nil, !.red = @ \ {old}]

RECURSIVE Descend(_, _, _)
Descend(h, k, at) ==      \* the node with key k, or the last one on the way to it
    IF at = k \/ h.ch[SideOf(k, at)][at] = Nil THEN at ELSE Descend(h, k, h.ch[SideOf(k, at)][at])

RB_FIND(h, k) == IF h.root # Nil /\ Descend(h, k, h.root) = k THEN k ELSE Nil

RB_INSERT(h, k) ==
    LET p == IF h.root = Nil THEN Nil ELSE Descend(h, k, h.root)
        h1 == [h EXCEPT !.ch["l"][k] = Nil, !.ch["r"][k] = Nil, !.up[k] = p, !.red = @ \cup {k}]
    IN  IF p = k THEN h
        ELSE RB_INSERT_COLOR(IF p = Nil THEN [h1 EXCEPT !.root = k]
                                        ELSE [h1 EXCEPT !.ch[SideOf(k, p)][p] = k], k)

\* The in-order successor, through the parent pointers.
RECURSIVE ClimbFrom(_, _, _)
ClimbFrom(h, k, s) ==
    IF h.up[k] = Nil THEN Nil
    ELSE IF h.ch[Other(s)][h.up[k]] = k THEN h.up[k] ELSE ClimbFrom(h, h.up[k], s)
RB_NEXT(h, k) == IF h.ch["r"][k] # Nil THEN Leftmost(h, h.ch["r"][k]) ELSE ClimbFrom(h, k, "r")

----------------------------------------------------------------------------
\* Splay tree. The entry of Nil is the local __node of a splay: the tree of
\* the smaller elements grows on its right, the tree of the larger on its left.
SPLAY_INIT == [root |-> Nil, ch |-> [s \in Sides |-> [k \in Keys \cup {Nil} |-> Nil]]]

\* SPLAY_ROTATE_RIGHT (s = "l") and SPLAY_ROTATE_LEFT (s = "r").
SPLAY_ROTATE(h, tmp, s) ==
    [root |-> tmp,
     ch |-> [h.ch EXCEPT ![s][h.root] = h.ch[Other(s)][tmp], ![Other(s)][tmp] = h.root]]

\* SPLAY_ASSEMBLE with end["l"] = __left and end["r"] = __right.
SPLAY_ASSEMBLE(h, end) ==
    LET a == [h EXCEPT !.ch["r"][end["l"]] = h.ch["l"][h.root]]
        b == [a EXCEPT !.ch["l"][end["r"]] = h.ch["r"][h.root]]
    IN  [b EXCEPT !.ch["l"][h.root] = b.ch["r"][Nil], !.ch["r"][h.root] = b.ch["l"][Nil],
                  !.ch["l"][Nil] = Nil, !.ch["r"][Nil] = Nil]

RECURSIVE SplayLoop(_, _, _)
SplayLoop(h, k, end) ==
    LET s == SideOf(k, h.root)
        o == Other(s)
        tmp == h.ch[s][h.root]
        zig == tmp # Nil /\ tmp # k /\ SideOf(k, tmp) = s
        h1 == IF zig THEN SPLAY_ROTATE(h, tmp, s) ELSE h
        link == [h1 EXCEPT !.ch[s][end[o]] = h1.root, !.root = h1.ch[s][h1.root]]
    IN  IF k = h.root \/ tmp = Nil THEN SPLAY_ASSEMBLE(h, end)
        ELSE IF zig /\ h1.ch[s][tmp] = Nil THEN SPLAY_ASSEMBLE(h1, end)
        ELSE SplayLoop(link, k, [end EXCEPT ![o] = h1.root])

\* name_SPLAY, and name_SPLAY_MINMAX with a key below or above all others.
SPLAY(h, k) == SplayLoop(h, k, [s \in Sides |-> Nil])

SPLAY_INSERT(h, k) ==
    IF h.root = Nil THEN [h EXCEPT !.root = k, !.ch["l"][k] = Nil, !.ch["r"][k] = Nil]
    ELSE LET a == SPLAY(h, k)
             s == SideOf(k, a.root)
         IN  IF a.root = k THEN a
             ELSE [root |-> k, ch |-> [a.ch EXCEPT ![s][k] = a.ch[s][a.root], ![Other(s)][k] = a.root,
                                                   ![s][a.root] = Nil]]

SPLAY_REMOVE(h, k) ==
    IF h.root = Nil THEN h
    ELSE LET a == SPLAY(h, k)
             l == a.ch["l"][k]
             r == a.ch["r"][k]
             b == SPLAY([a EXCEPT !.root = l], k)
             out == IF l = Nil THEN [a EXCEPT !.root = r] ELSE [b EXCEPT !.ch["r"][b.root] = r]
         IN  IF a.root # k THEN a ELSE [out EXCEPT !.ch["l"][k] = Nil, !.ch["r"][k] = Nil]

SPLAY_FIND(h, k) == IF h.root = Nil THEN h ELSE SPLAY(h, k)

----------------------------------------------------------------------------
TreeInit == rb = RB_INIT /\ sp = SPLAY_INIT /\ held = {}

Insert(k) == rb' = RB_INSERT(rb, k) /\ sp' = SPLAY_INSERT(sp, k) /\ held' = held \cup {k}

Remove(k) ==
    /\ k \in held      \* win32_del removes an entry it has just found
    /\ rb' = RB_REMOVE(rb, k) /\ sp' = SPLAY_REMOVE(sp, k) /\ held' = held \ {k}

\* A search: the splay tree brings the key, or a neighbour of it, to the root.
Find(k) == sp' = SPLAY_FIND(sp, k) /\ UNCHANGED <<rb, held>>

TreeNext == \E k \in Keys : Insert(k) \/ Remove(k) \/ Find(k)

TreeSpec == TreeInit /\ [][TreeNext]_tree_vars

----------------------------------------------------------------------------
RECURSIVE Below(_, _), Ordered(_, _), BlackHeight(_, _)
Below(h, k) == IF k = Nil THEN {} ELSE {k} \cup UNION {Below(h, h.ch[s][k]) : s \in Sides}
Ordered(h, k) ==
    k = Nil \/ /\ \A x \in Below(h, h.ch["l"][k]) : x < k
               /\ \A x \in Below(h, h.ch["r"][k]) : x > k
               /\ Ordered(h, h.ch["l"][k]) /\ Ordered(h, h.ch["r"][k])

\* The black nodes on every path below k, or 99 when two paths differ.
BlackHeight(h, k) ==
    IF k = Nil THEN 1
    ELSE LET l == BlackHeight(h, h.ch["l"][k])
             r == BlackHeight(h, h.ch["r"][k])
         IN  IF l = r /\ l # 99 THEN l + (IF Red(h, k) THEN 0 ELSE 1) ELSE 99

(***************************************************************************)
(* The conditions tree.h states for its red-black tree: every search path  *)
(* has the same number of black nodes and a red node has a black parent;   *)
(* and what the code relies on: parent pointers are the inverse of the     *)
(* child pointers and NULL at the root.                                    *)
(***************************************************************************)
IsRedBlack ==
    /\ BlackHeight(rb, rb.root) # 99
    /\ \A k \in held : Red(rb, k) => k # rb.root /\ ~Red(rb, rb.up[k])
    /\ \A k \in held : IF k = rb.root THEN rb.up[k] = Nil
                       ELSE \E s \in Sides : rb.ch[s][rb.up[k]] = k

(***************************************************************************)
(* After any sequence of insertions, removals and searches both trees hold *)
(* exactly the keys put in and not taken out, in search order; RB_FIND     *)
(* finds exactly those and RB_NEXT walks them in order.                    *)
(***************************************************************************)
TreesHoldTheKeys ==
    /\ \A h \in {rb, sp} : Below(h, h.root) = held /\ Ordered(h, h.root)
    /\ \A k \in Keys : RB_FIND(rb, k) = IF k \in held THEN k ELSE Nil
    /\ \A k \in held : LET up == {x \in held : x > k}
                       IN  RB_NEXT(rb, k) = IF up = {} THEN Nil
                                            ELSE CHOOSE x \in up : \A y \in up : x <= y
-----------------------------------------------------------------------------
(***************************************************************************)
(* min_heap.h: the heap of libevent's timers, an array of events in which  *)
(* every event knows its index.  The array counts from 0; s is the record  *)
(* of the array p, its length n and the min_heap_idx of every event.       *)
(***************************************************************************)

CONSTANTS Timers, Times, None

VARIABLES heap, ev_timeout

heap_vars == <<heap, ev_timeout>>

min_heap_ctor ==
  [n |-> 0, p |-> [i \in 0..Cardinality(Timers) |-> None],
   min_heap_idx |-> [e \in Timers |-> -1]]

HeapInit ==
      /\ heap = min_heap_ctor
      /\ ev_timeout \in [Timers -> Times]

min_heap_elem_greater(a, b) == ev_timeout[a] > ev_timeout[b]

\* p[hole] = e, and e knows.
PutAt(h, hole, e) == [h EXCEPT !.p[hole] = e, !.min_heap_idx[e] = hole]

RECURSIVE min_heap_shift_up_(_, _, _)
min_heap_shift_up_(h, hole, e) ==
  LET parent == (hole - 1) \div 2 IN
  IF hole > 0 /\ min_heap_elem_greater(h.p[parent], e)
  THEN min_heap_shift_up_(PutAt(h, hole, h.p[parent]), parent, e)
  ELSE PutAt(h, hole, e)

RECURSIVE min_heap_shift_down_(_, _, _)
min_heap_shift_down_(h, hole, e) ==
  LET right == 2 * (hole + 1)
      min_child == IF right = h.n \/ min_heap_elem_greater(h.p[right], h.p[right - 1])
                   THEN right - 1 ELSE right
  IN IF right <= h.n /\ min_heap_elem_greater(e, h.p[min_child])
     THEN min_heap_shift_down_(PutAt(h, hole, h.p[min_child]), min_child, e)
     ELSE min_heap_shift_up_(h, hole, e)

\* What is left past the end of the array is never read.
Cut(h, e) == [h EXCEPT !.p[h.n] = None, !.min_heap_idx[e] = -1]

min_heap_push(e) ==
  /\ heap.min_heap_idx[e] = -1
  /\ heap' = min_heap_shift_up_([heap EXCEPT !.n = @ + 1], heap.n, e)
  /\ UNCHANGED ev_timeout

min_heap_pop ==
  /\ heap.n > 0
  /\ LET h == [heap EXCEPT !.n = @ - 1] IN
     heap' = Cut(min_heap_shift_down_(h, 0, h.p[h.n]), heap.p[0])
  /\ UNCHANGED ev_timeout

\* Faulty: the last event only moves down from the place of the erased one.
min_heap_erase_OnlyDown(e) ==
  /\ heap.min_heap_idx[e] # -1
  /\ LET h == [heap EXCEPT !.n = @ - 1]
         i == heap.min_heap_idx[e]
         last == h.p[h.n]
         right == 2 * (i + 1)
     IN heap' = IF right <= h.n THEN Cut(min_heap_shift_down_(h, i, last), e)
                ELSE Cut(PutAt(h, i, last), e)
  /\ UNCHANGED ev_timeout

min_heap_erase(e) ==
  /\ heap.min_heap_idx[e] # -1
  /\ LET h == [heap EXCEPT !.n = @ - 1]
         i == heap.min_heap_idx[e]
         last == h.p[h.n]
     IN heap' = IF i > 0 /\ min_heap_elem_greater(h.p[(i - 1) \div 2], last)
                THEN Cut(min_heap_shift_up_(h, i, last), e)
                ELSE Cut(min_heap_shift_down_(h, i, last), e)
  /\ UNCHANGED ev_timeout

\* An event that is not in the heap gets another timeout.
SetTimeout(e) ==
  /\ heap.min_heap_idx[e] = -1
  /\ \E t \in Times : ev_timeout' = [ev_timeout EXCEPT ![e] = t]
  /\ UNCHANGED heap

HeapNext ==
      \/ min_heap_pop
      \/ \E e \in Timers : min_heap_push(e) \/ min_heap_erase(e) \/ SetTimeout(e)

HeapSpec == HeapInit /\ [][HeapNext]_heap_vars
-----------------------------------------------------------------------------
(* Properties.                                                             *)

\* No event is due before its parent, the index an event keeps is where it is,
\* and the array is dense: min_heap_top is a timer that is due first, after any
\* order of insertions and of erasures from the middle.
IsMinHeap ==
  /\ \A i \in 1..heap.n - 1 :
       ev_timeout[heap.p[(i - 1) \div 2]] <= ev_timeout[heap.p[i]]
  /\ \A i \in 0..heap.n - 1 : heap.p[i] \in Timers /\ heap.min_heap_idx[heap.p[i]] = i
  /\ Cardinality({e \in Timers : heap.min_heap_idx[e] # -1}) = heap.n
-----------------------------------------------------------------------------
(***************************************************************************)
(* libevent's evbuffer (buffer.c): a queue of bytes kept in one block of   *)
(* memory.  Draining moves the start of the data forward (misalign),       *)
(* adding first slides the data back or moves it to a larger block.  A     *)
(* callback is told of every change of the length.                         *)
(*                                                                         *)
(* A buffer is its block mem (Len(mem) is totallen), misalign, off, and    *)
(* told, the length its callback heard of last.  Allocation may fail.      *)
(***************************************************************************)

CONSTANTS
  Bytes,              \* the plain bytes of the model
  CR, LF,             \* '\r' and '\n'
  Garbage,            \* what a block holds before it is written
  MinLength,          \* 256 in evbuffer_expand
  PrintSpace,         \* 64 in evbuffer_add_vprintf
  EVBUFFER_MAX_READ,
  MaxAdd,             \* bound on the bytes one call adds
  MaxHeld             \* bound on the bytes both buffers hold

Chars == Bytes \cup {CR, LF}
Buffers == {"in", "out"}
Texts(chars) == UNION {[1..n -> chars] : n \in 0..MaxAdd}

VARIABLES
  buf,    \* the two buffers
  fifo    \* what each has to hold: the bytes added and not yet drained

buffer_vars == <<buf, fifo>>

evbuffer_new == [mem |-> <<>>, misalign |-> 0, off |-> 0, told |-> 0]

Contents(b) == SubSeq(b.mem, b.misalign + 1, b.misalign + b.off)
Used(b) == b.misalign + b.off
Space(b) == Len(b.mem) - Used(b)

Notify(b) == [b EXCEPT !.told = b.off]

\* memcpy or memmove of data to position p of the block.
Put(mem, p, data) ==
  [i \in DOMAIN mem |-> IF i \in p + 1 .. p + Len(data) THEN data[i - p] ELSE mem[i]]

evbuffer_align(b) == [b EXCEPT !.mem = Put(b.mem, 0, Contents(b)), !.misalign = 0]

\* realloc keeps the start of the block.
Realloc(mem, length) ==
  [i \in 1..length |-> IF i \in DOMAIN mem THEN mem[i] ELSE Garbage]

\* The first length reached by doubling that is enough.
Doubled(length, need) == Min({n \in {length * 2^k : k \in 0..need} : n >= need})

\* Faulty: the block is enlarged without sliding the data to its start.
evbuffer_expand_Misaligned(b, datlen, works) ==
  LET need == Used(b) + datlen
      least == IF Len(b.mem) < MinLength THEN MinLength ELSE Len(b.mem) IN
  IF Len(b.mem) >= need THEN b
  ELSE IF b.misalign >= datlen THEN evbuffer_align(b)
  ELSE IF ~works THEN b
  ELSE [b EXCEPT !.mem = Realloc(@, Doubled(least, need)), !.misalign = 0]

\* The data is slid back when that makes room, or else the block grows.
evbuffer_expand(b, datlen, works) ==
  LET need == Used(b) + datlen
      least == IF Len(b.mem) < MinLength THEN MinLength ELSE Len(b.mem)
      slid == evbuffer_align(b) IN
  IF Len(b.mem) >= need THEN b
  ELSE IF b.misalign >= datlen \/ ~works THEN slid
  ELSE [slid EXCEPT !.mem = Realloc(@, Doubled(least, need))]

evbuffer_drain(b, len) ==
  Notify(IF len >= b.off THEN [b EXCEPT !.off = 0, !.misalign = 0]
         ELSE [b EXCEPT !.misalign = @ + len, !.off = @ - len])

\* TRUE when the bytes could be appended.
Fits(b, n) == Space(b) >= n

Appended(b, data) ==
  [b EXCEPT !.mem = Put(@, Used(b), data), !.off = @ + Len(data)]

evbuffer_add(b, data, works) ==
  LET e == evbuffer_expand(b, Len(data), works) IN
  IF ~Fits(e, Len(data)) THEN e
  ELSE IF data = <<>> THEN e ELSE Notify(Appended(e, data))

\* vsnprintf writes a zero behind the text; a text that does not fit is cut
\* there and formatted again in a larger block.
evbuffer_add_vprintf(b, text, works) ==
  LET sz == Len(text)
      e == evbuffer_expand(b, PrintSpace, works)
      f == evbuffer_expand(e, sz + 1, works) IN
  IF sz < Space(e) THEN Notify(Appended(e, text))
  ELSE IF sz < Space(f) THEN Notify(Appended(f, text))
  ELSE f

\* The index of the first of the characters, or Len + 1.
FirstOf(s, chars) == Min({i \in DOMAIN s : s[i] \in chars} \cup {Len(s) + 1})

\* The bytes a line takes with its terminator, 0 when there is no whole line.
LineLength(s) ==
  LET i == FirstOf(s, {CR, LF}) IN
  IF i > Len(s) THEN 0
  ELSE IF i < Len(s) /\ s[i + 1] \in {CR, LF} \ {s[i]} THEN i + 1 ELSE i

evbuffer_readline(b) ==
  LET n == LineLength(Contents(b)) IN IF n = 0 THEN b ELSE evbuffer_drain(b, n)

\* Faulty: the search goes on behind the candidate that did not match.
evbuffer_find_Skips(b, what) ==
  LET s == Contents(b)
      search[i \in 1..Len(s) + Len(what) + 1] ==
        LET p == Min({j \in i..Len(s) : s[j] = what[1]} \cup {Len(s) + 1}) IN
        IF p + Len(what) - 1 > Len(s) THEN 0
        ELSE IF SubSeq(s, p, p + Len(what) - 1) = what THEN p
        ELSE search[p + Len(what)] IN
  search[1]

\* The position of the first occurrence, 0 when there is none.
evbuffer_find(b, what) ==
  LET s == Contents(b)
      search[i \in 1..Len(s) + 1] ==
        LET p == Min({j \in i..Len(s) : s[j] = what[1]} \cup {Len(s) + 1}) IN
        IF p + Len(what) - 1 > Len(s) THEN 0
        ELSE IF SubSeq(s, p, p + Len(what) - 1) = what THEN p
        ELSE search[p + 1] IN
  search[1]

\* How much evbuffer_read asks of the descriptor: n is what FIONREAD reports,
\* howmuch is 0 where the caller passes -1.
ReadSize(b, n, howmuch) ==
  LET most == IF n = 0 THEN EVBUFFER_MAX_READ
              ELSE IF n > EVBUFFER_MAX_READ /\ n > howmuch
              THEN Max({EVBUFFER_MAX_READ, Min({n, 4 * Len(b.mem)})})
              ELSE n IN
  IF howmuch = 0 \/ howmuch > most THEN most ELSE howmuch

\* read appends data; read fails or ends when data is empty.
evbuffer_read(b, data, size, works) ==
  LET e == evbuffer_expand(b, size, works) IN
  IF ~Fits(e, size) \/ data = <<>> THEN e ELSE Notify(Appended(e, data))
-----------------------------------------------------------------------------
BufferInit == /\ buf = [x \in Buffers |-> evbuffer_new]
              /\ fifo = [x \in Buffers |-> <<>>]

Held == Len(fifo["in"]) + Len(fifo["out"])

\* Bytes of the block that hold no data of the buffer are not to be relied on.
Stale(b) ==
  [b EXCEPT !.mem = [i \in DOMAIN b.mem |->
     IF i \in b.misalign + 1 .. Used(b) THEN b.mem[i] ELSE Garbage]]

Set(x, b) == buf' = [buf EXCEPT ![x] = Stale(b)]
Hold(x, s) == fifo' = [fifo EXCEPT ![x] = s]

\* The call reports an error when the bytes could not be added.
Added(x, b, data) ==
  /\ Set(x, b)
  /\ Hold(x, IF b.off = buf[x].off THEN fifo[x] ELSE fifo[x] \o data)

Add(x, data, works) ==
  /\ Held + Len(data) <= MaxHeld
  /\ Added(x, evbuffer_add(buf[x], data, works), data)

AddPrintf(x, data, works) ==
  /\ Held + Len(data) <= MaxHeld
  /\ Added(x, evbuffer_add_vprintf(buf[x], data, works), data)

Read(x, data, n, howmuch, works) ==
  LET size == ReadSize(buf[x], n, howmuch) IN
  /\ Held + Len(data) <= MaxHeld
  /\ Len(data) <= size
  /\ Added(x, evbuffer_read(buf[x], data, size, works), data)

\* evbuffer_drain, evbuffer_remove and evbuffer_write take bytes from the front.
Drain(x, n) ==
  /\ Set(x, evbuffer_drain(buf[x], n))
  /\ Hold(x, SubSeq(fifo[x], n + 1, Len(fifo[x])))

Readline(x) ==
  /\ Set(x, evbuffer_readline(buf[x]))
  /\ Hold(x, SubSeq(fifo[x], LineLength(fifo[x]) + 1, Len(fifo[x])))

SwapNotified(old, in, out) ==
  <<IF in.off # old THEN Notify(in) ELSE in, IF old > 0 THEN Notify(out) ELSE out>>

\* evbuffer_add_buffer: into an empty buffer the blocks are swapped (not the
\* callbacks), else the bytes are copied and drained.
AddBuffer(works) ==
  LET i == buf["in"]
      o == buf["out"]
      swapped == SwapNotified(i.off, [o EXCEPT !.told = i.told], [i EXCEPT !.told = o.told])
      added == evbuffer_add(o, Contents(i), works)
      moved == o.off = 0 \/ i.off = 0 \/ added.off > o.off IN
  /\ buf' = IF o.off = 0 THEN [in |-> swapped[1], out |-> swapped[2]]
            ELSE [in |-> IF moved THEN Stale(evbuffer_drain(i, i.off)) ELSE i,
                  out |-> Stale(added)]
  /\ fifo' = IF moved THEN [in |-> <<>>, out |-> fifo["out"] \o fifo["in"]] ELSE fifo

\* The application frees a buffer and takes a new one.
Renew(x) == Set(x, evbuffer_new) /\ Hold(x, <<>>)

BufferNext ==
        \/ \E works \in BOOLEAN :
             \/ \E data \in Texts(Chars) : Add("in", data, works)
             \/ \E data \in Texts(Bytes) : AddPrintf("out", data, works)
             \/ \E data \in Texts(Bytes), n \in 0..MaxHeld, howmuch \in 0..MaxAdd :
                  Read("in", data, n, howmuch, works)
             \/ AddBuffer(works)
        \/ \E x \in Buffers :
             \/ \E n \in 0..Len(fifo[x]) : Drain(x, n)
             \/ Readline(x)
             \/ Renew(x)

BufferSpec == BufferInit /\ [][BufferNext]_buffer_vars
-----------------------------------------------------------------------------
(* Whatever is added, drained, slid, enlarged or swapped, a buffer holds   *)
(* the bytes added to it and not yet drained, in their order, inside its   *)
(* block, and its callback knows their number (buffer.c, all operations).  *)
BufferIsAQueue ==
  \A x \in Buffers : /\ Used(buf[x]) <= Len(buf[x].mem)
                     /\ Contents(buf[x]) = fifo[x]
                     /\ buf[x].told = Len(fifo[x])

(* evbuffer_find returns the first place the bytes occur at, the one that  *)
(* overlaps a false start included.                                        *)
FindsTheFirst ==
  \A x \in Buffers : \A what \in Texts(Chars) \ {<<>>} :
    LET n == Len(what)
        s == fifo[x]
        places == {p \in 1..Len(s) : p + n - 1 <= Len(s) /\ SubSeq(s, p, p + n - 1) = what} IN
    evbuffer_find(buf[x], what) = Min(places \cup (IF places = {} THEN {0} ELSE {}))
=============================================================================

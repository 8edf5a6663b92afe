---------------------------- MODULE PtContainers ----------------------------
(* The string lists of ptypes: _podlist keeps the items in one block of       *)
(* memory that grows and shrinks, _objlist searches it and frees what it      *)
(* owns, _strlist and textmap keep it sorted by key.  An operation that ends  *)
(* in fatal() (a bad index, a duplicate key, an operation a sorted list does  *)
(* not allow) ends the program and is left out by its guard.                  *)
(*                                                                            *)
(* Two machines: the lists, and the variants.                                 *)
EXTENDS Integers, Sequences, SequencesExt, FiniteSets

CONSTANTS
  Configs,   \* the combinations of flags lists are built with
  Keys,      \* the keys, numbers; 2n and 2n+1 differ in case only
  Objects,   \* the objects put into the list, each once
  MaxItems,  \* bound: how many items a list is given
  Garbage,   \* what memory nobody wrote holds
  nil        \* no object

VARIABLES
  config,    \* [sorted, duplicates, casesens, ownslobjects]; textmap is sorted
  mem,       \* the block of memory: Len(mem) is the capacity
  count,     \* how many items are in use
  freed,     \* objects the list freed, with how often
  used,      \* objects the list was given
  want       \* the items the list should hold, in their order

list_vars == <<config, mem, count, freed, used, want>>

capacity == Len(mem)
Item(key, obj) == [key |-> key, obj |-> obj]

(******************************** _podlist ***********************************)
(* Positions are counted from 0, as in the code: m[i + 1] is item i.          *)

(* memrealloc keeps what fits and leaves new memory as it was.                *)
set_capacity(m, newcap) ==
  [i \in 1 .. newcap |-> IF i \in DOMAIN m THEN m[i] ELSE Garbage]

grow_Full(m, n) ==
  IF Len(m) >= n THEN m
  ELSE set_capacity(m, IF Len(m) = 0 THEN 4 ELSE ((Len(m) + 1) \div 2) * 3)
grow(m, n) ==
  IF Len(m) > n THEN m
  ELSE set_capacity(m, IF Len(m) = 0 THEN 4 ELSE ((Len(m) + 1) \div 2) * 3)

(* memmove within a block; a write past its end is lost to the list.          *)
memmove(m, to, from, n) ==
  [i \in DOMAIN m |-> IF i - 1 \in to .. to + n - 1 THEN m[i - to + from] ELSE m[i]]

Store(m, index, item) == [i \in DOMAIN m |-> IF i = index + 1 THEN item ELSE m[i]]

pod_doins(m, n, index, item) ==
  LET g == grow(m, n)
  IN  Store(IF index < n THEN memmove(g, index + 1, index, n - index) ELSE g, index, item)

(* Items past the count are never read again: they are garbage at once.       *)
Forget(m, n) == [i \in DOMAIN m |-> IF i > n THEN Garbage ELSE m[i]]

pod_dodel(m, n, index, delcount) ==
  LET left == n - delcount
  IN  IF index < left THEN Forget(memmove(m, index, index + delcount, left - index), left)
      ELSE IF left = 0 THEN set_capacity(m, 0) ELSE Forget(m, left)

(******************************** _objlist ***********************************)

(* strcmp or strcasecmp: the sign of key minus the item's key.                *)
Fold(key) == IF config.casesens THEN key ELSE key \div 2
compare(key, item) == Fold(key) - Fold(item.key)

(* The binary search, from bounds l and h on.  Without duplicates a hit at i  *)
(* ends it, with l = i; with duplicates it goes on to the first of them.      *)
RECURSIVE Search(_, _, _, _)
Search_AnyHit(key, l, h, ret) ==
  IF l > h THEN [found |-> ret, index |-> l]
  ELSE LET i == (l + h) \div 2
           c == compare(key, mem[i + 1])
       IN  IF c > 0 THEN Search(key, i + 1, h, ret)
           ELSE Search(key, IF c = 0 THEN i ELSE l, i - 1, ret \/ c = 0)
Search(key, l, h, ret) ==
  IF l > h THEN [found |-> ret, index |-> l]
  ELSE LET i == (l + h) \div 2
           c == compare(key, mem[i + 1])
       IN  IF c > 0 THEN Search(key, i + 1, h, ret)
           ELSE IF c < 0 THEN Search(key, l, i - 1, ret)
           ELSE Search(key, IF config.duplicates THEN l ELSE i, i - 1, TRUE)

search(key) == Search(key, 0, count - 1, FALSE)

(******************************** _strlist ***********************************)

(* dofree of the items at the positions: their objects, if the list owns them.*)
dofree(f, positions) ==
  [o \in Objects |-> f[o] + IF config.ownslobjects
                            THEN Cardinality({i \in positions : mem[i + 1].obj = o}) ELSE 0]

doins(index, key, obj) ==
  /\ mem' = pod_doins(mem, count, index, Item(key, obj))
  /\ count' = count + 1
  /\ want' = InsertAt(want, index + 1, Item(key, obj))
  /\ UNCHANGED <<config, freed>>

doput(index, obj) ==
  /\ freed' = dofree(freed, {index})
  /\ mem' = [mem EXCEPT ![index + 1].obj = obj]
  /\ want' = [want EXCEPT ![index + 1].obj = obj]
  /\ UNCHANGED <<config, count>>

Removed(s, index, n) == SubSeq(s, 1, index) \o SubSeq(s, index + n + 1, Len(s))

dodel(index, delcount) ==
  LET n == IF index + delcount > count THEN count - index ELSE delcount
  IN  /\ freed' = dofree(freed, index .. index + n - 1)
      /\ mem' = pod_dodel(mem, count, index, n)
      /\ count' = count - n
      /\ want' = Removed(want, index, n)
      /\ UNCHANGED <<config, used>>

(* put by key: insert, replace, or delete when there is no object.            *)
put(key, obj) ==
  /\ config.sorted /\ ~config.duplicates
  /\ LET s == search(key)
     IN  IF ~s.found THEN obj # nil /\ doins(s.index, key, obj)
         ELSE IF obj = nil THEN dodel(s.index, 1)
         ELSE doput(s.index, obj)

add(key, obj) ==
  /\ config.sorted => (~search(key).found \/ config.duplicates)
  /\ doins(IF config.sorted THEN search(key).index ELSE count, key, obj)

(* ins at a position: on a sorted list the one search() returned, as the      *)
(* manual requires.                                                           *)
ins(key, obj) ==
  \E index \in 0 .. count :
    /\ config.sorted => search(key).index = index /\ (search(key).found => config.duplicates)
    /\ doins(index, key, obj)

(* Replacing key and object: unsorted lists only.                             *)
put_pair(key, obj) ==
  /\ ~config.sorted
  /\ \E index \in 0 .. count - 1 :
       /\ freed' = dofree(freed, {index})
       /\ mem' = [mem EXCEPT ![index + 1] = Item(key, obj)]
       /\ want' = [want EXCEPT ![index + 1] = Item(key, obj)]
  /\ UNCHANGED <<config, count>>

put_at(obj) == \E index \in 0 .. count - 1 : doput(index, obj)

(* Every item leaves from newcount on; an empty list gives its memory back.   *)
set_count(newcount) ==
  /\ newcount < count
  /\ freed' = dofree(freed, newcount .. count - 1)
  /\ mem' = IF newcount = 0 THEN set_capacity(mem, 0) ELSE Forget(mem, newcount)
  /\ count' = newcount
  /\ want' = SubSeq(want, 1, newcount)
  /\ UNCHANGED <<config, used>>

pack ==
  /\ mem' = set_capacity(mem, count)
  /\ UNCHANGED <<config, count, freed, used, want>>

(******************************** The list ***********************************)

ListInit ==
      /\ config \in Configs
      /\ mem = <<>> /\ count = 0
      /\ freed = [o \in Objects |-> 0]
      /\ used = {}
      /\ want = <<>>

(* An object is handed over once: the caller never uses it again.             *)
Give ==
  /\ Cardinality(used) < MaxItems
  /\ LET obj == CHOOSE o \in Objects \ used : TRUE
     IN  /\ \/ \E key \in Keys : put(key, obj) \/ add(key, obj) \/ ins(key, obj)
                                 \/ put_pair(key, obj)
            \/ put_at(obj)
         /\ used' = used \cup {obj}

Take ==
  \/ \E key \in Keys : search(key).found /\ put(key, nil)
  \/ \E index \in 0 .. count - 1, n \in 1 .. 2 : dodel(index, n)
  \/ \E n \in 0 .. 1 : set_count(n)
  \/ pack

ListNext == Give \/ Take

ListSpec == ListInit /\ [][ListNext]_list_vars

(****************************** Properties ***********************************)

Held == {want[i].obj : i \in DOMAIN want}

(* After any sequence of insertions, replacements and removals the block      *)
(* holds exactly the items it was given, in order, wherever growing, moving   *)
(* and giving back memory put them; an owning list has freed each object it   *)
(* no longer holds once and no other.                                         *)
ListHoldsItsItems ==
  /\ count <= capacity
  /\ SubSeq(mem, 1, count) = want
  /\ \A o \in Objects :
       freed[o] = IF config.ownslobjects /\ o \in used \ Held THEN 1 ELSE 0

(* A sorted list stays sorted, and search() finds a key exactly when the list *)
(* has it: at its first item with that key, or where it belongs.              *)
SearchFindsTheFirst ==
  config.sorted =>
    /\ \A i \in 1 .. count - 1 : Fold(want[i].key) <= Fold(want[i + 1].key)
    /\ \A key \in Keys :
         /\ search(key).found = \E i \in 1 .. count : Fold(want[i].key) = Fold(key)
         /\ search(key).index = Cardinality({i \in 1 .. count : Fold(want[i].key) < Fold(key)})
-----------------------------------------------------------------------------
(* The variants of ptypes and the reference-counted arrays and components     *)
(* they share.  A variant holds nothing, a plain value, a reference to an     *)
(* array of variants, or one to a component; copying it copies the reference, *)
(* and the last reference to go deletes the array with everything in it.      *)
(* The items of an array are sorted by key (as the lists above); 0 is the     *)
(* empty key of an item added without one.  ains may put such an item behind  *)
(* one with a key: the array is shuffled then, until it is cleared.           *)
(*                                                                            *)
(* Left out by guards: an array that comes to hold itself, which the manual   *)
(* forbids because nothing would ever delete it, and v = get(v, key) when v   *)
(* is the array's only holder, where assign() deletes the item it is reading. *)

CONSTANTS
  Variables,   \* the variants of a program
  Arrays,      \* the arrays that can exist at a time
  Components,  \* the components that can exist at a time
  VarKeys,        \* non-empty keys, natural numbers
  MaxCount     \* bound: items in an array

VARIABLES
  var,         \* var[v]: what the variant v holds
  arrays,      \* arrays[a]: [refcount, list, shuffled], or Gone
  components   \* components[o]: its reference count, 0 before and after its life

variant_vars == <<var, arrays, components>>

NULL      == [tag |-> "VAR_NULL", at |-> 0]
Plain     == [tag |-> "VAR_INT", at |-> 0]
nullstring == [tag |-> "VAR_STRING", at |-> 0]
Array(a)  == [tag |-> "VAR_ARRAY", at |-> a]
Object(o) == [tag |-> "VAR_OBJECT", at |-> o]
NewArray(list, shuffled) == [refcount |-> 0, list |-> list, shuffled |-> shuffled]
Gone      == [refcount |-> -1, list |-> <<>>, shuffled |-> FALSE]

isnull(x) == x.tag = "VAR_NULL"

(* What an operation changes: the arrays and the components.                  *)
Heap == [a |-> arrays, o |-> components]

(****************************** References ***********************************)

(* initialize: one more reference to what x refers to.                        *)
initialize_Shares(h, x) ==
  CASE x.tag = "VAR_OBJECT" -> [h EXCEPT !.o[x.at] = @ + 1]
    [] OTHER                -> h
initialize(h, x) ==
  CASE x.tag = "VAR_ARRAY"  -> [h EXCEPT !.a[x.at].refcount = @ + 1]
    [] x.tag = "VAR_OBJECT" -> [h EXCEPT !.o[x.at] = @ + 1]
    [] OTHER                -> h

(* finalize: one less; the last reference to an array deletes it, and with it *)
(* every item, whose variants are finalized in turn.                          *)
RECURSIVE finalize(_, _), Delete(_, _)
finalize(h, x) ==
  CASE x.tag = "VAR_ARRAY" ->
         IF h.a[x.at].refcount = 1 THEN Delete([h EXCEPT !.a[x.at] = Gone], h.a[x.at].list)
         ELSE [h EXCEPT !.a[x.at].refcount = @ - 1]
    [] x.tag = "VAR_OBJECT" -> [h EXCEPT !.o[x.at] = @ - 1]
    [] OTHER -> h
Delete(h, list) == IF list = <<>> THEN h ELSE Delete(finalize(h, Head(list).var), Tail(list))

(* assign: a variant that holds `old` comes to hold `new`; assigning the      *)
(* reference it has already changes nothing.                                  *)
assign_Always(h, old, new) == initialize(finalize(h, old), new)
assign(h, old, new) ==
  IF old = new /\ new.tag \in {"VAR_ARRAY", "VAR_OBJECT"} THEN h
  ELSE initialize(finalize(h, old), new)

(******************************** Arrays *************************************)

FreeArray(h) == CHOOSE a \in Arrays : h.a[a] = Gone
CanCreate   == \E a \in Arrays : arrays[a] = Gone

List(h, a) == h.a[a].list

(* The binary search of _objlist: where it finds a key, or would put it.      *)
RECURSIVE Between(_, _, _, _)
Between(list, key, l, h) ==
  LET i == (l + h) \div 2
  IN  IF l > h THEN l
      ELSE IF list[i + 1].key < key THEN Between(list, key, i + 1, h)
      ELSE IF list[i + 1].key > key THEN Between(list, key, l, i - 1) ELSE i
Index(list, key) == Between(list, key, 0, Len(list) - 1)
Found(list, key) == Index(list, key) < Len(list) /\ list[Index(list, key) + 1].key = key

VarItem(key, x) == [key |-> key, var |-> x]

varray_doins(h, a, index, item) ==
         initialize([h EXCEPT !.a[a].list = InsertAt(@, index + 1, item)], item.var)

varray_dodel(h, a, index) ==
         finalize([h EXCEPT !.a[a].list = RemoveAt(@, index + 1)], List(h, a)[index + 1].var)

varray_doput(h, a, index, x) ==
         LET g == assign(h, List(h, a)[index + 1].var, x)
         IN  [g EXCEPT !.a[a].list[index + 1].var = x]

(* _varray::put: a null value deletes the item.                               *)
varray_put(h, a, key, x) ==
  LET list == List(h, a)
  IN  IF Found(list, key)
      THEN IF isnull(x) THEN varray_dodel(h, a, Index(list, key)) ELSE varray_doput(h, a, Index(list, key), x)
      ELSE IF isnull(x) THEN h ELSE varray_doins(h, a, Index(list, key), VarItem(key, x))

(* _varray::addvar: after the items without key if there are no others, else  *)
(* before everything.                                                         *)
addvar(h, a, x) ==
  LET list == List(h, a)
  IN  varray_doins(h, a, IF list # <<>> /\ list[Len(list)].key = 0 THEN Len(list) ELSE 0, VarItem(0, x))

(* The copy constructor: every item's variant has one more reference.         *)
Copied(h, list, shuffled, a) ==
  LET g == [h EXCEPT !.a[a] = NewArray(list, shuffled)]
      RECURSIVE Share(_, _)
      Share(k, i) == IF i > Len(list) THEN k ELSE Share(initialize(k, list[i].var), i + 1)
  IN  Share(g, 1)

(****************************** Operations ***********************************)

(* The new state: the heap h, and variant v holding x.                        *)
Becomes(h, v, x) ==
  /\ arrays' = h.a
  /\ components' = h.o
  /\ var' = [var EXCEPT ![v] = x]

(* aclear of a variant that is no array makes it an empty one.                *)
Made(v) ==
  LET a == FreeArray(Heap)
  IN  [heap |-> initialize(finalize([Heap EXCEPT !.a[a] = NewArray(<<>>, FALSE)],
                                    var[v]), Array(a)),
       a |-> a]

(* The array of v, made if v was none.                                        *)
ArrayOf(v) == IF var[v].tag = "VAR_ARRAY" THEN [heap |-> Heap, a |-> var[v].at] ELSE Made(v)
CanMake(v) == var[v].tag # "VAR_ARRAY" => CanCreate

RECURSIVE Reaches(_, _)
Reaches(x, a) ==
  x.tag = "VAR_ARRAY" /\ (x.at = a \/ \E i \in DOMAIN arrays[x.at].list :
                                         Reaches(arrays[x.at].list[i].var, a))

(* Putting x into v's array makes no circle.                                  *)
NoCircle(v, x) == var[v].tag = "VAR_ARRAY" => ~Reaches(x, var[v].at)

(* What an item is set to: a plain value, nothing, or another variant.        *)
Values(v) == {Plain, NULL} \cup {var[w] : w \in Variables \ {v}}

Assign(v) == \E x \in Values(v) \cup {var[v]} : Becomes(assign(Heap, var[v], x), v, x)

(* A component gets its first reference from the variant it is assigned to.   *)
AssignComponent(v) ==
  \E o \in {o \in Components : components[o] = 0} :
    Becomes(assign(Heap, var[v], Object(o)), v, Object(o))

aclear(v) ==
  IF var[v].tag = "VAR_ARRAY"
  THEN Becomes(Delete([Heap EXCEPT !.a[var[v].at].list = <<>>, !.a[var[v].at].shuffled = FALSE],
                      List(Heap, var[v].at)), v, var[v])
  ELSE CanCreate /\ Becomes(Made(v).heap, v, Array(Made(v).a))

aclone(v) ==
  /\ CanCreate
  /\ \E w \in Variables :
       LET a == FreeArray(Heap)
           from == IF var[w].tag = "VAR_ARRAY" THEN arrays[var[w].at] ELSE Gone
       IN  Becomes(assign(Copied(Heap, from.list, from.shuffled, a), var[v], Array(a)), v, Array(a))

variant_put(v, key) ==
          /\ CanMake(v)
          /\ \E x \in Values(v) :
               /\ NoCircle(v, x) /\ (var[v].tag = "VAR_ARRAY" => Len(List(Heap, var[v].at)) < MaxCount)
               /\ Becomes(varray_put(ArrayOf(v).heap, ArrayOf(v).a, key, x), v, Array(ArrayOf(v).a))

(* The item is not deleted: what is put is an empty string, which is not the  *)
(* null variant, and is inserted if there was no such item.                   *)
del(v, key) ==
  /\ var[v].tag = "VAR_ARRAY" /\ Len(List(Heap, var[v].at)) < MaxCount
  /\ Becomes(varray_put(Heap, var[v].at, key, nullstring), v, var[v])

(* w = get(v, key), the null variant when v has no such item.                 *)
get(w, v, key) ==
  /\ var[v].tag = "VAR_ARRAY"
  /\ w = v => arrays[var[v].at].refcount > 1
  /\ LET list == List(Heap, var[v].at)
         x == IF Found(list, key) THEN list[Index(list, key) + 1].var ELSE NULL
     IN  Becomes(assign(Heap, var[w], x), w, x)

aadd(v) ==
  /\ CanMake(v)
  /\ \E x \in Values(v) :
       /\ NoCircle(v, x) /\ (var[v].tag = "VAR_ARRAY" => Len(List(Heap, var[v].at)) < MaxCount)
       /\ Becomes(addvar(ArrayOf(v).heap, ArrayOf(v).a, x), v, Array(ArrayOf(v).a))

(* aput and adel by position; a position past the end does nothing.           *)
aput(v) ==
  /\ var[v].tag = "VAR_ARRAY"
  /\ \E i \in 0 .. Len(List(Heap, var[v].at)) - 1, x \in Values(v) :
       NoCircle(v, x) /\ Becomes(varray_doput(Heap, var[v].at, i, x), v, var[v])

adel(v) ==
  /\ var[v].tag = "VAR_ARRAY"
  /\ \E i \in 0 .. Len(List(Heap, var[v].at)) - 1 : Becomes(varray_dodel(Heap, var[v].at, i), v, var[v])

ains(v) ==
  /\ var[v].tag = "VAR_ARRAY" /\ Len(List(Heap, var[v].at)) < MaxCount
  /\ \E i \in 0 .. Len(List(Heap, var[v].at)) - 1, x \in Values(v) :
       LET h == varray_doins(Heap, var[v].at, i, VarItem(0, x))
       IN  /\ NoCircle(v, x)
           /\ Becomes([h EXCEPT !.a[var[v].at].shuffled = @ \/ (i > 0 /\ List(h, var[v].at)[i].key # 0)],
                      v, var[v])

VariantInit ==
         /\ var = [v \in Variables |-> NULL]
         /\ arrays = [a \in Arrays |-> Gone]
         /\ components = [o \in Components |-> 0]

VariantNext ==
         \E v \in Variables :
           \/ Assign(v) \/ AssignComponent(v) \/ aclear(v) \/ aclone(v) \/ aadd(v) \/ aput(v) \/ adel(v)
           \/ ains(v)
           \/ \E key \in VarKeys : variant_put(v, key) \/ del(v, key) \/ \E w \in Variables : get(w, v, key)

VariantSpec == VariantInit /\ [][VariantNext]_variant_vars

(****************************** Properties ***********************************)

(* How many variants refer to x: variables, and items of arrays.              *)
Holders(x) ==
  Cardinality({v \in Variables : var[v] = x})
  + Cardinality({<<a, i>> \in Arrays \X (1 .. MaxCount) :
                   i \in DOMAIN arrays[a].list /\ arrays[a].list[i].var = x})

(* Every array and component is counted exactly: it has as many references as *)
(* variants that hold it, so it is deleted with the last of them, no earlier  *)
(* and no later, in whatever order shared and nested arrays are reassigned,   *)
(* cleared or cloned.  The keys of an array are in order, a key other than    *)
(* the empty one is there once, and the binary search finds it, unless ains   *)
(* has put an item behind one with a key (pvariant.cxx:59).                   *)
CountsMatchHolders ==
  /\ \A a \in Arrays : IF arrays[a] = Gone THEN Holders(Array(a)) = 0
                       ELSE arrays[a].refcount = Holders(Array(a)) /\ arrays[a].refcount > 0
  /\ \A o \in Components : components[o] = Holders(Object(o))
  /\ \A a \in Arrays :
       LET list == arrays[a].list
       IN  ~arrays[a].shuffled =>
             /\ \A i, j \in DOMAIN list :
                  i < j => list[i].key < list[j].key \/ (list[i].key = 0 /\ list[j].key = 0)
             /\ \A i \in DOMAIN list : list[i].key # 0 => Index(list, list[i].key) = i - 1
=============================================================================

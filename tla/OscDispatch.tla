---------------------------- MODULE OscDispatch -----------------------------
(***************************************************************************)
(* WOscReceiver: received packets, the priority queue of bundles whose     *)
(* time has not come, and the return address that a packet's bundles share *)
(* and that is deleted when the last of them is.                           *)
(*                                                                         *)
(* A packet is a message or a bundle; a bundle of a packet has a time tag, *)
(* messages and bundles.  A malformed bundle is one whose constructor      *)
(* throws.  Each arrival brings its own return address, its number.        *)
(*                                                                         *)
(* Two machines: the receiver, and the address space.                      *)
(***************************************************************************)
EXTENDS Integers, Sequences, SequencesExt, FiniteSetsExt

CONSTANTS
  Packets,     \* the packets that arrive
  MaxPackets,  \* bound on the arrivals
  MaxTime      \* bound on the clock

VARIABLES
  arrived,  \* packets in the order of their arrival
  r         \* [now, queue, users, deleted, log]

receiver_vars == <<arrived, r>>

Message(name) == [kind |-> "message", name |-> name]
Bundle(tag, messages, bundles) ==
  [kind |-> "bundle", tag |-> tag, messages |-> messages, bundles |-> bundles]
Malformed == [kind |-> "malformed"]

Addresses == 1..MaxPackets

ReceiverInit ==
          /\ arrived = <<>>
          /\ r = [now |-> 0, queue |-> <<>>, users |-> [ra \in Addresses |-> 0],
                  deleted |-> [ra \in Addresses |-> 0], log |-> <<>>]
-----------------------------------------------------------------------------
(* WOscNetReturn.                                                          *)
\* Faulty: only the outermost bundle registers.
AddParents_Outer(rr, ra, n) == [rr EXCEPT !.users[ra] = @ + 1]

AddParents(rr, ra, n) == [rr EXCEPT !.users[ra] = @ + n]

RemoveParent(rr, ra) ==
  [rr EXCEPT !.users[ra] = @ - 1,
             !.deleted[ra] = IF rr.users[ra] - 1 <= 0 THEN @ + 1 ELSE @]

RECURSIVE Nested(_)
\* The number of bundles in a bundle, itself included.
Nested(b) == 1 + FoldLeft(LAMBDA n, x : n + Nested(x), 0, b.bundles)
-----------------------------------------------------------------------------
(* WOscPriorityQueue.                                                      *)
InsertItem(rr, b, ra) == [rr EXCEPT !.queue = Append(@, [b |-> b, ra |-> ra])]

EarliestItem(rr) ==
  CHOOSE i \in DOMAIN rr.queue :
    \A j \in DOMAIN rr.queue :
      IF j < i THEN rr.queue[j].b.tag > rr.queue[i].b.tag
      ELSE rr.queue[j].b.tag >= rr.queue[i].b.tag
-----------------------------------------------------------------------------
(* WOscReceiver.                                                           *)
ProcessMessage(rr, name, ra, tag) ==
  [rr EXCEPT !.log = Append(@, [name |-> name, ra |-> ra, tag |-> tag, at |-> rr.now,
                                alive |-> rr.deleted[ra] = 0])]

RECURSIVE ProcessBundle(_, _, _)
\* Faulty: a bundle inside is run with the one around it.
ProcessBundle_AtOnce(rr, b, ra) ==
  LET run(q, m) == ProcessMessage(q, m, ra, b.tag)
      sub(q, x) == ProcessBundle(q, [x EXCEPT !.tag = b.tag], ra)
  IN IF b.tag <= rr.now
     THEN RemoveParent(FoldLeft(sub, FoldLeft(run, rr, b.messages), b.bundles), ra)
     ELSE InsertItem(rr, b, ra)

ProcessBundle(rr, b, ra) ==
  LET run(q, m) == ProcessMessage(q, m, ra, b.tag)
      sub(q, x) == ProcessBundle(q, x, ra)
  IN IF b.tag <= rr.now
     THEN RemoveParent(FoldLeft(sub, FoldLeft(run, rr, b.messages), b.bundles), ra)
     ELSE InsertItem(rr, b, ra)

\* A bundle's constructor registers it with the return address; when it
\* throws, its WOscQueueItem part is destroyed and unregisters it, and the
\* handler of the exception removes a parent once more.
NetworkReceive(p) ==
  LET ra == Len(arrived) + 1 IN
  /\ ra <= MaxPackets
  /\ arrived' = Append(arrived, p)
  /\ r' = CASE p.kind = "bundle" -> ProcessBundle(AddParents(r, ra, Nested(p)), p, ra)
            [] p.kind = "malformed" ->
                 RemoveParent(RemoveParent(AddParents(r, ra, 1), ra), ra)
            [] p.kind = "message" -> RemoveParent(ProcessMessage(r, p.name, ra, 0), ra)

RECURSIVE RunReady(_)
RunReady(rr) ==
  IF rr.queue = <<>> \/ rr.queue[EarliestItem(rr)].b.tag >= rr.now THEN rr
  ELSE LET i == EarliestItem(rr)
           item == rr.queue[i]
       IN RunReady(ProcessBundle([rr EXCEPT !.queue = RemoveAt(@, i)], item.b, item.ra))

ManagePriorityQueue ==
  /\ r' = RunReady(r)
  /\ UNCHANGED arrived

Tick ==
  /\ r.now < MaxTime
  /\ r' = [r EXCEPT !.now = @ + 1]
  /\ UNCHANGED arrived

ReceiverNext == (\E p \in Packets : NetworkReceive(p)) \/ ManagePriorityQueue \/ Tick

ReceiverSpec == ReceiverInit /\ [][ReceiverNext]_receiver_vars
-----------------------------------------------------------------------------
RECURSIVE Wanted(_)
Wanted(b) == {[name |-> m, tag |-> b.tag] : m \in Range(b.messages)}
               \cup UNION {Wanted(x) : x \in Range(b.bundles)}

Ran(ra) == {i \in DOMAIN r.log : r.log[i].ra = ra}
Waiting(ra) == {i \in DOMAIN r.queue : r.queue[i].ra = ra}

(* Every message of a bundle is run exactly once, not before the time of   *)
(* the bundle it is in, however bundles are nested and whichever of them   *)
(* waits in the queue, and the methods see a return address that still     *)
(* lives.                                                                  *)
MessagesRunOnceInTime ==
  /\ \A e \in Range(r.log) : e.at >= e.tag /\ e.alive
  /\ \A ra \in DOMAIN arrived :
       arrived[ra].kind = "bundle" =>
         LET entry(i) == [name |-> r.log[i].name, tag |-> r.log[i].tag]
             ran == {entry(i) : i \in Ran(ra)}
             left == UNION {Wanted(r.queue[i].b) : i \in Waiting(ra)}
         IN /\ ran \cup left = Wanted(arrived[ra])
            /\ ran \cap left = {}
            /\ \A i, j \in Ran(ra) : entry(i) = entry(j) => i = j

(* A return address is deleted exactly once, with the last bundle of its   *)
(* packet or after its message: WOscNetReturn counts the bundles, and      *)
(* NetworkReceive cleans up what no bundle manages.  The exception is the  *)
(* address of a malformed bundle, which is deleted twice: by the bundle    *)
(* that could not be made and by NetworkReceive, which takes it that "no   *)
(* bundle constructed -> netreturn has to be deleted manually"; that harms *)
(* no other packet's address.                                              *)
AddressDeletedOnce ==
  \A ra \in DOMAIN arrived :
    r.deleted[ra] = CASE arrived[ra].kind = "malformed" -> 2
                      [] Waiting(ra) # {} -> 0
                      [] OTHER -> 1
-----------------------------------------------------------------------------
(***************************************************************************)
(* The address space of WOscLib: a tree of WOscContainers with methods and *)
(* aliases, and the dispatch of an address pattern to the methods that     *)
(* match it (WOscContainer, WOscMethod, WOscPatternMatch).                 *)
(*                                                                         *)
(* Characters are numbers.  An address pattern is a sequence of parts (the *)
(* text between two slashes) and a part is a sequence of tokens, whose     *)
(* text the code matches and whose meaning the OSC specification defines.  *)
(***************************************************************************)

CONSTANTS
  Containers, root, Methods,  \* names of the objects
  Names,                      \* sequences of characters
  Parts,                      \* sequences of tokens
  Capacity,                   \* defNumChildren and defNumMethods
  MaxDepth,                   \* bound on the length of an address
  MaxEntries                  \* bound on the children and methods added

VARIABLES
  m_children,  \* container -> sequence of [name, to, isAlias]
  m_methods,   \* container -> sequence of [name, to, isAlias]
  broken       \* an array was written behind its end

address_vars == <<m_children, m_methods, broken>>

\* The tokens of a pattern.
Char(c) == [kind |-> "char", cs |-> {c}, words |-> <<>>]
AnyChar == [kind |-> "any", cs |-> {}, words |-> <<>>]
AnyWord == [kind |-> "star", cs |-> {}, words |-> <<>>]
OneOf(lo, hi) == [kind |-> "range", cs |-> lo..hi, words |-> <<>>]
NoneOf(c) == [kind |-> "not", cs |-> {c}, words |-> <<>>]
List(words) == [kind |-> "list", cs |-> {}, words |-> words]

Question == 63
Star == 42
Comma == 44
Bang == 33
Minus == 45
OpenBracket == 91
CloseBracket == 93
OpenBrace == 123
CloseBrace == 125

Text(t) ==
  CASE t.kind = "char" -> <<CHOOSE c \in t.cs : TRUE>>
    [] t.kind = "any" -> <<Question>>
    [] t.kind = "star" -> <<Star>>
    [] t.kind = "range" ->
         <<OpenBracket, CHOOSE c \in t.cs : \A d \in t.cs : c <= d, Minus,
           CHOOSE c \in t.cs : \A d \in t.cs : c >= d, CloseBracket>>
    [] t.kind = "not" -> <<OpenBracket, Bang, CHOOSE c \in t.cs : TRUE, CloseBracket>>
    [] t.kind = "list" ->
         <<OpenBrace>> \o FlattenSeq([i \in 1..Len(t.words) |->
                            IF i = 1 THEN t.words[i] ELSE <<Comma>> \o t.words[i]]) \o <<CloseBrace>>

TextOf(part) == FlattenSeq([i \in 1..Len(part) |-> Text(part[i])])
-----------------------------------------------------------------------------
(* WOscPatternMatch.                                                       *)

RECURSIVE PatternMatch(_, _)

From(s, i) == SubSeq(s, i, Len(s))

\* The first p at or behind from whose member is listed, or where the range
\* it begins holds the character; else the closing bracket.
Bracket(pattern, from, c) ==
  LET at(p) == IF p <= Len(pattern) THEN pattern[p] ELSE 0
      stops(p) == \/ at(p) \in {CloseBracket, 0, c}
                  \/ at(p + 1) = Minus /\ at(p + 2) # 0 /\ at(p) <= c /\ c <= at(p + 2)
  IN CHOOSE p \in from..(Len(pattern) + 1) : stops(p) /\ \A q \in from..(p - 1) : ~stops(q)

MatchBrackets(pattern, test) ==
  LET close == {p \in 1..Len(pattern) : pattern[p] = CloseBracket}
      negated == Len(pattern) > 1 /\ pattern[2] = Bang
      p == Bracket(pattern, IF negated THEN 2 ELSE 1, test[1])
      listed == p <= Len(pattern) /\ pattern[p] # CloseBracket
  IN /\ close # {} /\ listed # negated
     /\ LET end == CHOOSE e \in close : \A f \in close : e <= f
        IN PatternMatch(From(pattern, end + 1), Tail(test))

RECURSIVE ListLoop(_, _, _, _)
\* The loop of MatchList: pattern behind the brace, tp the text left to the
\* alternative in hand.
ListLoop(pattern, rest, tp, test) ==
  CASE pattern[1] = Comma ->
         PatternMatch(rest, tp) \/ ListLoop(Tail(pattern), rest, test, test)
    [] pattern[1] = CloseBrace -> PatternMatch(rest, tp)
    [] tp # <<>> /\ pattern[1] = tp[1] -> ListLoop(Tail(pattern), rest, Tail(tp), test)
    [] OTHER ->
         LET ends == {i \in 1..Len(pattern) : pattern[i] \in {Comma, CloseBrace}}
             end == CHOOSE e \in ends : \A f \in ends : e <= f
         IN ListLoop(From(pattern, IF pattern[end] = Comma THEN end + 1 ELSE end),
                     rest, test, test)

MatchList(pattern, test) ==
  LET close == {p \in 1..Len(pattern) : pattern[p] = CloseBrace}
  IN /\ close # {}
     /\ LET end == CHOOSE e \in close : \A f \in close : e <= f
        IN ListLoop(Tail(pattern), From(pattern, end + 1), test, test)

PatternMatch(pattern, test) ==
  CASE pattern = <<>> -> test = <<>>
    [] pattern # <<>> /\ test = <<>> ->
         pattern[1] = Star /\ PatternMatch(Tail(pattern), test)
    [] OTHER ->
         CASE pattern[1] = Question -> PatternMatch(Tail(pattern), Tail(test))
           [] pattern[1] = Star ->
                PatternMatch(Tail(pattern), test) \/ PatternMatch(pattern, Tail(test))
           [] pattern[1] \in {CloseBracket, CloseBrace} -> FALSE
           [] pattern[1] = OpenBracket -> MatchBrackets(pattern, test)
           [] pattern[1] = OpenBrace -> MatchList(pattern, test)
           [] OTHER -> pattern[1] = test[1] /\ PatternMatch(Tail(pattern), Tail(test))
-----------------------------------------------------------------------------
(* WOscContainer.                                                          *)

\* WOscCallbackList: lists are put one behind the other.
IncludeList(lists) == FlattenSeq(lists)

RECURSIVE DispatchSubMessage(_, _)
\* The WOscCallbackList: in the last part the methods, before it the lists
\* of the containers that match, one after another.
DispatchSubMessage(container, pattern) ==
  LET entries == IF Len(pattern) = 1 THEN m_methods[container] ELSE m_children[container]
      listed(e) == CASE ~PatternMatch(TextOf(Head(pattern)), e.name) -> <<>>
                     [] Len(pattern) = 1 -> <<e.to>>
                     [] OTHER -> DispatchSubMessage(e.to, Tail(pattern))
  IN IncludeList([i \in 1..Len(entries) |-> listed(entries[i])])

RECURSIVE FindContainer(_, _)
\* Faulty: only the first child of the name is followed.
FindContainer_First(container, address) ==
  IF address = <<>> THEN {container}
  ELSE LET kids == m_children[container]
           hits == {i \in 1..Len(kids) : kids[i].name = Head(address)}
       IN IF hits = {} THEN {}
          ELSE FindContainer(kids[CHOOSE i \in hits : \A j \in hits : i <= j].to, Tail(address))

\* The set of at most one container: the first child of the name that leads
\* to the rest of the address.
FindContainer(container, address) ==
  IF address = <<>> THEN {container}
  ELSE LET kids == m_children[container]
           found(i) == IF kids[i].name = Head(address)
                       THEN FindContainer(kids[i].to, Tail(address)) ELSE {}
           hits == {i \in 1..Len(kids) : found(i) # {}}
       IN IF hits = {} THEN {} ELSE found(CHOOSE i \in hits : \A j \in hits : i <= j)

AddressInit ==
         /\ m_children = [c \in Containers |-> <<>>]
         /\ m_methods = [c \in Containers |-> <<>>]
         /\ broken = FALSE

InTree(c) == c = root \/ \E p \in Containers : \E e \in Range(m_children[p]) : e.to = c

\* DoubleChildren and DoubleMethods grow the array of pointers only: the
\* names and the alias flags are then written behind the end of theirs.
Add(list, entry) ==
  IF Len(list) < Capacity THEN Append(list, entry) ELSE list

Overflows(list) == Len(list) >= Capacity

\* The constructor of a child container, and AddContainerAlias, which
\* refuses the root and a container inside itself.
AddContainer(parent, c, name) ==
  LET isAlias == InTree(c) IN
  /\ ~broken /\ InTree(parent) /\ c # root /\ parent # c
  /\ m_children' = [m_children EXCEPT
                      ![parent] = Add(@, [name |-> name, to |-> c, isAlias |-> isAlias])]
  /\ broken' = Overflows(m_children[parent])
  /\ UNCHANGED m_methods

\* A method that has a parent is added by AddMethodAlias.
IsMethodAlias(m) == \E c \in Containers : \E e \in Range(m_methods[c]) : e.to = m

\* The constructor of a method, and AddMethodAlias.
AddMethod(parent, m, name) ==
  /\ ~broken /\ InTree(parent)
  /\ LET isAlias == IsMethodAlias(m) IN
     m_methods' = [m_methods EXCEPT
                     ![parent] = Add(@, [name |-> name, to |-> m, isAlias |-> isAlias])]
  /\ broken' = Overflows(m_methods[parent])
  /\ UNCHANGED m_children

\* m_parent: the container of the entry that is no alias.
ParentIn(list, x) ==
  CHOOSE p \in Containers : \E e \in Range(list[p]) : e.to = x /\ ~e.isAlias
m_parent(c) == ParentIn(m_children, c)

NameIn(list, x) ==
  LET p == ParentIn(list, x)
  IN (CHOOSE e \in Range(list[p]) : e.to = x /\ ~e.isAlias).name

RECURSIVE FindRoot(_), Above(_), Below(_), GetMethodList(_), Deleted(_)
FindRoot(c) == IF c = root THEN c ELSE FindRoot(m_parent(c))

\* WOscContainer::GetName and GetAddress: every container but c itself puts
\* its bare name in front.
Slash == 47
GetName(c) == IF c = root THEN <<Slash>> ELSE NameIn(m_children, c)
Above(c) == IF c = root THEN GetName(c) ELSE Above(m_parent(c)) \o GetName(c)
GetAddress(c) == IF c = root THEN <<Slash>> ELSE Above(c) \o <<Slash>>

\* WOscMethod::GetName and GetAddress.
Below(c) == IF c = root THEN <<Slash>> ELSE Below(m_parent(c)) \o GetName(c) \o <<Slash>>
MethodAddress(m) == Below(ParentIn(m_methods, m)) \o NameIn(m_methods, m)

\* The lines of the list: the methods of the container, then those of the
\* children it owns; aliased containers are left out.
GetMethodList(c) ==
  [i \in 1..Len(m_methods[c]) |->
     LET e == m_methods[c][i]
     IN IF e.isAlias THEN GetAddress(c) \o e.name ELSE MethodAddress(e.to)]
  \o FlattenSeq([i \in 1..Len(m_children[c]) |->
        LET e == m_children[c][i] IN IF e.isAlias THEN <<>> ELSE GetMethodList(e.to)])

\* Faulty: an alias is deleted with the container that lists it.
Deleted_Aliases(c) ==
  [i \in 1..Len(m_methods[c]) |-> m_methods[c][i].to]
  \o FlattenSeq([i \in 1..Len(m_children[c]) |->
        LET e == m_children[c][i] IN IF e.isAlias THEN <<>> ELSE Deleted(e.to)])
  \o <<c>>

\* What ~WOscContainer deletes, in its order: methods, children, itself.
Deleted(c) ==
  FlattenSeq([i \in 1..Len(m_methods[c]) |->
     LET e == m_methods[c][i] IN IF e.isAlias THEN <<>> ELSE <<e.to>>])
  \o FlattenSeq([i \in 1..Len(m_children[c]) |->
        LET e == m_children[c][i] IN IF e.isAlias THEN <<>> ELSE Deleted(e.to)])
  \o <<c>>

\* The whole tree goes, whichever container is asked.
RemoveAll(c) ==
  /\ ~broken /\ InTree(c)
  /\ LET gone == Range(Deleted(FindRoot(c))) IN
     /\ m_children' = [x \in Containers |-> IF x \in gone THEN <<>> ELSE m_children[x]]
     /\ m_methods' = [x \in Containers |-> IF x \in gone THEN <<>> ELSE m_methods[x]]
  /\ UNCHANGED broken

Entries == FoldSet(LAMBDA c, n : n + Len(m_children[c]) + Len(m_methods[c]), 0, Containers)

AddressNext ==
         \/ Entries < MaxEntries /\ \E parent \in Containers, name \in Names :
              \/ \E c \in Containers : AddContainer(parent, c, name)
              \/ \E m \in Methods : AddMethod(parent, m, name)
         \/ \E c \in Containers : RemoveAll(c)

AddressSpec == AddressInit /\ [][AddressNext]_address_vars
-----------------------------------------------------------------------------
(* What the OSC specification means by a pattern; and, when loose, what it *)
(* would mean if a list could stand for nothing as well.                   *)
RECURSIVE Means(_, _, _)
Means(part, test, loose) ==
  IF part = <<>> THEN test = <<>>
  ELSE LET t == Head(part)
           rest(i) == Means(Tail(part), From(test, i), loose)
           one(ok(_)) == test # <<>> /\ ok(test[1]) /\ rest(2)
       IN CASE t.kind \in {"char", "range"} -> one(LAMBDA c : c \in t.cs)
            [] t.kind = "any" -> one(LAMBDA c : TRUE)
            [] t.kind = "not" -> one(LAMBDA c : c \notin t.cs)
            [] t.kind = "star" -> \E i \in 1..(Len(test) + 1) : rest(i)
            [] t.kind = "list" ->
                 \/ \E w \in Range(t.words) : IsPrefix(w, test) /\ rest(Len(w) + 1)
                 \/ loose /\ rest(1)

\* The ways down the tree: sequences of entries from the root.
Ways(n) ==
  {w \in [1..n -> UNION {Range(m_children[c]) : c \in Containers}] :
     \A i \in 1..n : w[i] \in Range(m_children[IF i = 1 THEN root ELSE w[i - 1].to])}

End(w) == IF w = <<>> THEN root ELSE w[Len(w)].to

\* The methods of all ways down the tree whose names fit the parts.
Named(pattern, loose) ==
  LET n == Len(pattern)
      fits(i, e) == Means(pattern[i], e.name, loose)
      ways == {w \in Ways(n - 1) : \A i \in 1..(n - 1) : fits(i, w[i])}
  IN {e.to : e \in UNION {{e \in Range(m_methods[End(w)]) : fits(n, e)} : w \in ways}}

(* A message goes to the methods its address pattern names and to no       *)
(* other: the callback list that DispatchMessage builds, matching one part *)
(* after another on the way down, aliases included, holds the methods of   *)
(* all ways down the tree whose names fit the parts as the specification   *)
(* defines '?', '*', '[a-b]', '[!a]' and '{foo,bar}'; but a list also      *)
(* stands for nothing, because MatchList goes on behind it when the last   *)
(* of its words does not fit.  FindContainer finds a container under every *)
(* address that has one, though several children of one name may lead the  *)
(* way.  All this until a container has more entries than its first arrays *)
(* have places (broken), of which only one is ever grown.                  *)
AddressesAreFound ==
  ~broken =>
    /\ \A n \in 1..MaxDepth : \A pattern \in [1..n -> Parts] :
         LET found == Range(DispatchSubMessage(root, pattern))
         IN Named(pattern, FALSE) \subseteq found /\ found \subseteq Named(pattern, TRUE)
    /\ \A n \in 1..MaxDepth : \A w \in Ways(n) :
         LET address == [i \in 1..n |-> w[i].name]
             ends == {End(v) : v \in {v \in Ways(n) : [i \in 1..n |-> v[i].name] = address}}
             found == FindContainer(root, address)
         IN found # {} /\ found \subseteq ends

\* The parts of an address: what is between its slashes.
RECURSIVE Split(_)
Split(text) ==
  LET slashes == {i \in 1..Len(text) : text[i] = Slash}
      end == IF slashes = {} THEN Len(text) + 1
             ELSE CHOOSE i \in slashes : \A j \in slashes : i <= j
      part == [i \in 1..(end - 1) |-> Char(text[i])]
  IN IF slashes = {} THEN <<part>> ELSE <<part>> \o Split(From(text, end + 1))

Reached(address) == Range(DispatchSubMessage(root, Split(Tail(address))))

(* The tree owns each of its objects once, however it is aliased: deleting *)
(* the root deletes every container and method of the tree and none twice, *)
(* and a message to the address a method gives as its own reaches it,      *)
(* until the arrays of a container overflow.                               *)
TreeOwnsItsObjects ==
  ~broken =>
    LET methods == UNION {{e.to : e \in Range(m_methods[c])} : c \in Containers}
        all == Deleted(root)
    IN /\ IsInjective(all)
       /\ Range(all) = {c \in Containers : InTree(c)} \cup methods
       /\ \A m \in methods : m \in Reached(MethodAddress(m))

(* The list of all OSC-addresses that GetAddressSpace returns holds        *)
(* addresses a message can be sent to.                                     *)
ListedAddressesWork ==
  ~broken => \A address \in Range(GetMethodList(root)) : Reached(address) # {}

(* The arrays of a container grow when they are full.                      *)
ArraysGrow == ~broken
=============================================================================

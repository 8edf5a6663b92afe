----------------------------- MODULE WebClient -----------------------------
(***************************************************************************)
(* The web interface of Movid (gui/html/js/movid.js, movid-draw.js) and    *)
(* the daemon it talks to: user actions and answers of the daemon are      *)
(* event handlers of one thread, requests and answers are under way in     *)
(* between.  The answers come in the order of the requests, or in any.     *)
(*                                                                         *)
(* Positions, colours and the table of properties are left out; a module   *)
(* has one output and two inputs.                                          *)
(***************************************************************************)
EXTENDS Naturals, Sequences, FiniteSets, Functions, FiniteSetTheorems, TLAPS

CONSTANTS
  MaxModules,  \* modules are numbered in the order of their creation
  Slot,        \* modules in the preset of the slot, with the ids 1..Slot
  MaxActions,  \* actions of the user
  MaxFlight,   \* requests under way
  Ordered,     \* whether answers keep the order of the requests
  None

VARIABLES
  server,      \* the pipeline: modules, connections <<out, in, inidx>>, running
  net,         \* requests and answers under way, in order
  gui,         \* what the page knows and shows
  actions      \* actions of the user so far

vars == <<server, net, gui, actions>>

Inputs == 0..1
Ask(kind, args) == [kind |-> kind, args |-> args, answered |-> FALSE, data |-> None]
-----------------------------------------------------------------------------
(* The widgets.  selected_widget is an index (-1 is 0 here), None after a  *)
(* deletion; shown is the module in the panel with the delete button; old  *)
(* tells which references are to widgets that are no longer drawn; threw   *)
(* whether a handler ended in an exception.                                *)

NoDrag == [input |-> None, output |-> None]

Bootstrap ==     \* mo_bootstrap, mo_pjs
  [widgets |-> <<>>, observers |-> <<>>, selected |-> 0, drag |-> NoDrag,
   lastOutput |-> None, running |-> FALSE, shown |-> None, old |-> {},
   threw |-> FALSE]

\* observers[m]: the drawn connections of the output of m, the arrays of
\* widgets and of input indices.
NoObservers == [w |-> <<>>, idx |-> <<>>]

Without(q, i) == SubSeq(q, 1, i - 1) \o SubSeq(q, i + 1, Len(q))

splice(q, i) == IF i < Len(q) THEN Without(q, i + 1) ELSE q

\* IOWidget.clearConnectivity: the loop counts up while the arrays shrink, and
\* the index array is cut at its own first value.
clearConnectivity(o) ==
  LET n == (Len(o.w) + 1) \div 2
      after[i \in 0..n] ==
        IF i = 0 THEN o
        ELSE LET p == after[i - 1] IN
             [w |-> splice(p.w, 0),
              idx |-> IF p.idx = <<>> THEN p.idx ELSE splice(p.idx, p.idx[1])]
  IN after[n]

Connected(o, w, i) == [w |-> Append(o.w, w), idx |-> Append(o.idx, i)]

\* The modules of a status, in the order of their creation.
InOrder(ms) ==
  [k \in 1..Cardinality(ms) |-> CHOOSE m \in ms : Cardinality({x \in ms : x <= m}) = k]

\* The callback of mo_status: widgets are added, never taken away, what is
\* connected is drawn to input 0.
StatusArrives(g, s) ==
  LET new == InOrder(s.modules \ Range(g.widgets))
      all == g.widgets \o new
      cleared == [m \in Range(all) |-> IF m \in Range(new) THEN NoObservers
                                       ELSE clearConnectivity(g.observers[m])]
      out(m) == {c \in s.connections : c[1] = m /\ c[2] \in Range(all)}
      seen(m) == CHOOSE q \in [1..Cardinality(out(m)) -> out(m)] : Range(q) = out(m)
  IN [g EXCEPT !.running = s.running, !.widgets = all,
               !.observers = [m \in Range(all) |->
                 IF m \in s.modules
                   THEN [w |-> cleared[m].w \o [k \in DOMAIN seen(m) |-> seen(m)[k][2]],
                         idx |-> cleared[m].idx \o [k \in DOMAIN seen(m) |-> 0]]
                   ELSE cleared[m]]]

\* mo_pjs_reset of mo_refresh; the panel and the ends of a drag stay.
Reset(g) ==
  [g EXCEPT !.widgets = <<>>, !.observers = <<>>, !.old = {"panel", "input", "output"}]
-----------------------------------------------------------------------------
(* The callbacks: what the page does with an answer, and asks next.        *)

\* Faulty: loading a slot clears the page and asks for nothing.
Callback_NoStatus(m) ==
  CASE m.kind = "status" -> [gui |-> StatusArrives(gui, m.data), asks |-> <<>>]
    [] m.kind = "create" ->
         [gui |-> gui, asks |-> <<Ask("status", None), Ask("properties", m.data)>>]
    [] m.kind \in {"remove", "start", "stop"} ->
         [gui |-> gui, asks |-> <<Ask("status", None)>>]
    [] m.kind = "load" -> [gui |-> Reset(gui), asks |-> <<>>]
    [] m.kind \in {"connect", "properties"} -> [gui |-> gui, asks |-> <<>>]

\* mo_create selects the new module, mo_remove selects nothing (mo_properties
\* then asks for the status), mo_slot_load refreshes all.  mo_properties of a
\* module asks the daemon for the same answer as mo_status, but its callback
\* only fills the table.
Callback(m) ==
  CASE m.kind = "status" -> [gui |-> StatusArrives(gui, m.data), asks |-> <<>>]
    [] m.kind = "create" ->
         [gui |-> gui, asks |-> <<Ask("status", None), Ask("properties", m.data)>>]
    [] m.kind \in {"remove", "start", "stop"} ->
         [gui |-> gui, asks |-> <<Ask("status", None)>>]
    [] m.kind = "load" -> [gui |-> Reset(gui),
                           asks |-> <<Ask("status", None), Ask("status", None)>>]
    [] m.kind \in {"connect", "properties"} -> [gui |-> gui, asks |-> <<>>]

Receive(i) ==
  LET c == Callback(net[i]) IN
  /\ net[i].answered /\ (Ordered => i = 1)
  /\ gui' = c.gui
  /\ net' = Without(net, i) \o c.asks
  /\ UNCHANGED <<server, actions>>

\* The handlers of movid.cpp, one after the other.  web_pipeline_remove and
\* moPipeline::clear stop the pipeline; a preset that parse gives up leaves the
\* modules before the error, of which args is the number; the modules of the
\* preset are not connected.
Handled(s, m) ==
  CASE m.kind = "create" -> [s EXCEPT !.modules = @ \cup {s.last + 1}, !.last = @ + 1]
    [] m.kind = "remove" ->
         IF m.args \in s.modules
           THEN [s EXCEPT !.modules = @ \ {m.args}, !.running = FALSE,
                          !.connections = {c \in @ : m.args \notin {c[1], c[2]}}]
           ELSE s
    [] m.kind = "connect" ->
         IF {m.args[1], m.args[2]} \subseteq s.modules
           THEN [s EXCEPT !.connections =
                   {c \in @ : <<c[2], c[3]>> # <<m.args[2], m.args[3]>>} \cup {m.args}]
           ELSE s
    [] m.kind \in {"start", "stop"} -> [s EXCEPT !.running = m.kind = "start"]
    [] m.kind = "load" ->
         [s EXCEPT !.modules = 1..m.args, !.last = @ + m.args, !.running = FALSE,
                   !.connections = {}]
    [] m.kind \in {"status", "properties"} -> s

Serve(i) ==
  LET s == Handled(server, net[i]) IN
  /\ ~net[i].answered /\ (Ordered => \A j \in 1..i - 1 : net[j].answered)
  /\ s.last <= MaxModules
  /\ server' = s
  /\ net' = [net EXCEPT ![i].answered = TRUE,
                        ![i].data = IF net[i].kind = "create" THEN s.last ELSE s]
  /\ UNCHANGED <<gui, actions>>
-----------------------------------------------------------------------------
(* The user.                                                               *)

Acts(g, asks) ==
  /\ actions < MaxActions /\ Len(net) + Len(asks) <= MaxFlight
  /\ actions' = actions + 1
  /\ gui' = g /\ net' = net \o asks
  /\ UNCHANGED server

Widget(i) == gui.widgets[i]

\* mo_create, mo_start, mo_stop.
Click(kind) ==
  /\ kind = "create" => server.last < MaxModules
  /\ Acts(gui, <<Ask(kind, None)>>)

\* mo_slot_load, of which parse makes k modules.
Load(k) == server.last + k <= MaxModules /\ Acts(gui, <<Ask("load", k)>>)

\* gui_mousePressed on a widget, on one of its inputs, its output, or nowhere.
\* Selecting a widget asks for its properties, selecting none for the status.
PressWidget(i) ==
  Acts([gui EXCEPT !.selected = i, !.shown = Widget(i), !.old = @ \ {"panel"}],
       <<Ask("properties", Widget(i))>>)
PressInput(i, k) ==
  Acts([gui EXCEPT !.drag.input = <<Widget(i), k>>, !.old = @ \ {"input"}], <<>>)
PressOutput(i) ==
  Acts([gui EXCEPT !.drag.output = Widget(i), !.lastOutput = Widget(i),
                   !.old = @ \ {"output"}], <<>>)
PressNowhere ==
  Acts([gui EXCEPT !.selected = 0, !.drag = NoDrag, !.shown = None], <<Ask("status", None)>>)

\* The end of gui_mouseReleased, which fails when the index of the selected
\* widget is no index.
Released(g) ==
  IF g.selected = 0 \/ (g.selected # None /\ g.selected \in DOMAIN g.widgets)
    THEN [g EXCEPT !.selected = 0, !.drag = NoDrag]
    ELSE [g EXCEPT !.threw = TRUE]

\* Released over the other end: drawn, unless on a widget that is gone, and
\* sent.  A drag from an input is ignored when it ends at the widget of the
\* last drag from an output.
ReleaseOn(i, k) ==
  LET w == Widget(i)
      out == IF gui.drag.output # None THEN gui.drag.output ELSE w
      in == IF gui.drag.output # None THEN <<w, k>> ELSE gui.drag.input
      gone == (IF gui.drag.output # None THEN "output" ELSE "input") \in gui.old
      drawn == IF gui.drag.output # None /\ gone THEN gui
               ELSE [gui EXCEPT !.observers[out] = Connected(@, in[1], in[2])]
  IN /\ gui.drag # NoDrag /\ (out # in[1] \/ gone)
     /\ IF w = gui.lastOutput /\ "output" \notin gui.old THEN Acts(Released(gui), <<>>)
        ELSE Acts(Released(drawn), <<Ask("connect", <<out, in[1], in[2]>>)>>)

ReleaseNowhere ==
  (gui.drag # NoDrag \/ gui.selected # 0) /\ Acts(Released(gui), <<>>)

\* The delete button of the module shown.  indexOf a widget that is no longer
\* drawn is -1, and takes the last one.
Delete ==
  LET n == Len(gui.widgets)
      at == {i \in 1..n : gui.widgets[i] = gui.shown}
      i == IF "panel" \in gui.old \/ at = {} THEN n ELSE CHOOSE j \in at : TRUE
      lost == {r \in {"input", "output"} : i # 0 /\ gui.widgets[i] =
                 IF r = "output" THEN gui.lastOutput
                 ELSE IF gui.drag.input = None THEN None ELSE gui.drag.input[1]}
  IN /\ gui.shown # None
     /\ Acts([gui EXCEPT !.widgets = IF i = 0 THEN @ ELSE Without(@, i),
                         !.selected = None, !.shown = None, !.old = @ \cup lost],
             <<Ask("remove", gui.shown)>>)

Init ==
  /\ server = [modules |-> {}, connections |-> {}, running |-> FALSE, last |-> 0]
  /\ net = <<Ask("status", None)>>
  /\ gui = Bootstrap
  /\ actions = 0

User ==
  \/ \E kind \in {"create", "start", "stop"} : Click(kind)
  \/ \E k \in 0..Slot : Load(k)
  \/ PressNowhere \/ ReleaseNowhere \/ Delete
  \/ \E i \in DOMAIN gui.widgets :
       \/ PressWidget(i) \/ PressOutput(i)
       \/ \E k \in Inputs : PressInput(i, k) \/ ReleaseOn(i, k)

Next == User \/ \E i \in DOMAIN net : Receive(i) \/ Serve(i)

Spec == Init /\ [][Next]_vars
-----------------------------------------------------------------------------
(* When nothing is under way every module of the pipeline has a widget,    *)
(* and the page says whether the pipeline runs, whatever the user did      *)
(* while answers were outstanding.                                         *)
QuietPageIsComplete ==
  net = <<>> => /\ server.modules \subseteq Range(gui.widgets)
                /\ gui.running = server.running
-----------------------------------------------------------------------------
(* The proof that a quiet page is complete, when the answers keep the      *)
(* order of the requests.  A request that changes the pipeline asks for    *)
(* the status once it is answered, and the last status under way tells     *)
(* what the pipeline is like now: nothing that was answered after it can   *)
(* have changed the pipeline.                                              *)

PageAssumption == Ordered = TRUE /\ Slot \in Nat

Changes == {"create", "remove", "start", "stop", "load"}
Quiet == {"connect", "properties"}
Kinds == Changes \cup Quiet \cup {"status"}
Links == Nat \X Nat \X Nat

Pipelines == [modules : SUBSET Nat, connections : SUBSET Links, running : BOOLEAN, last : Nat]
PipelineOK(s) == s \in Pipelines /\ IsFiniteSet(s.modules)

PageOK(g) ==
  /\ DOMAIN g = DOMAIN Bootstrap
  /\ g.widgets \in Seq(Nat)
  /\ g.shown \in Nat \cup {None}
  /\ g.drag \in [input : (Nat \X Inputs) \cup {None}, output : Nat \cup {None}]

Messages == [kind : Kinds, args : Nat \cup Links \cup {None}, answered : BOOLEAN,
             data : Pipelines \cup Nat \cup {None}]
MessageOK(m) ==
  /\ m \in Messages
  /\ m.kind = "connect" => m.args \in Links
  /\ m.kind = "load" => m.args \in Nat
  /\ m.kind = "create" /\ m.answered => m.data \in Nat
  /\ m.kind = "status" /\ m.answered => PipelineOK(m.data)

\* Requests are answered in order.
NetOK(q) ==
  /\ q \in Seq(Messages)
  /\ \A i \in 1..Len(q) : MessageOK(q[i])
  /\ \A i, j \in 1..Len(q) : i < j /\ q[j].answered => q[i].answered

\* A change whose callback is to come, or a status that is still to be answered.
Owed(q) ==
  \E i \in 1..Len(q) : q[i].kind \in Changes \/ (q[i].kind = "status" /\ ~q[i].answered)

\* The last status tells the truth.
Told(q, s) ==
  \A i \in 1..Len(q) :
    q[i].kind = "status" /\ (\A j \in 1..Len(q) : j > i => q[j].kind # "status")
      => q[i].data.modules = s.modules /\ q[i].data.running = s.running

NoStatus(q) == \A i \in 1..Len(q) : q[i].kind # "status"

Shows(g, s) == s.modules \subseteq Range(g.widgets) /\ g.running = s.running

PageInv ==
  /\ PipelineOK(server) /\ PageOK(gui) /\ NetOK(net)
  /\ Owed(net) \/ (Told(net, server) /\ (NoStatus(net) => Shows(gui, server)))

\* The modules of a status, in order, are all of them.
LEMMA InOrderListsAll ==
  ASSUME NEW ms \in SUBSET Nat, IsFiniteSet(ms)
  PROVE  /\ InOrder(ms) \in Seq(Nat)
         /\ \A m \in ms : \E k \in 1..Len(InOrder(ms)) : InOrder(ms)[k] = m
<1> DEFINE UpTo(m) == {x \in ms : x <= m}
           c == Cardinality(ms)
<1>1. c \in Nat
  BY FS_CardinalityType
<1>2. ASSUME NEW m \in ms
      PROVE  /\ m \in Nat /\ UpTo(m) \in SUBSET ms /\ m \in UpTo(m)
             /\ Cardinality(UpTo(m)) \in 1..c /\ IsFiniteSet(UpTo(m))
  <2>1. m \in Nat /\ UpTo(m) \in SUBSET ms /\ m \in UpTo(m)
    OBVIOUS
  <2> HIDE DEF UpTo
  <2>2. IsFiniteSet(UpTo(m)) /\ Cardinality(UpTo(m)) <= c /\ Cardinality(UpTo(m)) \in Nat
    BY <2>1, FS_Subset, FS_CardinalityType
  <2>3. Cardinality(UpTo(m)) # 0
    BY <2>1, <2>2, FS_EmptySet
  <2> QED
    BY <1>1, <2>1, <2>2, <2>3
<1>3. ASSUME NEW k \in ms, NEW l \in ms, k < l
      PROVE  Cardinality(UpTo(k)) # Cardinality(UpTo(l))
  <2>1. UpTo(k) \in SUBSET UpTo(l) /\ l \notin UpTo(k) /\ l \in UpTo(l)
    <3>1. \A x \in ms : x <= k => x <= l
      BY <1>3
    <3>2. ~(l <= k)
      BY <1>3
    <3> QED
      BY <1>2, <3>1, <3>2, Zenon
  <2> HIDE DEF UpTo
  <2>2. Cardinality(UpTo(l)) = Cardinality(UpTo(k)) => UpTo(l) = UpTo(k)
    BY <1>2, <2>1, FS_Subset
  <2> QED
    BY <2>1, <2>2, Zenon
<1>4. InOrder(ms) = [k \in 1..c |-> CHOOSE m \in ms : Cardinality(UpTo(m)) = k]
  BY DEF InOrder
<1> HIDE DEF UpTo
\* Every place is taken: the ranks are injective, hence onto.
<1>5. \A k \in 1..c : \E m \in ms : Cardinality(UpTo(m)) = k
  <2> DEFINE rank == [m \in ms |-> Cardinality(UpTo(m))]
  <2>1. rank \in [ms -> 1..c]
    BY <1>2
  <2>2. \A k, l \in ms : rank[k] = rank[l] => k = l
    <3> SUFFICES ASSUME NEW k \in ms, NEW l \in ms, k # l PROVE rank[k] # rank[l]
      OBVIOUS
    <3>1. k < l \/ l < k
      BY <1>2
    <3> QED
      BY <1>3, <3>1
  <2> HIDE DEF rank
  <2>3. rank \in Injection(ms, 1..c)
    BY <2>1, <2>2 DEF Injection, IsInjective
  <2>4. IsFiniteSet(1..c) /\ Cardinality(1..c) = c
    BY <1>1, FS_Interval
  <2>5. rank \in Surjection(ms, 1..c)
    BY <2>3, <2>4, FS_Injection
  <2>6. \A k \in 1..c : \E m \in ms : rank[m] = k
    BY <2>5 DEF Surjection
  <2> QED
    BY <2>6 DEF rank
<1>6. \A k \in 1..c : InOrder(ms)[k] \in ms /\ Cardinality(UpTo(InOrder(ms)[k])) = k
  BY <1>4, <1>5, Zenon
<1>7. InOrder(ms) \in Seq(Nat) /\ Len(InOrder(ms)) = c
  <2>1. \A k \in 1..c : InOrder(ms)[k] \in Nat
    BY <1>6, Zenon
  <2>2. InOrder(ms) \in [1..c -> Nat]
    BY <1>4, <2>1, Zenon
  <2> QED
    BY <1>1, <2>2
<1>8. ASSUME NEW m \in ms PROVE InOrder(ms)[Cardinality(UpTo(m))] = m
  <2> DEFINE k == Cardinality(UpTo(m))
             n == InOrder(ms)[k]
  <2>1. k \in 1..c
    BY <1>2
  <2>2. n \in ms /\ Cardinality(UpTo(n)) = k
    BY <1>6, <2>1, Zenon
  <2>3. n \in Nat /\ m \in Nat
    BY <2>2, Zenon
  <2> HIDE DEF n
  <2>4. ~(n < m) /\ ~(m < n)
    BY <1>3, <2>2
  <2> QED
    BY <2>3, <2>4 DEF n
<1> QED
  BY <1>2, <1>7, <1>8

\* What the callback of a status leaves on the page.
LEMMA StatusIsShown ==
  ASSUME NEW g, NEW s, PageOK(g), PipelineOK(s)
  PROVE  PageOK(StatusArrives(g, s)) /\ Shows(StatusArrives(g, s), s)
<1> DEFINE new == InOrder(s.modules \ Range(g.widgets))
           all == g.widgets \o new
           r == StatusArrives(g, s)
<1>1. s.modules \in SUBSET Nat /\ IsFiniteSet(s.modules) /\ g.widgets \in Seq(Nat)
  BY DEF PipelineOK, Pipelines, PageOK
<1>2. IsFiniteSet(s.modules \ Range(g.widgets))
  BY <1>1, FS_Difference, Zenon
<1>3. /\ new \in Seq(Nat)
      /\ \A m \in s.modules \ Range(g.widgets) : \E k \in 1..Len(new) : new[k] = m
  BY <1>1, <1>2, InOrderListsAll, Zenon
<1>4. /\ DOMAIN r = DOMAIN g /\ r.widgets = all /\ r.running = s.running /\ r.drag = g.drag
      /\ r.shown = g.shown
  BY DEF StatusArrives, PageOK, Bootstrap
<1> HIDE DEF new, r
<1>5. all \in Seq(Nat) /\ Len(all) = Len(g.widgets) + Len(new)
      /\ (\A k \in 1..Len(g.widgets) : all[k] = g.widgets[k])
      /\ (\A k \in 1..Len(new) : all[Len(g.widgets) + k] = new[k])
  BY <1>1, <1>3
<1>6. ASSUME NEW m \in s.modules PROVE m \in Range(all)
  <2> HIDE DEF all
  <2>1. CASE m \in Range(g.widgets)
    <3>1. PICK k \in 1..Len(g.widgets) : g.widgets[k] = m
      BY <1>1, <2>1 DEF Range
    <3>2. k \in DOMAIN all /\ all[k] = m
      BY <1>1, <1>3, <1>5, <3>1, SMT, SMTT(30)
    <3> QED
      BY <3>2, Zenon DEF Range
  <2>2. CASE m \notin Range(g.widgets)
    <3>1. PICK k \in 1..Len(new) : new[k] = m
      BY <1>3, <2>2
    <3>2. Len(g.widgets) \in Nat /\ Len(new) \in Nat /\ DOMAIN all = 1..Len(all)
      BY <1>1, <1>3, <1>5, SMT, SMTT(30)
    <3>3. Len(g.widgets) + k \in 1..Len(all)
      BY <1>5, <3>1, <3>2
    <3>4. all[Len(g.widgets) + k] = m
      BY <1>5, <3>1, Zenon
    <3> QED
      BY <3>2, <3>3, <3>4, Zenon DEF Range
  <2> QED
    BY <2>1, <2>2
<1>7. PageOK(r)
  BY <1>4, <1>5 DEF PageOK
<1>8. Shows(r, s)
  BY <1>4, <1>6 DEF Shows
<1> QED
  BY <1>7, <1>8 DEF r

\* What a handler of the daemon leaves of the pipeline.
LEMMA HandlersKeepTypes ==
  ASSUME PageAssumption, NEW s, PipelineOK(s), NEW m, MessageOK(m)
  PROVE  /\ PipelineOK(Handled(s, m))
         /\ m.kind \notin Changes =>
              /\ Handled(s, m).modules = s.modules /\ Handled(s, m).running = s.running
<1> DEFINE h == Handled(s, m)
<1>1. /\ s.modules \in SUBSET Nat /\ s.connections \in SUBSET Links /\ s.running \in BOOLEAN
      /\ s.last \in Nat /\ IsFiniteSet(s.modules) /\ s \in Pipelines
  BY DEF PipelineOK, Pipelines
<1>2. m.kind \in Kinds
  BY DEF MessageOK, Messages
<1>3. CASE m.kind = "create"
  <2> DEFINE n == s.last + 1
             ms == s.modules \cup {n}
  <2>1. h = [s EXCEPT !.modules = ms, !.last = n]
    BY <1>3 DEF Handled
  <2>2. n \in Nat /\ ms \in SUBSET Nat
    BY <1>1
  <2>3. IsFiniteSet(ms)
    BY <1>1, FS_AddElement
  <2> HIDE DEF n, ms
  <2>4. h \in Pipelines /\ h.modules = ms
    BY <1>1, <2>1, <2>2, Zenon DEF Pipelines
  <2> QED
    BY <1>3, <2>3, <2>4 DEF PipelineOK, Changes
<1>4. CASE m.kind = "remove"
  <2> DEFINE ms == s.modules \ {m.args}
             cs == {c \in s.connections : m.args \notin {c[1], c[2]}}
  <2>1. h = s \/ h = [s EXCEPT !.modules = ms, !.running = FALSE, !.connections = cs]
    BY <1>4 DEF Handled
  <2>2. IsFiniteSet(ms)
    BY <1>1, FS_RemoveElement
  <2>3. ms \in SUBSET Nat /\ cs \in SUBSET Links /\ FALSE \in BOOLEAN
    BY <1>1
  <2> HIDE DEF ms, cs
  <2>4. h \in Pipelines /\ (h.modules = s.modules \/ h.modules = ms)
    BY <1>1, <2>1, <2>3, Zenon, ZenonT(30) DEF Pipelines
  <2> QED
    BY <1>1, <1>4, <2>2, <2>4 DEF PipelineOK, Changes
<1>5. CASE m.kind = "connect"
  <2> DEFINE cs == {c \in s.connections : <<c[2], c[3]>> # <<m.args[2], m.args[3]>>} \cup {m.args}
  <2>1. m.args \in Links
    BY <1>5 DEF MessageOK
  <2>2. h = s \/ h = [s EXCEPT !.connections = cs]
    BY <1>5 DEF Handled
  <2>3. cs \in SUBSET Links
    BY <1>1, <2>1
  <2> HIDE DEF cs
  <2>4. h \in Pipelines /\ h.modules = s.modules /\ h.running = s.running
    BY <1>1, <2>2, <2>3 DEF Pipelines
  <2> QED
    BY <1>1, <2>4 DEF PipelineOK
<1>6. CASE m.kind \in {"start", "stop"}
  <2>1. h = [s EXCEPT !.running = m.kind = "start"]
    BY <1>6 DEF Handled
  <2>2. h \in Pipelines /\ h.modules = s.modules
    BY <1>1, <2>1, Zenon DEF Pipelines
  <2> QED
    BY <1>1, <1>6, <2>2 DEF PipelineOK, Changes
<1>7. CASE m.kind = "load"
  <2> DEFINE n == s.last + m.args
             ms == 1..m.args
  <2>1. h = [s EXCEPT !.modules = ms, !.last = n, !.running = FALSE, !.connections = {}]
    BY <1>7 DEF Handled
  <2>2. n \in Nat /\ m.args \in Nat /\ 1 \in Nat
    BY <1>1, <1>7 DEF MessageOK
  <2> HIDE DEF n
  <2>3. ms \in SUBSET Nat
    BY <2>2
  <2>4. IsFiniteSet(ms)
    BY <2>2, FS_Interval
  <2> HIDE DEF ms
  <2>5. h \in Pipelines /\ h.modules = ms
    BY <1>1, <2>1, <2>2, <2>3, Zenon DEF Pipelines
  <2> QED
    BY <1>7, <2>4, <2>5 DEF PipelineOK, Changes
<1>8. CASE m.kind \in {"status", "properties"}
  <2>1. h = s
    BY <1>8 DEF Handled
  <2> QED
    BY <2>1
<1> QED
  BY <1>2, <1>3, <1>4, <1>5, <1>6, <1>7, <1>8, SMTT(30) DEF Kinds, Changes, Quiet

\* New requests, which are not answered yet.
AsksOK(asks) ==
  /\ asks \in Seq(Messages)
  /\ \A i \in 1..Len(asks) : MessageOK(asks[i]) /\ ~asks[i].answered

LEMMA AskIsOK ==
  ASSUME NEW kind \in Kinds, NEW args \in Nat \cup Links \cup {None},
         kind = "connect" => args \in Links, kind = "load" => args \in Nat
  PROVE  /\ AsksOK(<<Ask(kind, args)>>) /\ Len(<<Ask(kind, args)>>) = 1
         /\ <<Ask(kind, args)>>[1].kind = kind
<1> DEFINE a == Ask(kind, args)
<1>1. a \in Messages /\ a.kind = kind /\ a.args = args /\ a.answered = FALSE
  BY DEF Ask, Messages
<1>2. MessageOK(a) /\ ~a.answered
  BY <1>1 DEF MessageOK
<1> HIDE DEF a
<1> QED
  BY <1>1, <1>2 DEF a, AsksOK

\* Requests join the others at the end.
LEMMA AskedNet ==
  ASSUME NEW q, NEW asks, NetOK(q), AsksOK(asks)
  PROVE  /\ NetOK(q \o asks) /\ Len(q \o asks) = Len(q) + Len(asks)
         /\ Len(q) \in Nat /\ Len(asks) \in Nat
         /\ \A i \in 1..Len(q) : (q \o asks)[i] = q[i]
         /\ \A i \in 1..Len(asks) : (q \o asks)[Len(q) + i] = asks[i]
         /\ \A i \in 1..Len(q \o asks) : i \in 1..Len(q) \/ i - Len(q) \in 1..Len(asks)
<1> DEFINE r == q \o asks
<1>1. q \in Seq(Messages) /\ asks \in Seq(Messages)
  BY DEF NetOK, AsksOK
<1>2. /\ r \in Seq(Messages) /\ Len(r) = Len(q) + Len(asks) /\ Len(q) \in Nat /\ Len(asks) \in Nat
      /\ \A i \in 1..Len(q) : r[i] = q[i]
      /\ \A i \in 1..Len(asks) : r[Len(q) + i] = asks[i]
  BY <1>1
<1>3. \A i \in 1..Len(r) : i \in 1..Len(q) \/ i - Len(q) \in 1..Len(asks)
  BY <1>2
<1>4. \A i \in 1..Len(r) : i \notin 1..Len(q) => r[i] = asks[i - Len(q)]
  <2> SUFFICES ASSUME NEW i \in 1..Len(r), i \notin 1..Len(q) PROVE r[i] = asks[i - Len(q)]
    OBVIOUS
  <2>1. i - Len(q) \in 1..Len(asks) /\ Len(q) + (i - Len(q)) = i
    BY <1>2, <1>3
  <2> QED
    BY <1>2, <2>1
<1> HIDE DEF r
<1>5. ASSUME NEW i \in 1..Len(r) PROVE MessageOK(r[i]) /\ (i \notin 1..Len(q) => ~r[i].answered)
  <2>1. CASE i \in 1..Len(q)
    BY <1>2, <2>1, Zenon DEF NetOK
  <2>2. CASE i \notin 1..Len(q)
    BY <1>3, <1>4, <2>2, Zenon DEF AsksOK
  <2> QED
    BY <2>1, <2>2
<1>6. ASSUME NEW i \in 1..Len(r), NEW j \in 1..Len(r), i < j, r[j].answered
      PROVE  r[i].answered
  <2>1. j \in 1..Len(q)
    BY <1>5, <1>6, Zenon
  <2>2. i \in 1..Len(q)
    BY <1>2, <1>6, <2>1
  <2> QED
    BY <1>2, <1>6, <2>1, <2>2, Zenon DEF NetOK
<1>7. NetOK(r)
  BY <1>2, <1>5, <1>6, Zenon DEF NetOK
<1> QED
  BY <1>2, <1>3, <1>7, Zenon DEF r

\* What the page asks for when it already owes, or when it asks for a status.
LEMMA AskedIsOwed ==
  ASSUME NEW q, NEW asks, NetOK(q), AsksOK(asks),
         \/ Owed(q)
         \/ \E i \in 1..Len(asks) : asks[i].kind \in Changes \cup {"status"}
  PROVE  Owed(q \o asks)
<1> DEFINE r == q \o asks
<1>1. /\ Len(r) = Len(q) + Len(asks) /\ Len(q) \in Nat /\ Len(asks) \in Nat
      /\ \A i \in 1..Len(q) : r[i] = q[i]
      /\ \A i \in 1..Len(asks) : r[Len(q) + i] = asks[i]
  BY AskedNet
<1> HIDE DEF r
<1>2. CASE Owed(q)
  <2>1. PICK i \in 1..Len(q) : q[i].kind \in Changes \/ (q[i].kind = "status" /\ ~q[i].answered)
    BY <1>2, Zenon DEF Owed
  <2>2. i \in 1..Len(r)
    BY <1>1
  <2>3. r[i] = q[i]
    BY <1>1
  <2>4. Owed(r)
    BY <2>1, <2>2, <2>3, Zenon DEF Owed
  <2> QED
    BY <2>4 DEF r
<1>3. CASE \E i \in 1..Len(asks) : asks[i].kind \in Changes \cup {"status"}
  <2>1. PICK i \in 1..Len(asks) : asks[i].kind \in Changes \cup {"status"}
    BY <1>3, Zenon
  <2>2. Len(q) + i \in 1..Len(r)
    BY <1>1
  <2>3. r[Len(q) + i] = asks[i] /\ ~asks[i].answered
    BY <1>1, Zenon DEF AsksOK
  <2>4. Owed(r)
    BY <2>1, <2>2, <2>3, Zenon DEF Owed
  <2> QED
    BY <2>4 DEF r
<1> QED
  BY <1>2, <1>3, Zenon

\* An action of the user asks for the status, or changes neither the widgets
\* nor the pipeline.
LEMMA ActsKeepInv ==
  ASSUME PageInv, NEW g, NEW asks, PageOK(g), AsksOK(asks), Acts(g, asks),
         \/ /\ g.widgets = gui.widgets /\ g.running = gui.running
            /\ \A i \in 1..Len(asks) : asks[i].kind \in Quiet
         \/ \E i \in 1..Len(asks) : asks[i].kind \in Changes \cup {"status"}
  PROVE  PageInv'
<1> DEFINE r == net \o asks
<1>1. PipelineOK(server) /\ NetOK(net) /\ server' = server /\ gui' = g /\ net' = r
  BY Zenon DEF PageInv, Acts
<1>2. NetOK(r)
  BY <1>1, AskedNet, Zenon
<1>3. CASE Owed(net) \/ \E i \in 1..Len(asks) : asks[i].kind \in Changes \cup {"status"}
  <2>1. Owed(r)
    BY <1>1, <1>3, AskedIsOwed, Zenon
  <2> QED
    BY <1>1, <1>2, <2>1, Zenon DEF PageInv
<1>4. CASE /\ ~Owed(net)
           /\ ~\E i \in 1..Len(asks) : asks[i].kind \in Changes \cup {"status"}
  <2>1. /\ Told(net, server) /\ (NoStatus(net) => Shows(gui, server))
        /\ g.widgets = gui.widgets /\ g.running = gui.running
        /\ \A i \in 1..Len(asks) : asks[i].kind \in Quiet
    BY <1>4, Zenon DEF PageInv
  <2>2. /\ Len(r) = Len(net) + Len(asks) /\ Len(net) \in Nat /\ Len(asks) \in Nat
        /\ \A i \in 1..Len(net) : r[i] = net[i]
        /\ \A i \in 1..Len(asks) : r[Len(net) + i] = asks[i]
        /\ \A i \in 1..Len(r) : i \in 1..Len(net) \/ i - Len(net) \in 1..Len(asks)
    BY <1>1, AskedNet
  <2> HIDE DEF r
  <2>3. ASSUME NEW i \in 1..Len(r), r[i].kind = "status" PROVE i \in 1..Len(net)
    <3> SUFFICES ASSUME i \notin 1..Len(net) PROVE FALSE
      OBVIOUS
    <3>1. i - Len(net) \in 1..Len(asks)
      BY <2>2, Zenon
    <3>2. Len(net) + (i - Len(net)) = i
      BY <2>2
    <3>3. r[i].kind \in Quiet
      BY <2>1, <2>2, <3>1, <3>2, Zenon, ZenonT(30)
    <3>4. "status" \notin Quiet
      BY DEF Quiet
    <3> QED
      BY <2>3, <3>3, <3>4, Zenon
  <2>4. 1..Len(net) \subseteq 1..Len(r)
    BY <2>2
  <2>5. Told(r, server)
    <3> SUFFICES ASSUME NEW i \in 1..Len(r), r[i].kind = "status",
                        \A j \in 1..Len(r) : j > i => r[j].kind # "status"
                 PROVE  r[i].data.modules = server.modules /\ r[i].data.running = server.running
      BY Zenon DEF Told
    <3>1. i \in 1..Len(net) /\ r[i] = net[i]
      BY <2>2, <2>3, Zenon
    <3>2. \A j \in 1..Len(net) : j > i => net[j].kind # "status"
      BY <2>2, <2>4, Zenon
    <3> QED
      BY <2>1, <3>1, <3>2, Zenon DEF Told
  <2>6. ASSUME NoStatus(r) PROVE Shows(g, server)
    <3>1. NoStatus(net)
      BY <2>2, <2>4, <2>6, Zenon DEF NoStatus
    <3> QED
      BY <2>1, <3>1, Zenon DEF Shows
  <2> QED
    BY <1>1, <1>2, <2>5, <2>6, Zenon DEF PageInv
<1> QED
  BY <1>3, <1>4, Zenon

LEMMA WithoutType ==
  ASSUME NEW S, NEW q \in Seq(S), NEW i \in 1..Len(q)
  PROVE  Without(q, i) \in Seq(S)
<1>1. SubSeq(q, 1, i - 1) \in Seq(S) /\ SubSeq(q, i + 1, Len(q)) \in Seq(S)
  BY SMT
<1> QED
  BY <1>1 DEF Without

\* The requests of one element, as they are sent.
LEMMA OneAsk ==
  ASSUME NEW kind \in Changes \cup {"status"}, NEW args \in Nat \cup {None},
         kind = "load" => args \in Nat
  PROVE  /\ AsksOK(<<Ask(kind, args)>>)
         /\ \E i \in 1..Len(<<Ask(kind, args)>>) :
              <<Ask(kind, args)>>[i].kind \in Changes \cup {"status"}
<1>1. kind \in Kinds /\ kind # "connect" /\ args \in Nat \cup Links \cup {None}
  BY DEF Kinds, Changes
<1>2. /\ AsksOK(<<Ask(kind, args)>>) /\ Len(<<Ask(kind, args)>>) = 1
      /\ <<Ask(kind, args)>>[1].kind = kind
  BY <1>1, AskIsOK, Zenon
<1> DEFINE a == <<Ask(kind, args)>>
<1> HIDE DEF a
<1>3. Len(a) = 1 /\ a[1].kind = kind
  BY <1>2 DEF a
<1>4. 1 \in 1..Len(a)
  BY <1>3
<1>5. \E i \in 1..Len(a) : a[i].kind \in Changes \cup {"status"}
  BY <1>3, <1>4, Zenon
<1> QED
  BY <1>2, <1>5 DEF a

LEMMA QuietAsk ==
  ASSUME NEW kind \in Quiet, NEW args \in Nat \cup Links, kind = "connect" => args \in Links
  PROVE  /\ AsksOK(<<Ask(kind, args)>>)
         /\ \A i \in 1..Len(<<Ask(kind, args)>>) : <<Ask(kind, args)>>[i].kind \in Quiet
<1> DEFINE a == <<Ask(kind, args)>>
<1>1. kind \in Kinds /\ kind # "load" /\ args \in Nat \cup Links \cup {None}
  BY DEF Kinds, Quiet
<1>2. AsksOK(a) /\ Len(a) = 1 /\ a[1].kind = kind
  BY <1>1, AskIsOK, Zenon, ZenonT(30)
<1> HIDE DEF a
<1>3. \A i \in 1..Len(a) : i = 1
  BY <1>2
<1>4. \A i \in 1..Len(a) : a[i].kind \in Quiet
  BY <1>2, <1>3, Zenon
<1> QED
  BY <1>2, <1>4 DEF a

LEMMA NoAsk ==
  AsksOK(<<>>) /\ \A i \in 1..Len(<<>>) : <<>>[i].kind \in Quiet
<1>1. <<>> \in Seq(Messages) /\ 1..Len(<<>>) = {}
  OBVIOUS
<1> QED
  BY <1>1, Zenon DEF AsksOK

\* The page after the end of a drag.
LEMMA ReleasedPage ==
  ASSUME NEW g, PageOK(g)
  PROVE  /\ PageOK(Released(g)) /\ Released(g).widgets = g.widgets
         /\ Released(g).running = g.running
<1>1. NoDrag \in [input : (Nat \X Inputs) \cup {None}, output : Nat \cup {None}]
  BY DEF NoDrag
<1>2. CASE Released(g) = [g EXCEPT !.selected = 0, !.drag = NoDrag]
  <2> DEFINE r == [g EXCEPT !.selected = 0, !.drag = NoDrag]
  <2>1. /\ DOMAIN r = DOMAIN g /\ r.widgets = g.widgets /\ r.running = g.running
        /\ r.drag = NoDrag /\ r.shown = g.shown
    BY DEF PageOK, Bootstrap
  <2> HIDE DEF r
  <2>2. PageOK(r)
    BY <1>1, <2>1 DEF PageOK
  <2> QED
    BY <1>2, <2>1, <2>2 DEF r
<1>3. CASE Released(g) = [g EXCEPT !.threw = TRUE]
  <2> DEFINE r == [g EXCEPT !.threw = TRUE]
  <2>1. /\ DOMAIN r = DOMAIN g /\ r.widgets = g.widgets /\ r.running = g.running
        /\ r.drag = g.drag /\ r.shown = g.shown
    BY DEF PageOK, Bootstrap
  <2> HIDE DEF r
  <2>2. PageOK(r)
    BY <2>1 DEF PageOK
  <2> QED
    BY <1>3, <2>1, <2>2 DEF r
<1> QED
  BY <1>2, <1>3, Zenon DEF Released

LEMMA UserKeepsInv ==
  ASSUME PageInv, User
  PROVE  PageInv'
<1> DEFINE Drags == [input : (Nat \X Inputs) \cup {None}, output : Nat \cup {None}]
<1>1. PageOK(gui) /\ gui.widgets \in Seq(Nat) /\ gui.drag \in Drags
  BY DEF PageInv, PageOK
<1>2. \A i \in DOMAIN gui.widgets : Widget(i) \in Nat
  BY <1>1 DEF Widget
<1>3. NoDrag \in Drags
  BY DEF NoDrag
<1>4. ASSUME NEW kind \in {"create", "start", "stop"}, Click(kind)
      PROVE  PageInv'
  <2>1. kind \in Changes \cup {"status"} /\ kind # "load" /\ None \in Nat \cup {None}
    BY DEF Changes
  <2> QED
    BY <1>1, <1>4, <2>1, OneAsk, ActsKeepInv, Zenon DEF Click
<1>12. ASSUME NEW k \in 0..Slot, Load(k)
       PROVE  PageInv'
  <2>1. "load" \in Changes \cup {"status"} /\ k \in Nat /\ k \in Nat \cup {None}
    BY DEF Changes
  <2> QED
    BY <1>1, <1>12, <2>1, OneAsk, ActsKeepInv, Zenon DEF Load
<1>5. CASE PressNowhere
  <2> DEFINE g == [gui EXCEPT !.selected = 0, !.drag = NoDrag, !.shown = None]
  <2>1. DOMAIN g = DOMAIN gui /\ g.widgets = gui.widgets /\ g.drag = NoDrag /\ g.shown = None
    BY <1>1 DEF PageOK, Bootstrap
  <2>2. Acts(g, <<Ask("status", None)>>)
    BY <1>5 DEF PressNowhere
  <2> HIDE DEF g
  <2>3. PageOK(g)
    BY <1>1, <1>3, <2>1 DEF PageOK
  <2>4. /\ "status" \in Changes \cup {"status"} /\ "status" # "load"
        /\ None \in Nat \cup {None}
    OBVIOUS
  <2> QED
    BY <2>2, <2>3, <2>4, OneAsk, ActsKeepInv, Zenon
<1>6. CASE ReleaseNowhere
  BY <1>1, <1>6, ReleasedPage, NoAsk, ActsKeepInv, Zenon DEF ReleaseNowhere
<1>7. ASSUME NEW i \in DOMAIN gui.widgets, PressWidget(i)
      PROVE  PageInv'
  <2> DEFINE g == [gui EXCEPT !.selected = i, !.shown = Widget(i), !.old = @ \ {"panel"}]
  <2>1. /\ DOMAIN g = DOMAIN gui /\ g.widgets = gui.widgets /\ g.running = gui.running
        /\ g.drag = gui.drag /\ g.shown = Widget(i)
    BY <1>1 DEF PageOK, Bootstrap
  <2>2. Acts(g, <<Ask("properties", Widget(i))>>)
    BY <1>7 DEF PressWidget
  <2> HIDE DEF g
  <2>3. PageOK(g)
    BY <1>1, <1>2, <2>1 DEF PageOK
  <2>4. /\ "properties" \in Quiet /\ "properties" # "connect"
        /\ Widget(i) \in Nat \cup Links
    BY <1>2 DEF Quiet
  <2> QED
    BY <2>1, <2>2, <2>3, <2>4, QuietAsk, ActsKeepInv, Zenon, ZenonT(30)
<1>8. ASSUME NEW i \in DOMAIN gui.widgets, PressOutput(i)
      PROVE  PageInv'
  <2> DEFINE g == [gui EXCEPT !.drag.output = Widget(i), !.lastOutput = Widget(i),
                              !.old = @ \ {"output"}]
  <2>1. /\ DOMAIN g = DOMAIN gui /\ g.widgets = gui.widgets /\ g.running = gui.running
        /\ g.drag = [gui.drag EXCEPT !.output = Widget(i)] /\ g.shown = gui.shown
    BY <1>1 DEF PageOK, Bootstrap
  <2>2. Acts(g, <<>>)
    BY <1>8 DEF PressOutput
  <2> HIDE DEF g
  <2>3. PageOK(g)
    BY <1>1, <1>2, <2>1, SMT, SMTT(30) DEF PageOK
  <2> QED
    BY <2>1, <2>2, <2>3, NoAsk, ActsKeepInv, Zenon, ZenonT(30)
<1>9. ASSUME NEW i \in DOMAIN gui.widgets, NEW k \in Inputs, PressInput(i, k)
      PROVE  PageInv'
  <2> DEFINE g == [gui EXCEPT !.drag.input = <<Widget(i), k>>, !.old = @ \ {"input"}]
  <2>1. /\ DOMAIN g = DOMAIN gui /\ g.widgets = gui.widgets /\ g.running = gui.running
        /\ g.drag = [gui.drag EXCEPT !.input = <<Widget(i), k>>] /\ g.shown = gui.shown
    BY <1>1 DEF PageOK, Bootstrap
  <2>2. Acts(g, <<>>)
    BY <1>9 DEF PressInput
  <2> HIDE DEF g
  <2>3. PageOK(g)
    BY <1>1, <1>2, <2>1, SMT, SMTT(30) DEF PageOK
  <2> QED
    BY <2>1, <2>2, <2>3, NoAsk, ActsKeepInv, Zenon
<1>10. CASE Delete
  <2> DEFINE n == Len(gui.widgets)
             at == {i \in 1..n : gui.widgets[i] = gui.shown}
             d == IF "panel" \in gui.old \/ at = {} THEN n ELSE CHOOSE j \in at : TRUE
             ws == IF d = 0 THEN gui.widgets ELSE Without(gui.widgets, d)
  <2>1. d \in 0..n
    <3>1. n \in Nat
      BY <1>1
    <3>2. at # {} => (CHOOSE j \in at : TRUE) \in at
      OBVIOUS
    <3> QED
      BY <3>1, <3>2
  <2>2. PICK o : Acts([gui EXCEPT !.widgets = ws, !.selected = None, !.shown = None, !.old = o],
                      <<Ask("remove", gui.shown)>>)
    BY <1>10, Zenon DEF Delete
  <2> DEFINE g == [gui EXCEPT !.widgets = ws, !.selected = None, !.shown = None, !.old = o]
  <2>3. gui.shown \in Nat
    BY <1>1, <1>10 DEF Delete, PageOK
  <2> HIDE DEF d
  <2>4. ws \in Seq(Nat)
    BY <1>1, <2>1, WithoutType
  <2> HIDE DEF ws
  <2>5. DOMAIN g = DOMAIN gui /\ g.widgets = ws /\ g.drag = gui.drag /\ g.shown = None
    BY <1>1 DEF PageOK, Bootstrap
  <2> HIDE DEF g
  <2>6. PageOK(g)
    BY <1>1, <2>4, <2>5 DEF PageOK
  <2>7. /\ "remove" \in Changes \cup {"status"} /\ gui.shown \in Nat \cup {None}
        /\ "remove" # "load"
    BY <2>3 DEF Changes
  <2>8. Acts(g, <<Ask("remove", gui.shown)>>)
    BY <2>2 DEF g
  <2> QED
    BY <2>6, <2>7, <2>8, OneAsk, ActsKeepInv, Zenon
<1>11. ASSUME NEW i \in DOMAIN gui.widgets, NEW k \in Inputs, ReleaseOn(i, k)
       PROVE  PageInv'
  <2> DEFINE w == Widget(i)
             out == IF gui.drag.output # None THEN gui.drag.output ELSE w
             in == IF gui.drag.output # None THEN <<w, k>> ELSE gui.drag.input
             gone == (IF gui.drag.output # None THEN "output" ELSE "input") \in gui.old
             drawn == IF gui.drag.output # None /\ gone THEN gui
                      ELSE [gui EXCEPT !.observers[out] = Connected(@, in[1], in[2])]
             link == <<out, in[1], in[2]>>
  <2>1. /\ gui.drag # NoDrag
        /\ Acts(Released(gui), <<>>) \/ Acts(Released(drawn), <<Ask("connect", link)>>)
    BY <1>11, Zenon DEF ReleaseOn
  <2>2. out \in Nat
    BY <1>1, <1>2
  <2>3. in \in Nat \X Inputs
    <3>1. CASE gui.drag.output # None
      BY <1>2, <3>1
    <3>2. CASE gui.drag.output = None
      <4>1. gui.drag = [input |-> gui.drag.input, output |-> gui.drag.output]
        BY <1>1
      <4>2. gui.drag.input # None
        BY <2>1, <3>2, <4>1 DEF NoDrag
      <4> QED
        BY <1>1, <3>2, <4>2, SMTT(30)
    <3> QED
      BY <3>1, <3>2
  <2>4. link \in Links
    <3> HIDE DEF in, out
    <3> QED
      BY <2>2, <2>3 DEF Links, Inputs
  <2>5. /\ DOMAIN drawn = DOMAIN gui /\ drawn.widgets = gui.widgets
        /\ drawn.running = gui.running /\ drawn.drag = gui.drag /\ drawn.shown = gui.shown
    <3> HIDE DEF in, out
    <3> QED
      BY <1>1 DEF PageOK, Bootstrap
  <2> HIDE DEF drawn, link
  <2>6. PageOK(drawn)
    BY <1>1, <2>5 DEF PageOK
  <2>7. CASE Acts(Released(gui), <<>>)
    BY <1>1, <2>7, ReleasedPage, NoAsk, ActsKeepInv, Zenon, ZenonT(30)
  <2>8. CASE Acts(Released(drawn), <<Ask("connect", link)>>)
    <3> DEFINE a == <<Ask("connect", link)>>
    <3>1. "connect" \in Quiet /\ link \in Nat \cup Links
      BY <2>4 DEF Quiet
    <3>2. AsksOK(a) /\ \A j \in 1..Len(a) : a[j].kind \in Quiet
      BY <2>4, <3>1, QuietAsk, Zenon, ZenonT(30)
    <3> HIDE DEF a
    <3>3. /\ PageOK(Released(drawn)) /\ Released(drawn).widgets = gui.widgets
          /\ Released(drawn).running = gui.running
      BY <2>5, <2>6, ReleasedPage, Zenon
    <3>4. Acts(Released(drawn), a)
      BY <2>8 DEF a
    <3> QED
      BY <3>2, <3>3, <3>4, ActsKeepInv, Zenon, ZenonT(30)
  <2> QED
    BY <2>1, <2>7, <2>8 DEF drawn, link
<1> QED
  BY <1>4, <1>5, <1>6, <1>7, <1>8, <1>9, <1>10, <1>11, <1>12, Zenon, ZenonT(30) DEF User

\* The first answer leaves.
LEMMA RestOfNet ==
  ASSUME NEW q, NetOK(q), 1 \in DOMAIN q
  PROVE  /\ Without(q, 1) = Tail(q) /\ NetOK(Tail(q))
         /\ Len(q) \in Nat /\ Len(Tail(q)) = Len(q) - 1
         /\ \A i \in 1..Len(Tail(q)) : Tail(q)[i] = q[i + 1] /\ i + 1 \in 1..Len(q)
         /\ \A i \in 1..Len(q) : i # 1 => i - 1 \in 1..Len(Tail(q)) /\ q[i] = Tail(q)[i - 1]
<1> DEFINE r == Tail(q)
<1>1. q \in Seq(Messages) /\ q # <<>> /\ Len(q) \in Nat
  BY DEF NetOK
<1>2. /\ r \in Seq(Messages) /\ Len(r) = Len(q) - 1
      /\ \A i \in 1..Len(r) : r[i] = q[i + 1]
  BY <1>1
<1>3. Without(q, 1) = r
  <2>1. SubSeq(q, 1, 0) = <<>>
    BY <1>1
  <2>2. SubSeq(q, 2, Len(q)) = r
    BY <1>1
  <2>3. <<>> \o r = r
    BY <1>2
  <2>4. Without(q, 1) = SubSeq(q, 1, 0) \o SubSeq(q, 2, Len(q))
    BY DEF Without
  <2> QED
    BY <2>1, <2>2, <2>3, <2>4, Zenon
<1> HIDE DEF r
<1>4. \A i \in 1..Len(r) : i + 1 \in 1..Len(q)
  BY <1>1, <1>2
<1>5. \A i \in 1..Len(q) : i # 1 => i - 1 \in 1..Len(r) /\ (i - 1) + 1 = i
  BY <1>1, <1>2
<1>6. \A i \in 1..Len(q) : i # 1 => q[i] = r[i - 1]
  BY <1>2, <1>5
<1>7. ASSUME NEW i \in 1..Len(r), NEW j \in 1..Len(r), i < j, r[j].answered
      PROVE  r[i].answered
  <2>1. i + 1 < j + 1 /\ i + 1 \in 1..Len(q) /\ j + 1 \in 1..Len(q)
    BY <1>4, <1>7
  <2> QED
    BY <1>2, <1>7, <2>1, Zenon DEF NetOK
<1>8. \A i \in 1..Len(r) : MessageOK(r[i])
  BY <1>2, <1>4, Zenon DEF NetOK
<1>9. NetOK(r)
  BY <1>2, <1>7, <1>8, Zenon DEF NetOK
<1> QED
  BY <1>1, <1>2, <1>3, <1>4, <1>5, <1>6, <1>9, Zenon, ZenonT(30) DEF r

LEMMA ReceiveKeepsInv ==
  ASSUME PageAssumption, PageInv, NEW i \in DOMAIN net, Receive(i)
  PROVE  PageInv'
<1> DEFINE m == net[1]
           c == Callback(m)
           r == Tail(net)
<1>1. /\ PipelineOK(server) /\ PageOK(gui) /\ NetOK(net)
      /\ Owed(net) \/ (Told(net, server) /\ (NoStatus(net) => Shows(gui, server)))
  BY Zenon DEF PageInv
<1>2. /\ i = 1 /\ m.answered /\ gui' = c.gui /\ net' = Without(net, 1) \o c.asks
      /\ server' = server
  BY Zenon DEF Receive, PageAssumption
<1>3. /\ Without(net, 1) = r /\ NetOK(r) /\ Len(net) \in Nat /\ Len(r) = Len(net) - 1
      /\ \A k \in 1..Len(r) : r[k] = net[k + 1] /\ k + 1 \in 1..Len(net)
      /\ \A k \in 1..Len(net) : k # 1 => k - 1 \in 1..Len(r) /\ net[k] = r[k - 1]
  BY <1>1, <1>2, RestOfNet, Zenon
<1>4. net \in Seq(Messages) /\ 1 \in 1..Len(net)
  BY <1>1, <1>2 DEF NetOK
<1>5. MessageOK(m) /\ m.kind \in Kinds
  BY <1>1, <1>4 DEF NetOK, MessageOK, Messages
<1> HIDE DEF r
\* The callback of a change asks for the status.
<1>6. ASSUME m.kind \in Changes
      PROVE  PageInv'
  <2> DEFINE a == Ask("status", None)
             Pair(b) == <<a, b>>
  <2>1. /\ a \in Messages /\ MessageOK(a) /\ ~a.answered /\ a.kind = "status"
        /\ \A n \in Nat : LET p == Ask("properties", n) IN
             p \in Messages /\ MessageOK(p) /\ ~p.answered
    BY DEF Ask, Messages, MessageOK, Kinds, Quiet, Changes
  <2>2. AsksOK(<<a>>) /\ \E k \in 1..Len(<<a>>) : <<a>>[k].kind \in Changes \cup {"status"}
    <3>1. "status" # "load"
      OBVIOUS
    <3> QED
      BY <3>1, OneAsk, Zenon
  <2> HIDE DEF a
  <2>3. ASSUME NEW b \in Messages, MessageOK(b), ~b.answered
        PROVE  /\ AsksOK(Pair(b))
               /\ \E k \in 1..Len(Pair(b)) : Pair(b)[k].kind \in Changes \cup {"status"}
    <3>1. /\ Pair(b) \in Seq(Messages) /\ Len(Pair(b)) = 2 /\ Pair(b)[1] = a
          /\ Pair(b)[2] = b
      BY <2>1, <2>3
    <3> HIDE DEF Pair
    <3>2. 1..Len(Pair(b)) = {1, 2}
      BY <3>1
    <3>3. AsksOK(Pair(b))
      BY <2>1, <2>3, <3>1, <3>2, Zenon, ZenonT(30) DEF AsksOK
    <3> QED
      BY <2>1, <3>1, <3>2, <3>3, Zenon, ZenonT(30)
  <2>4. /\ PageOK(c.gui)
        /\ c.asks = <<a>> \/ \E b \in Messages : MessageOK(b) /\ ~b.answered /\ c.asks = Pair(b)
    <3>1. CASE m.kind = "create"
      <4>1. m.data \in Nat
        BY <1>2, <1>5, <3>1, Zenon DEF MessageOK
      <4>2. c.gui = gui /\ c.asks = <<a, Ask("properties", m.data)>>
        BY <3>1 DEF Callback, a
      <4> QED
        BY <1>1, <2>1, <4>1, <4>2, Zenon, ZenonT(30)
    <3>2. CASE m.kind \in {"remove", "start", "stop"}
      <4>1. c.gui = gui /\ c.asks = <<a>>
        BY <3>2 DEF Callback, a
      <4> QED
        BY <1>1, <4>1, Zenon
    <3>3. CASE m.kind = "load"
      <4>1. c.gui = Reset(gui) /\ c.asks = <<a, a>>
        BY <3>3 DEF Callback, a
      <4>2. PageOK(Reset(gui))
        BY <1>1 DEF PageOK, Bootstrap, Reset
      <4> QED
        BY <2>1, <4>1, <4>2, Zenon
    <3> QED
      BY <1>6, <3>1, <3>2, <3>3, Zenon DEF Changes
  <2> HIDE DEF Pair
  <2>5. AsksOK(c.asks) /\ \E k \in 1..Len(c.asks) : c.asks[k].kind \in Changes \cup {"status"}
    BY <2>2, <2>3, <2>4, Zenon, ZenonT(30)
  <2>6. NetOK(r \o c.asks) /\ Owed(r \o c.asks)
    BY <1>3, <2>5, AskedNet, AskedIsOwed, Zenon
  <2> QED
    BY <1>1, <1>2, <1>3, <2>4, <2>6, Zenon DEF PageInv
\* The others ask for nothing.
<1>7. ASSUME m.kind \notin Changes PROVE c.asks = <<>> /\ r \o c.asks = r
  <2>1. m.kind \in {"connect", "properties", "status"}
    BY <1>5, <1>7 DEF Kinds, Quiet
  <2>2. c.asks = <<>>
    BY <2>1 DEF Callback
  <2>3. r \in Seq(Messages)
    BY <1>3, Zenon DEF NetOK
  <2>4. r \o <<>> = r
    BY <2>3
  <2> QED
    BY <2>2, <2>4, Zenon
<1>8. ASSUME m.kind \notin Changes, Owed(net) PROVE Owed(r)
  <2>1. PICK k \in 1..Len(net) : net[k].kind \in Changes \/ (net[k].kind = "status" /\ ~net[k].answered)
    BY <1>8, Zenon DEF Owed
  <2>2. k # 1
    BY <1>2, <1>8, <2>1, Zenon
  <2> QED
    BY <1>3, <2>1, <2>2, Zenon DEF Owed
<1>9. ASSUME Told(net, server) PROVE Told(r, server)
  <2> SUFFICES ASSUME NEW k \in 1..Len(r), r[k].kind = "status",
                      \A j \in 1..Len(r) : j > k => r[j].kind # "status"
               PROVE  r[k].data.modules = server.modules /\ r[k].data.running = server.running
    BY Zenon DEF Told
  <2>1. k + 1 \in 1..Len(net) /\ r[k] = net[k + 1]
    BY <1>3, Zenon
  <2>2. ASSUME NEW j \in 1..Len(net), j > k + 1 PROVE net[j].kind # "status"
    <3>1. j # 1 /\ j - 1 > k
      BY <2>2
    <3> QED
      BY <1>3, <3>1, Zenon
  <2> QED
    BY <1>9, <2>1, <2>2, Zenon DEF Told
<1>10. CASE m.kind = "status"
  <2>1. m.kind \notin Changes
    BY <1>10 DEF Changes
  <2>2. c.gui = StatusArrives(gui, m.data)
    BY <1>10 DEF Callback
  <2>3. PipelineOK(m.data)
    BY <1>2, <1>5, <1>10, Zenon DEF MessageOK
  <2>4. PageOK(c.gui) /\ Shows(c.gui, m.data)
    BY <1>1, <2>2, <2>3, StatusIsShown, Zenon
  <2>5. ASSUME Told(net, server), NoStatus(r) PROVE Shows(c.gui, server)
    <3>1. \A j \in 1..Len(net) : j > 1 => j # 1
      OBVIOUS
    <3>2. \A j \in 1..Len(net) : j > 1 => net[j].kind # "status"
      BY <1>3, <2>5, <3>1, Zenon, ZenonT(30) DEF NoStatus
    <3>3. m.data.modules = server.modules /\ m.data.running = server.running
      BY <1>4, <1>10, <2>5, <3>2, Zenon DEF Told
    <3> QED
      BY <2>4, <3>3, Zenon DEF Shows
  <2> QED
    BY <1>1, <1>2, <1>3, <1>7, <1>8, <1>9, <2>1, <2>4, <2>5, Zenon, ZenonT(30) DEF PageInv
<1>11. CASE m.kind \in Quiet
  <2>1. m.kind \notin Changes /\ m.kind # "status"
    BY <1>11 DEF Changes, Quiet
  <2>2. c.gui = gui
    BY <1>11 DEF Callback, Quiet
  <2>3. NoStatus(r) => NoStatus(net)
    BY <1>3, <2>1, Zenon DEF NoStatus
  <2> QED
    BY <1>1, <1>2, <1>3, <1>7, <1>8, <1>9, <2>1, <2>2, <2>3, Zenon, ZenonT(30) DEF PageInv
<1> QED
  BY <1>5, <1>6, <1>10, <1>11, Zenon DEF Kinds

LEMMA ServeKeepsInv ==
  ASSUME PageAssumption, PageInv, NEW i \in DOMAIN net, Serve(i)
  PROVE  PageInv'
<1> DEFINE m == net[i]
           s == Handled(server, m)
           a == [m EXCEPT !.answered = TRUE, !.data = IF m.kind = "create" THEN s.last ELSE s]
           q == [net EXCEPT ![i] = a]
<1>1. /\ PipelineOK(server) /\ PageOK(gui) /\ NetOK(net)
      /\ Owed(net) \/ (Told(net, server) /\ (NoStatus(net) => Shows(gui, server)))
  BY Zenon DEF PageInv
<1>2. /\ ~m.answered /\ (\A j \in 1..i - 1 : net[j].answered)
      /\ server' = s /\ gui' = gui
  BY Zenon DEF Serve, PageAssumption
<1>3. net \in Seq(Messages) /\ i \in 1..Len(net) /\ Len(net) \in Nat /\ m \in Messages
  BY <1>1 DEF NetOK
<1>4. net' = q
  BY <1>3, Zenon DEF Serve, Messages
<1>5. MessageOK(m) /\ m.kind \in Kinds
  BY <1>1, <1>3 DEF NetOK, MessageOK, Messages
<1>6. PipelineOK(s) /\ (m.kind \notin Changes => s.modules = server.modules /\ s.running = server.running)
  BY <1>1, <1>5, HandlersKeepTypes, Zenon
<1>7. a \in Messages /\ a.kind = m.kind /\ a.args = m.args /\ a.answered = TRUE
      /\ (a.kind # "create" => a.data = s) /\ (a.kind = "create" => a.data \in Nat)
  <2>1. s \in Pipelines /\ s.last \in Nat
    BY <1>6 DEF PipelineOK, Pipelines
  <2> HIDE DEF s
  <2> QED
    BY <1>3, <2>1, Zenon DEF Messages
<1>8. MessageOK(a)
  <2> HIDE DEF a, s, m
  <2> QED
    BY <1>5, <1>6, <1>7 DEF MessageOK
<1> HIDE DEF a, s
<1>9. /\ q \in Seq(Messages) /\ Len(q) = Len(net) /\ q[i] = a
      /\ \A j \in 1..Len(net) : j # i => q[j] = net[j]
  BY <1>3, <1>7
<1> HIDE DEF q
<1>10. \A j \in 1..Len(net) : q[j].kind = net[j].kind
  BY <1>7, <1>9, Zenon
<1>11. \A j \in 1..Len(net) : MessageOK(q[j])
  BY <1>1, <1>8, <1>9, Zenon DEF NetOK
<1>12. ASSUME NEW j \in 1..Len(net), NEW k \in 1..Len(net), j < k, q[k].answered
       PROVE  q[j].answered
  <2>1. CASE j = i
    BY <1>7, <1>9, <2>1
  <2>2. CASE j # i /\ k = i
    <3>1. j \in 1..i - 1
      BY <1>3, <1>12, <2>2
    <3> QED
      BY <1>2, <1>9, <2>2, <3>1, Zenon
  <2>3. CASE j # i /\ k # i
    BY <1>1, <1>9, <1>12, <2>3, Zenon DEF NetOK
  <2> QED
    BY <2>1, <2>2, <2>3
<1>13. NetOK(q)
  BY <1>9, <1>11, <1>12, Zenon DEF NetOK
\* Only an answer to the last status leaves nothing owed.
<1>14. ASSUME ~Owed(q)
       PROVE  Told(q, s) /\ (NoStatus(q) => Shows(gui, s))
  <2>1. \A j \in 1..Len(net) : net[j].kind \notin Changes
    BY <1>9, <1>10, <1>14, Zenon DEF Owed
  <2>2. s.modules = server.modules /\ s.running = server.running
    BY <1>3, <1>6, <2>1, Zenon
  <2>3. CASE m.kind = "status"
    <3>1. a.data = s
      BY <1>7, <2>3
    <3>2. ASSUME NEW j \in 1..Len(net), j > i PROVE q[j].kind # "status"
      <4>1. ~net[j].answered
        BY <1>1, <1>2, <1>3, <3>2, SMTT(30) DEF NetOK
      <4>2. j # i
        BY <1>3, <3>2
      <4>3. ~q[j].answered
        BY <1>9, <4>1, <4>2, Zenon
      <4> QED
        BY <1>9, <1>14, <4>3, Zenon DEF Owed
    <3>3. Told(q, s)
      <4> SUFFICES ASSUME NEW j \in 1..Len(q), q[j].kind = "status",
                          \A k \in 1..Len(q) : k > j => q[k].kind # "status"
                   PROVE  q[j].data.modules = s.modules /\ q[j].data.running = s.running
        BY Zenon DEF Told
      <4>1. ~(j > i)
        BY <1>9, <3>2, Zenon
      <4>2. ~(i > j)
        BY <1>3, <1>7, <1>9, <2>3, Zenon, ZenonT(30)
      <4>3. j = i
        BY <1>3, <1>9, <4>1, <4>2, SMT, SMTT(30)
      <4> QED
        BY <1>9, <3>1, <4>3, Zenon
    <3>4. ~NoStatus(q)
      BY <1>3, <1>9, <1>10, <2>3, Zenon, ZenonT(30) DEF NoStatus
    <3> QED
      BY <3>3, <3>4
  <2>4. CASE m.kind # "status"
    <3>1. ~Owed(net)
      <4> SUFFICES ASSUME NEW j \in 1..Len(net), net[j].kind = "status", ~net[j].answered
                   PROVE  FALSE
        BY <2>1, Zenon DEF Owed
      <4>1. j # i
        BY <2>4, Zenon
      <4> QED
        BY <1>9, <1>14, <4>1, Zenon DEF Owed
    <3>2. Told(net, server) /\ (NoStatus(net) => Shows(gui, server))
      BY <1>1, <3>1, Zenon
    <3>3. Told(q, s)
      <4> SUFFICES ASSUME NEW j \in 1..Len(q), q[j].kind = "status",
                          \A k \in 1..Len(q) : k > j => q[k].kind # "status"
                   PROVE  q[j].data.modules = s.modules /\ q[j].data.running = s.running
        BY Zenon DEF Told
      <4>1. j \in 1..Len(net) /\ net[j].kind = "status"
            /\ \A k \in 1..Len(net) : k > j => net[k].kind # "status"
        BY <1>9, <1>10, Zenon
      <4>2. q[j] = net[j]
        BY <1>9, <2>4, <4>1, Zenon
      <4> QED
        BY <2>2, <3>2, <4>1, <4>2, Zenon, ZenonT(30) DEF Told
    <3>4. ASSUME NoStatus(q) PROVE Shows(gui, s)
      <4>1. NoStatus(net)
        BY <1>9, <1>10, <3>4, Zenon DEF NoStatus
      <4> QED
        BY <2>2, <3>2, <4>1, Zenon DEF Shows
    <3> QED
      BY <3>3, <3>4
  <2> QED
    BY <2>3, <2>4
<1> QED
  BY <1>1, <1>2, <1>4, <1>6, <1>13, <1>14, Zenon, ZenonT(30) DEF PageInv

(* For every pipeline, number of actions and requests under way: when the  *)
(* answers of the daemon keep the order of the requests of the page, a     *)
(* page with nothing under way shows every module of the pipeline and      *)
(* whether it runs, although widgets are only added by the callback of     *)
(* mo_status and other callbacks change or clear the page in between.      *)
THEOREM QuietPageIsAlwaysComplete ==
  ASSUME PageAssumption
  PROVE  Spec => []QuietPageIsComplete
<1>1. Init => PageInv
  <2> SUFFICES ASSUME Init PROVE PageInv
    OBVIOUS
  <2> DEFINE one == <<Ask("status", None)>>
  <2>1. /\ server = [modules |-> {}, connections |-> {}, running |-> FALSE, last |-> 0]
        /\ net = one /\ gui = Bootstrap
    BY DEF Init
  <2>2. PipelineOK(server)
    BY <2>1, FS_EmptySet DEF PipelineOK, Pipelines
  <2>3. PageOK(gui)
    BY <2>1 DEF PageOK, Bootstrap, NoDrag
  <2>4. AsksOK(one) /\ \E i \in 1..Len(one) : one[i].kind \in Changes \cup {"status"}
    <3>1. "status" # "load"
      OBVIOUS
    <3> QED
      BY <3>1, OneAsk, Zenon
  <2> HIDE DEF one
  <2>5. NetOK(net) /\ Owed(net)
    BY <2>1, <2>4, Zenon DEF NetOK, AsksOK, Owed
  <2> QED
    BY <2>2, <2>3, <2>5, Zenon DEF PageInv
<1>2. PageInv /\ [Next]_vars => PageInv'
  <2> SUFFICES ASSUME PageInv, [Next]_vars PROVE PageInv'
    OBVIOUS
  <2>1. CASE User
    BY <2>1, UserKeepsInv
  <2>2. ASSUME NEW i \in DOMAIN net, Receive(i) PROVE PageInv'
    BY <2>2, ReceiveKeepsInv
  <2>3. ASSUME NEW i \in DOMAIN net, Serve(i) PROVE PageInv'
    BY <2>3, ServeKeepsInv
  <2>4. CASE UNCHANGED vars
    BY <2>4, Zenon DEF vars, PageInv
  <2> QED
    BY <2>1, <2>2, <2>3, <2>4, Zenon DEF Next
<1>3. PageInv => QuietPageIsComplete
  <2> SUFFICES ASSUME PageInv, net = <<>>
               PROVE  server.modules \subseteq Range(gui.widgets) /\ gui.running = server.running
    BY Zenon DEF QuietPageIsComplete
  <2>1. 1..Len(net) = {}
    OBVIOUS
  <2>2. ~Owed(net) /\ NoStatus(net)
    BY <2>1, Zenon DEF Owed, NoStatus
  <2> QED
    BY <2>2, Zenon DEF PageInv, Shows
<1> QED
  BY <1>1, <1>2, <1>3, PTL DEF Spec
=============================================================================

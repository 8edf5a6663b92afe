---------------------------- MODULE PresetSlots ----------------------------
(***************************************************************************)
(* Saving a pipeline to a slot and loading it, in this process or a later  *)
(* one: moPipeline::serializeCreation and parse, moModule::createId and    *)
(* the serialisation of modules, properties and connections.               *)
(*                                                                         *)
(* The modules are of the classes Tuio and Tuio2, the two registered ones  *)
(* of which one name is the other and a digit; an id is the number that    *)
(* follows "Tuio" in its text.  Every module has one output and, of its    *)
(* properties, id and one string or double.  What a value becomes on the   *)
(* way through asString, the file and set is the function Reread; a file   *)
(* is a sequence of commands.  Formats are left to ModuleGraph.            *)
(***************************************************************************)
EXTENDS Integers, Sequences, FiniteSets, SequencesExt

CONSTANTS
  Input,       \* the inputs of a module
  Slot,
  Given,       \* the values that requests set
  MaxModules,  \* bound on the modules of a pipeline
  Names,       \* the ids that requests set
  Classes,     \* of modules: "Tuio", "Tuio2"
  Counts,      \* bound: the values of idcount that are explored
  Skips,       \* those it may have after modules that came and went
  MaxEdits     \* bound on the requests that change the pipeline

VARIABLES
  idcount,
  modules,   \* moPipeline::modules, a sequence of [class, id, value,
             \* readonly, in]; in[j] is the position of the module input j
             \* reads, or 0
  file,      \* what is in each slot: a sequence of commands
  saved,     \* history: the pipeline each slot was saved from
  intact,    \* history: the slots that hold a complete save
  own,       \* history: the slots saved by this process with ids it made
  loaded,    \* history: the slot loaded last and its success, until a change
  foreign,   \* history: an id of the pipeline may come from elsewhere
  edits

store == <<file, saved, intact, own>>
vars == <<idcount, modules, store, loaded, foreign, edits>>

SlotValues == {"word", "two words", "0.1234567", "0.123457", ""}
Nothing == [slot |-> 0, ok |-> FALSE]
Unconnected == [j \in Input |-> 0]

Init ==
  /\ idcount = 1 /\ modules = <<>>
  /\ file = [s \in Slot |-> <<[op |-> "missing"]>>] /\ saved = [s \in Slot |-> <<>>]
  /\ intact = {} /\ own = {} /\ loaded = Nothing /\ foreign = FALSE /\ edits = 0
-----------------------------------------------------------------------------
\* moPipeline::getModuleById: the position of the first such module, or 0.
getModuleById(p, id) ==
  LET found == {k \in 1..Len(p) : p[k].id = id} IN
  IF found = {} THEN 0 ELSE CHOOSE k \in found : \A j \in found : k <= j

\* A request that changes the pipeline; MaxEdits of them are explored.
Edit == edits < MaxEdits /\ edits' = edits + 1 /\ loaded' = Nothing

\* The number that follows "Tuio" in the name of the class and number n, which
\* has at most two digits.
Numeral(class, n) ==
  IF class = "Tuio" THEN n ELSE IF n < 10 THEN 20 + n ELSE 200 + n

\* Faulty: counts the modules there are.
createId_Reuses(base, n) == Numeral(base, Len(modules) + 1)

\* The constructor's MODULE_INIT gives the module the id createId returns when
\* idcount is n, and increases it.
createId(base, n) == Numeral(base, n)

web_pipeline_create(class) ==
  /\ Len(modules) < MaxModules /\ idcount + 1 \in Counts
  /\ modules' = Append(modules, [class |-> class, id |-> createId(class, idcount),
                                 value |-> "word", readonly |-> FALSE,
                                 in |-> Unconnected])
  /\ idcount' = idcount + 1
  /\ Edit
  /\ UNCHANGED <<store, foreign>>

\* Modules that are created and removed again leave nothing but the count.
CreateAndRemove(n) ==
  /\ idcount < n /\ idcount' = n
  /\ UNCHANGED <<modules, store, loaded, foreign, edits>>

\* Faulty: leaves the observers of the removed module connected.
Shifted_Keeps(p, k) == p

\* Position p once the module at position k is gone.
Shifted(p, k) == IF p = k THEN 0 ELSE IF p > k THEN p - 1 ELSE p

web_pipeline_remove(id) ==
  /\ getModuleById(modules, id) # 0
  /\ LET k == getModuleById(modules, id)
         rest == RemoveAt(modules, k)
     IN modules' = [i \in 1..Len(rest) |->
          [rest[i] EXCEPT !.in = [j \in Input |-> Shifted(@[j], k)]]]
  /\ Edit
  /\ UNCHANGED <<idcount, store, foreign>>

\* The id 0 stands for the word NULL, which disconnects the input.
web_pipeline_connect(out, id, j) ==
  /\ getModuleById(modules, id) # 0
  /\ out = 0 \/ getModuleById(modules, out) # 0
  /\ modules' = [modules EXCEPT ![getModuleById(modules, id)].in[j] =
                   IF out = 0 THEN 0 ELSE getModuleById(modules, out)]
  /\ Edit
  /\ UNCHANGED <<idcount, store, foreign>>

web_pipeline_set(id, value) ==
  /\ getModuleById(modules, id) # 0
  /\ modules' = [modules EXCEPT ![getModuleById(modules, id)].value = value]
  /\ Edit
  /\ UNCHANGED <<idcount, store, foreign>>

\* The property id is set like any other, unless it is read-only.
web_pipeline_set_id(id, new) ==
  /\ getModuleById(modules, id) # 0
  /\ LET k == getModuleById(modules, id) IN
       /\ ~modules[k].readonly
       /\ modules' = [modules EXCEPT ![k].id = new]
  /\ Edit /\ foreign' = TRUE
  /\ UNCHANGED <<idcount, store>>
-----------------------------------------------------------------------------
(* Writing.                                                                *)

\* moModule::serializeCreation.
serializeModule(m) ==
  <<[op |-> "create", class |-> m.class, id |-> m.id],
    [op |-> "set", id |-> m.id, value |-> m.value]>>

\* moModule::getInputIndex: the first input of m that reads module k.
getInputIndex(m, k) ==
  CHOOSE j \in Input : m.in[j] = k /\ \A i \in Input : m.in[i] = k => j <= i

\* Faulty: numbers the inputs from 1.
serializeConnections_FromOne(p, k) ==
  LET edges == {<<i, j>> \in (1..Len(p)) \X Input : p[i].in[j] = k} IN
  SetToSeq({[op |-> "connect", out |-> p[k].id, id |-> p[e[1]].id,
             in |-> e[2] + 1] : e \in edges})

\* moModule::serializeConnections: one line for every observer of module k.
serializeConnections(p, k) ==
  LET edges == {<<i, j>> \in (1..Len(p)) \X Input : p[i].in[j] = k} IN
  SetToSeq({[op |-> "connect", out |-> p[k].id, id |-> p[e[1]].id,
             in |-> getInputIndex(p[e[1]], k)] : e \in edges})

\* Faulty: writes the connections of a module right behind it.
serializeCreation_Interleaved(p) ==
  FlattenSeq([k \in 1..Len(p) |-> serializeModule(p[k]) \o serializeConnections(p, k)])

serializeCreation(p) ==
  FlattenSeq([k \in 1..Len(p) |-> serializeModule(p[k])])
    \o FlattenSeq([k \in 1..Len(p) |-> serializeConnections(p, k)])

web_pipeline_slot_save(s) ==
  /\ file' = [file EXCEPT ![s] = serializeCreation(modules)]
  /\ saved' = [saved EXCEPT ![s] = modules] /\ intact' = intact \cup {s}
  /\ own' = IF foreign THEN own \ {s} ELSE own \cup {s}
  /\ loaded' = Nothing
  /\ UNCHANGED <<idcount, modules, foreign, edits>>
-----------------------------------------------------------------------------
(* Reading.                                                                *)

\* Doubles are written with six decimals; a value with a space makes the
\* line too long.
Readable(value) == value # "two words"
Reread(value) == IF value = "0.1234567" THEN "0.123457" ELSE value

Failed(p) == [p EXCEPT !.ok = FALSE]

parse_create(p, line) ==
  IF getModuleById(p.modules, line.id) # 0 THEN Failed(p)
  ELSE [p EXCEPT !.count = @ + 1,
                 !.modules = Append(@, [class |-> line.class, id |-> line.id,
                                        value |-> "word", readonly |-> TRUE,
                                        in |-> Unconnected])]

parse_set(p, line) ==
  LET k == getModuleById(p.modules, line.id) IN
  IF k = 0 \/ ~Readable(line.value) THEN Failed(p)
  ELSE [p EXCEPT !.modules[k].value = Reread(line.value)]

parse_connect(p, line) ==
  LET k == getModuleById(p.modules, line.id)
      o == getModuleById(p.modules, line.out) IN
  IF k = 0 \/ o = 0 THEN Failed(p) ELSE [p EXCEPT !.modules[k].in[line.in] = o]

parse_line(p, line) ==
  IF ~p.ok THEN p
  ELSE CASE line.op = "create"  -> parse_create(p, line)
         [] line.op = "set"     -> parse_set(p, line)
         [] line.op = "connect" -> parse_connect(p, line)
         [] OTHER               -> Failed(p)

parse(f) ==
  FoldLeft(parse_line, [modules |-> <<>>, count |-> idcount, ok |-> TRUE], f)

web_pipeline_slot_load(s) ==
  LET result == parse(file[s]) IN
  /\ result.count \in Counts
  /\ modules' = result.modules /\ idcount' = result.count
  /\ loaded' = [slot |-> s, ok |-> result.ok]
  /\ foreign' = (s \notin own)
  /\ UNCHANGED <<store, edits>>
-----------------------------------------------------------------------------
NewProcess ==
  /\ idcount' = 1 /\ modules' = <<>> /\ own' = {}
  /\ loaded' = Nothing /\ foreign' = FALSE /\ UNCHANGED edits

\* The slots are files, which outlive the process.
Restart == NewProcess /\ UNCHANGED <<file, saved, intact>>

\* What may be left of a line: an error, or a shorter word at its end.  The
\* id 0 stands for one without a number.
Cuts(line) ==
  {[op |-> "cut"]}
    \cup (IF line.op = "create" THEN {[line EXCEPT !.id = 0], [line EXCEPT !.id = @ \div 10]} ELSE {})
    \cup (IF line.op = "set" THEN {[line EXCEPT !.value = ""]} ELSE {})

\* The process dies between fopen and fclose.
CrashInSave(s) ==
  /\ LET whole == serializeCreation(modules) IN
     \E n \in 0..(Len(whole) - 1) :
       \/ file' = [file EXCEPT ![s] = SubSeq(whole, 1, n)]
       \/ \E cut \in Cuts(whole[n + 1]) :
            file' = [file EXCEPT ![s] = Append(SubSeq(whole, 1, n), cut)]
  /\ saved' = [saved EXCEPT ![s] = modules] /\ intact' = intact \ {s}
  /\ NewProcess

Ids(p) == {p[k].id : k \in 1..Len(p)}

Next ==
  \/ \E class \in Classes : web_pipeline_create(class)
  \/ \E n \in Skips : CreateAndRemove(n)
  \/ \E id \in Ids(modules) :
       \/ web_pipeline_remove(id)
       \/ \E out \in Ids(modules) \cup {0}, j \in Input : web_pipeline_connect(out, id, j)
       \/ \E value \in Given : web_pipeline_set(id, value)
       \/ \E new \in Names : web_pipeline_set_id(id, new)
  \/ \E s \in Slot : \/ web_pipeline_slot_save(s) \/ web_pipeline_slot_load(s)
                     \/ CrashInSave(s)
  \/ Restart

Spec == Init /\ [][Next]_vars
-----------------------------------------------------------------------------
TypeOK ==
  /\ idcount \in Counts
  /\ Len(modules) <= MaxModules
  /\ \A k \in 1..Len(modules) :
       /\ modules[k].id \in Nat /\ modules[k].value \in SlotValues
       /\ modules[k].readonly \in BOOLEAN
       /\ modules[k].in \in [Input -> 0..Len(modules)]
  /\ intact \subseteq Slot /\ own \subseteq intact /\ foreign \in BOOLEAN
  /\ edits \in 0..MaxEdits

UniqueIn(p) == \A i, k \in 1..Len(p) : p[i].id = p[k].id => i = k

(* No two modules of a class have the same id ("Create a uniq id for the   *)
(* instance of the class"), as long as every id was made by createId in    *)
(* this process, before and after slot loads.  Two of different classes    *)
(* may: Tuio25 is number 5 of class Tuio2 and number 25 of class Tuio.     *)
UniqueIds ==
  ~foreign => \A i, k \in 1..Len(modules) :
    modules[i].id = modules[k].id /\ modules[i].class = modules[k].class => i = k

\* Can p be written and read back?
Storable(p) == UniqueIn(p) /\ \A k \in 1..Len(p) : Readable(p[k].value)

\* Input j of m is saved: no smaller input reads the same module.
First(m, j) == \A i \in Input : m.in[i] = m.in[j] => j <= i

\* m is what becomes of q.
Restored(m, q) ==
  /\ m.class = q.class /\ m.id = q.id /\ m.value = Reread(q.value)

(* A slot that was saved completely loads, in any process, exactly when no *)
(* value contains a space and no two modules had the same id, of one class *)
(* or of two.  It gives the pipeline it was saved from: the modules in     *)
(* their order with their ids and connections, and their values up to the  *)
(* six decimals.  Of the inputs of a module that read the same stream only *)
(* the first is connected again (getInputIndex).                           *)
RoundTrip ==
  loaded.slot \in intact =>
    LET p == saved[loaded.slot] IN
    /\ loaded.ok <=> Storable(p)
    /\ loaded.ok =>
         /\ Len(modules) = Len(p)
         /\ \A k \in 1..Len(p) :
              /\ Restored(modules[k], p[k])
              /\ \A j \in Input :
                   modules[k].in[j] = IF First(p[k], j) THEN p[k].in[j] ELSE 0

(* What a slot cut off by a crash loads, with or without an error, is the  *)
(* beginning of the pipeline that was being saved: only the last module    *)
(* may have another id or value, and a module is connected only if all of  *)
(* them are there.                                                         *)
TornIsPrefix ==
  loaded.slot \in Slot \ intact =>
    LET p == saved[loaded.slot]
        n == Len(modules)
    IN /\ n <= Len(p)
       /\ \A k \in 1..(n - 1) : Restored(modules[k], p[k])
       /\ (\E k \in 1..n : modules[k].in # Unconnected) => n = Len(p)
=============================================================================

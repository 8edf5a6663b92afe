---------------------------- MODULE Graph_proofs ----------------------------
(***************************************************************************)
(* The two sides of every connection agree, and no connection touches a    *)
(* deleted object, for every set of modules, inputs, outputs and formats;  *)
(* the TUIO output at the end of a pipeline reads no NULL pointer; and the *)
(* calibration measures every point with a touch of its own.               *)
(***************************************************************************)
EXTENDS ModuleGraph, TuioOutput, Calibration, FiniteSetTheorems, TLAPS

\* An object that is not in use: a deleted module or a free web stream.
Unused(o) == (o \in Module /\ o \notin modules) \/ (o \in Web /\ web[o] = "free")

\* What the safety properties need beside themselves to be inductive.
UnusedHaveNoInputs == \A x \in InputSlot : Unused(x[1]) => input[x] = NULL

InputsReadLiveModules ==
  \A x \in InputSlot : input[x] \in Stream => input[x][1] \in modules

SweepOnlyInPoll == phase # "poll" => todo = {}

IInv ==
  /\ TypeOK
  /\ ObserversMatchInputs
  /\ InputsReadLiveModules
  /\ UnusedHaveNoInputs
  /\ LostOnlyAcrossSlotLoad
  /\ UpdatesOnlyStarted
  /\ SweepOnlyInPoll
-----------------------------------------------------------------------------
(* Counting the inputs that read a stream.                                 *)

\* Two finite sets that agree except on i differ in size by i alone.
LEMMA DifferInOne ==
  ASSUME NEW A, NEW B, NEW i, IsFiniteSet(A), IsFiniteSet(B),
         A \ {i} = B \ {i}
  PROVE  Cardinality(B) = (Cardinality(A) - (IF i \in A THEN 1 ELSE 0))
                            + (IF i \in B THEN 1 ELSE 0)
<1>1. /\ Cardinality(A) \in Nat
      /\ Cardinality(B) \in Nat
  BY FS_CardinalityType
<1>2. Cardinality(A \ {i}) =
        IF i \in A THEN Cardinality(A) - 1 ELSE Cardinality(A)
  BY FS_RemoveElement
<1>3. Cardinality(B \ {i}) =
        IF i \in B THEN Cardinality(B) - 1 ELSE Cardinality(B)
  BY FS_RemoveElement
<1>. QED BY <1>1, <1>2, <1>3

Readers(inp, o, s) == {i \in Inputs[o] : inp[<<o, i>>] = s}

\* An object declares finitely many inputs (declareInput).
LEMMA ReadersFinite ==
  ASSUME NEW inp, NEW o \in Object, NEW s
  PROVE  /\ IsFiniteSet(Readers(inp, o, s))
         /\ Cardinality(Readers(inp, o, s)) \in Nat
<1>1. Readers(inp, o, s) \in SUBSET Inputs[o]
  BY DEF Readers
<1>2. IsFiniteSet(Inputs[o])
  BY GraphAssumption
<1>3. IsFiniteSet(Readers(inp, o, s))
  BY <1>1, <1>2, FS_Subset
<1>. QED BY <1>3, FS_CardinalityType

\* No reader is counted exactly when no input of o points at s.
LEMMA NoReaders ==
  ASSUME NEW inp, NEW o \in Object, NEW s
  PROVE  Cardinality(Readers(inp, o, s)) = 0
           <=> \A i \in Inputs[o] : inp[<<o, i>>] # s
<1>1. IsFiniteSet(Readers(inp, o, s))
  BY ReadersFinite
<1>2. Cardinality(Readers(inp, o, s)) = 0 <=> Readers(inp, o, s) = {}
  BY <1>1, FS_EmptySet
<1>. QED BY <1>2 DEF Readers

\* The property and its primed form in terms of Readers.
LEMMA MatchIsReaders ==
  /\ ObserversMatchInputs <=>
       \A s \in Stream, o \in Object :
         observers[s][o] = Cardinality(Readers(input, o, s))
  /\ ObserversMatchInputs' <=>
       \A s \in Stream, o \in Object :
         observers'[s][o] = Cardinality(Readers(input', o, s))
BY DEF ObserversMatchInputs, InputCount, Readers

\* Slots and streams are pairs.
LEMMA Slots ==
  /\ \A o \in Object : \A i \in Inputs[o] : <<o, i>> \in InputSlot
  /\ \A x \in InputSlot : x = <<x[1], x[2]>> /\ x[1] \in Object
                          /\ x[2] \in Inputs[x[1]]
  /\ \A s \in Stream : s[1] \in Module
  /\ NULL \notin Stream /\ Dangling \notin Stream /\ Orphan \notin Stream
BY GraphAssumption DEF InputSlot, Stream

Write(inp, o, i, v) == [inp EXCEPT ![<<o, i>>] = v]

\* Writing v into one input moves one count from its old stream to v.
LEMMA CountsAfterWrite ==
  ASSUME NEW inp, NEW o \in Object, NEW i \in Inputs[o], NEW v,
         DOMAIN inp = InputSlot,
         NEW q \in Object, NEW s
  PROVE  Cardinality(Readers(Write(inp, o, i, v), q, s)) =
           IF q # o THEN Cardinality(Readers(inp, q, s))
           ELSE (Cardinality(Readers(inp, q, s))
                   - (IF inp[<<o, i>>] = s THEN 1 ELSE 0))
                  + (IF v = s THEN 1 ELSE 0)
<1> DEFINE new == Write(inp, o, i, v)
           A == Readers(inp, q, s)
           B == Readers(new, q, s)
<1>1. /\ IsFiniteSet(A) /\ IsFiniteSet(B)
      /\ Cardinality(A) \in Nat
  BY ReadersFinite
<1>2. <<o, i>> \in InputSlot /\ new[<<o, i>>] = v
  BY Slots DEF Write
<1>3. \A j \in Inputs[q] : <<q, j>> # <<o, i>> => new[<<q, j>>] = inp[<<q, j>>]
  BY Slots DEF Write
<1>4. CASE q # o
  <2>1. A = B
    BY <1>3, <1>4 DEF Readers
  <2>. QED BY <2>1, <1>4
<1>5. CASE q = o
  <2>1. A \ {i} = B \ {i}
    BY <1>3, <1>5 DEF Readers
  <2>2. (i \in A <=> inp[<<o, i>>] = s) /\ (i \in B <=> v = s)
    BY <1>2, <1>5 DEF Readers
  <2> HIDE DEF A, B
  <2>3. Cardinality(B) = (Cardinality(A) - (IF i \in A THEN 1 ELSE 0))
                            + (IF i \in B THEN 1 ELSE 0)
    BY <1>1, <2>1, DifferInOne
  <2>4. Cardinality(B) = (Cardinality(A) - (IF inp[<<o, i>>] = s THEN 1 ELSE 0))
                            + (IF v = s THEN 1 ELSE 0)
    BY <2>2, <2>3
  <2>. QED BY <2>4, <1>5 DEF A, B
<1>. QED BY <1>4, <1>5

-----------------------------------------------------------------------------
(* The steps that rewire the graph.                                        *)

\* An observer list holds o at least once for a stream that o reads.
LEMMA ReadersAreObservers ==
  ASSUME TypeOK, ObserversMatchInputs,
         NEW x \in InputSlot, input[x] \in Stream
  PROVE  observers[input[x]][x[1]] > 0
<1>1. x[1] \in Object /\ x[2] \in Inputs[x[1]] /\ x = <<x[1], x[2]>>
  BY Slots
<1>2. observers[input[x]][x[1]] = Cardinality(Readers(input, x[1], input[x]))
  BY <1>1, MatchIsReaders
<1>3. Cardinality(Readers(input, x[1], input[x])) # 0
  BY <1>1, NoReaders
<1>4. Cardinality(Readers(input, x[1], input[x])) \in Nat
  BY <1>1, ReadersFinite
<1>. QED BY <1>2, <1>3, <1>4

\* moDataStream::addObserver adds one entry for o to the list of v alone.
LEMMA AddObserverCounts ==
  ASSUME NEW obs \in [Stream -> [Object -> Nat]], NEW v, NEW o \in Object
  PROVE  /\ addObserver(obs, v, o) \in [Stream -> [Object -> Nat]]
         /\ \A s \in Stream, q \in Object :
              addObserver(obs, v, o)[s][q] =
                obs[s][q] + (IF s = v /\ q = o THEN 1 ELSE 0)
<1>1. CASE v \notin Stream
  BY <1>1 DEF addObserver
<1>2. CASE v \in Stream
  <2> DEFINE row == [obs[v] EXCEPT ![o] = @ + 1]
  <2>1. addObserver(obs, v, o) = [obs EXCEPT ![v] = row]
    BY <1>2 DEF addObserver
  <2>2. /\ row \in [Object -> Nat]
        /\ \A q \in Object : row[q] = obs[v][q] + (IF q = o THEN 1 ELSE 0)
    BY <1>2
  <2> HIDE DEF row
  <2>. QED BY <1>2, <2>1, <2>2
<1>. QED BY <1>1, <1>2

\* moDataStream::removeObserver drops one entry of o from the list of v alone.
LEMMA RemoveObserverCounts ==
  ASSUME NEW obs \in [Stream -> [Object -> Nat]], NEW v, NEW o \in Object,
         v \in Stream => obs[v][o] > 0
  PROVE  /\ removeObserver(obs, v, o) \in [Stream -> [Object -> Nat]]
         /\ \A s \in Stream, q \in Object :
              removeObserver(obs, v, o)[s][q] =
                obs[s][q] - (IF s = v /\ q = o THEN 1 ELSE 0)
<1>1. CASE v \notin Stream
  BY <1>1 DEF removeObserver
<1>2. CASE v \in Stream
  <2> DEFINE row == [obs[v] EXCEPT ![o] = @ - 1]
  <2>1. removeObserver(obs, v, o) = [obs EXCEPT ![v] = row]
    BY <1>2 DEF removeObserver
  <2>2. /\ row \in [Object -> Nat]
        /\ \A q \in Object : row[q] = obs[v][q] - (IF q = o THEN 1 ELSE 0)
    BY <1>2
  <2> HIDE DEF row
  <2>. QED BY <1>2, <2>1, <2>2
<1>. QED BY <1>1, <1>2

\* Leaving the old stream and joining v keeps the counts in step.
LEMMA WriteKeepsMatch ==
  ASSUME TypeOK, ObserversMatchInputs,
         NEW o \in Object, NEW i \in Inputs[o], NEW v \in Stream \cup {NULL},
         input' = [input EXCEPT ![<<o, i>>] = v],
         observers' = addObserver(removeObserver(observers, input[<<o, i>>], o),
                                  v, o)
  PROVE  /\ input' \in [InputSlot -> Stream \cup {NULL, Dangling, Orphan}]
         /\ observers' \in [Stream -> [Object -> Nat]]
         /\ ObserversMatchInputs'
<1> DEFINE old == input[<<o, i>>]
           R == removeObserver(observers, old, o)
<1>1. <<o, i>> \in InputSlot /\ <<o, i>>[1] = o
  BY Slots
<1>2. old \in Stream => observers[old][o] > 0
  BY <1>1, ReadersAreObservers
<1>3. /\ R \in [Stream -> [Object -> Nat]]
      /\ \A s \in Stream, q \in Object :
           R[s][q] = observers[s][q] - (IF s = old /\ q = o THEN 1 ELSE 0)
  <2>1. observers \in [Stream -> [Object -> Nat]]
    BY DEF TypeOK
  <2> HIDE DEF old
  <2>. QED BY <1>2, <2>1, RemoveObserverCounts
<1>4. /\ observers' \in [Stream -> [Object -> Nat]]
      /\ \A s \in Stream, q \in Object :
           observers'[s][q] = R[s][q] + (IF s = v /\ q = o THEN 1 ELSE 0)
  <2>1. observers' = addObserver(R, v, o)
    OBVIOUS
  <2> HIDE DEF R
  <2>. QED BY <1>3, <2>1, AddObserverCounts
<1>5. ASSUME NEW s \in Stream, NEW q \in Object
      PROVE  observers'[s][q] = Cardinality(Readers(input', q, s))
  <2>1. /\ observers[s][q] = Cardinality(Readers(input, q, s))
        /\ observers[s][q] \in Nat
    BY MatchIsReaders DEF TypeOK
  <2>2. Cardinality(Readers(input', q, s)) =
          IF q # o THEN Cardinality(Readers(input, q, s))
          ELSE (Cardinality(Readers(input, q, s)) - (IF old = s THEN 1 ELSE 0))
                 + (IF v = s THEN 1 ELSE 0)
    <3>1. DOMAIN input = InputSlot
      BY DEF TypeOK
    <3>2. input' = Write(input, o, i, v)
      BY DEF Write
    <3>3. Cardinality(Readers(Write(input, o, i, v), q, s)) =
            IF q # o THEN Cardinality(Readers(input, q, s))
            ELSE (Cardinality(Readers(input, q, s))
                    - (IF input[<<o, i>>] = s THEN 1 ELSE 0))
                   + (IF v = s THEN 1 ELSE 0)
      BY <3>1, CountsAfterWrite
    <3>. QED BY <3>2, <3>3, Zenon
  <2>3. observers'[s][q] =
          (observers[s][q] - (IF s = old /\ q = o THEN 1 ELSE 0))
            + (IF s = v /\ q = o THEN 1 ELSE 0)
    <3> HIDE DEF R, old
    <3>. QED BY <1>3, <1>4, Zenon, ZenonT(30)
  <2> HIDE DEF R, old
  <2>. QED BY <2>1, <2>2, <2>3
<1>6. input' \in [InputSlot -> Stream \cup {NULL, Dangling, Orphan}]
  BY <1>1 DEF TypeOK
<1>. QED BY <1>4, <1>5, <1>6, MatchIsReaders, Zenon

\* setInput changes one input, to the given stream or to NULL.
LEMMA SetInputStep ==
  ASSUME TypeOK, ObserversMatchInputs,
         NEW o \in Object, NEW i \in Index, NEW s \in Stream \cup {NULL},
         setInput(s, o, i)
  PROVE  /\ input' \in [InputSlot -> Stream \cup {NULL, Dangling, Orphan}]
         /\ observers' \in [Stream -> [Object -> Nat]]
         /\ ObserversMatchInputs'
         /\ \A x \in InputSlot :
              input'[x] = input[x] \/ (x[1] = o /\ input'[x] \in {s, NULL})
<1>1. CASE i \notin Inputs[o]
  <2>1. UNCHANGED <<input, observers>>
    BY <1>1 DEF setInput, edges
  <2>. QED BY <2>1 DEF TypeOK, ObserversMatchInputs, InputCount
<1>2. CASE i \in Inputs[o]
  <2> DEFINE v == Accepted(<<o, i>>, s)
  <2>1. v \in {s, NULL}
    BY DEF Accepted
  <2>2. /\ input' = [input EXCEPT ![<<o, i>>] = v]
        /\ observers' = addObserver(
                          removeObserver(observers, input[<<o, i>>], o), v, o)
    BY <1>2 DEF setInput
  <2> HIDE DEF v
  <2>3. \A x \in InputSlot :
          input'[x] = input[x] \/ (x[1] = o /\ input'[x] \in {s, NULL})
    BY <2>1, <2>2, Slots DEF TypeOK
  <2>4. v \in Stream \cup {NULL}
    BY <2>1
  <2>. QED BY <1>2, <2>2, <2>3, <2>4, WriteKeepsMatch, Zenon
<1>. QED BY <1>1, <1>2
-----------------------------------------------------------------------------
(* IInv is inductive.                                                      *)

\* An empty pipeline without web streams satisfies IInv.
LEMMA InitIInv == Init => IInv
<1> SUFFICES ASSUME Init PROVE IInv
  OBVIOUS
<1>1. TypeOK
  BY Zenon DEF Init, TypeOK
<1>2. ASSUME NEW s \in Stream, NEW o \in Object
      PROVE  observers[s][o] = Cardinality(Readers(input, o, s))
  <2>1. \A i \in Inputs[o] : input[<<o, i>>] # s
    BY Slots DEF Init
  <2>2. Cardinality(Readers(input, o, s)) = 0
    BY <2>1, NoReaders
  <2>. QED BY <2>2 DEF Init
<1>3. ObserversMatchInputs
  BY <1>2, MatchIsReaders
<1>4. /\ InputsReadLiveModules /\ UnusedHaveNoInputs /\ LostOnlyAcrossSlotLoad
      /\ UpdatesOnlyStarted /\ SweepOnlyInPoll
  BY Slots, GraphAssumption
     DEF Init, InputsReadLiveModules, UnusedHaveNoInputs,
         LostOnlyAcrossSlotLoad, UpdatesOnlyStarted, SweepOnlyInPoll
<1>. QED BY <1>1, <1>3, <1>4 DEF IInv

\* The wiring part of IInv survives a step that leaves the wiring alone and
\* neither removes a module nor frees a web stream.
LEMMA WiringKept ==
  ASSUME IInv, UNCHANGED <<input, observers, web, stale>>,
         modules \subseteq modules'
  PROVE  /\ ObserversMatchInputs' /\ InputsReadLiveModules'
         /\ UnusedHaveNoInputs' /\ LostOnlyAcrossSlotLoad'
<1>1. ObserversMatchInputs'
  BY DEF IInv, ObserversMatchInputs, InputCount
<1>2. InputsReadLiveModules' /\ UnusedHaveNoInputs' /\ LostOnlyAcrossSlotLoad'
  BY DEF IInv, InputsReadLiveModules, UnusedHaveNoInputs, Unused,
         LostOnlyAcrossSlotLoad
<1>. QED BY <1>1, <1>2

\* A removal leaves no observer of or by the module, and no input on it.
LEMMA RemoveStep ==
  ASSUME IInv, NEW m \in Module, WebRemove(m)
  PROVE  IInv'
<1> USE DEF IInv
<1>1. \A x \in InputSlot :
        input'[x] = IF x[1] = m \/ input[x] \in StreamsOf(m) THEN NULL
                    ELSE input[x]
  <2> SUFFICES ASSUME NEW x \in InputSlot
               PROVE  input'[x] = IF x[1] = m \/ input[x] \in StreamsOf(m)
                                  THEN NULL ELSE input[x]
    OBVIOUS
  <2>1. input[x] \in StreamsOf(m) => observers[input[x]][x[1]] > 0
    BY ReadersAreObservers DEF StreamsOf
  <2>. QED BY <2>1 DEF WebRemove, InputsWithout
<1>2. input' \in [InputSlot -> Stream \cup {NULL, Dangling, Orphan}]
  <2>1. input' = [x \in InputSlot |-> input'[x]]
    BY DEF WebRemove, InputsWithout
  <2>. QED BY <1>1, <2>1 DEF TypeOK
<1>3. ASSUME NEW s \in Stream, NEW o \in Object
      PROVE  /\ observers'[s][o] = Cardinality(Readers(input', o, s))
             /\ observers'[s][o] \in Nat
  <2>1. /\ observers[s][o] = Cardinality(Readers(input, o, s))
        /\ observers[s][o] = InputCount(o, s)
        /\ observers[s][o] \in Nat
    BY MatchIsReaders DEF TypeOK, ObserversMatchInputs
  <2>2. observers'[s][o] = IF s[1] = m \/ o = m THEN 0 ELSE observers[s][o]
    BY <2>1 DEF WebRemove, Disconnected
  <2>3. CASE s[1] = m \/ o = m
    <3>1. \A i \in Inputs[o] : input'[<<o, i>>] # s
      BY <1>1, <2>3, Slots DEF StreamsOf
    <3>. QED BY <2>2, <2>3, <3>1, NoReaders
  <2>4. CASE s[1] # m /\ o # m
    <3>1. \A i \in Inputs[o] : input'[<<o, i>>] = s <=> input[<<o, i>>] = s
      BY <1>1, <2>4, Slots DEF StreamsOf
    <3>2. Readers(input', o, s) = Readers(input, o, s)
      BY <3>1 DEF Readers
    <3>. QED BY <2>1, <2>2, <2>4, <3>2, Zenon
  <2>. QED BY <2>3, <2>4, SMT, SMTT(30)
<1>4. ObserversMatchInputs'
  BY <1>3, MatchIsReaders
<1>5. observers' \in [Stream -> [Object -> Nat]]
  <2>1. observers' = [s \in Stream |-> [o \in Object |-> observers'[s][o]]]
    BY DEF WebRemove, Disconnected
  <2>. QED BY <1>3, <2>1
<1>6. todo = {} /\ UNCHANGED <<web, stale, phase, todo, last_internal_error>>
  BY DEF WebRemove, SweepOnlyInPoll, streams, loop
<1>7. TypeOK'
  BY <1>2, <1>5, <1>6, Zenon DEF TypeOK, WebRemove, stop
<1>8. /\ InputsReadLiveModules' /\ UnusedHaveNoInputs'
      /\ LostOnlyAcrossSlotLoad' /\ UpdatesOnlyStarted' /\ SweepOnlyInPoll'
  <2>1. modules' = modules \ {m}
    BY DEF WebRemove
  <2>2. InputsReadLiveModules'
    BY <1>1, <2>1, Slots DEF InputsReadLiveModules, StreamsOf
  <2>3. UnusedHaveNoInputs'
    BY <1>1, <1>6, <2>1, Slots, GraphAssumption DEF UnusedHaveNoInputs, Unused
  <2>4. LostOnlyAcrossSlotLoad'
    BY <1>1, <1>6, GraphAssumption DEF LostOnlyAcrossSlotLoad
  <2>5. UpdatesOnlyStarted' /\ SweepOnlyInPoll'
    BY <1>6 DEF WebRemove, stop, UpdatesOnlyStarted, SweepOnlyInPoll
  <2>. QED BY <2>2, <2>3, <2>4, <2>5
<1>. QED BY <1>4, <1>7, <1>8

\* clear() empties the pipeline; only web streams can keep a pointer.
LEMMA SlotLoadStep ==
  ASSUME IInv, SlotLoad
  PROVE  IInv'
<1> USE DEF IInv
<1>1. /\ modules' = {}
      /\ observers' = [s \in Stream |-> [o \in Object |-> 0]]
      /\ stale' = stale \cup {w \in Web : web[w] # "free"}
      /\ input' = [x \in InputSlot |->
                     IF x[1] \in Module THEN NULL
                     ELSE IF input[x] \in Stream THEN Lost(input[x])
                     ELSE input[x]]
      /\ UNCHANGED <<web, todo>>
      /\ phase' \in {"parse", "events"}
      /\ todo = {}
  BY DEF SlotLoad, clear, SweepOnlyInPoll
<1>12. last_internal_error' \in BOOLEAN
  BY Zenon DEF SlotLoad, TypeOK
<1>2. \A s : Lost(s) \in {Dangling, Orphan}
  BY DEF Lost
<1>3. \A x \in InputSlot : input'[x] \in {NULL, Dangling, Orphan}
  BY <1>1, <1>2 DEF TypeOK
<1>4. TypeOK'
  <2>1. input' \in [InputSlot -> Stream \cup {NULL, Dangling, Orphan}]
    BY <1>1, <1>3
  <2>2. observers' \in [Stream -> [Object -> Nat]]
    BY <1>1
  <2>. QED BY <1>1, <1>12, <2>1, <2>2, Zenon DEF TypeOK, SlotLoad, clear, stop
<1>5. ASSUME NEW s \in Stream, NEW o \in Object
      PROVE  observers'[s][o] = Cardinality(Readers(input', o, s))
  <2>1. \A i \in Inputs[o] : input'[<<o, i>>] # s
    BY <1>3, Slots
  <2>. QED BY <1>1, <2>1, NoReaders
<1>6. ObserversMatchInputs'
  BY <1>5, MatchIsReaders
<1>7. InputsReadLiveModules'
  BY <1>3, Slots DEF InputsReadLiveModules
<1>8. UnusedHaveNoInputs'
  BY <1>1, Slots DEF UnusedHaveNoInputs, Unused, Object
<1>9. LostOnlyAcrossSlotLoad'
  <2> SUFFICES ASSUME NEW x \in InputSlot, input'[x] \in {Dangling, Orphan}
               PROVE  x[1] \in stale'
    BY DEF LostOnlyAcrossSlotLoad
  <2>1. x[1] \notin Module /\ x[1] \in Web
    BY <1>1, Slots, GraphAssumption DEF Object
  <2>2. input[x] \in Stream \cup {Dangling, Orphan}
    BY <1>1, <1>2, <2>1
  <2>3. CASE input[x] \in Stream
    <3>1. web[x[1]] # "free"
      BY <2>1, <2>3, Slots DEF UnusedHaveNoInputs, Unused
    <3>. QED BY <1>1, <2>1, <3>1
  <2>4. CASE input[x] \in {Dangling, Orphan}
    BY <1>1, <2>4 DEF LostOnlyAcrossSlotLoad
  <2>. QED BY <2>2, <2>3, <2>4
<1>10. UpdatesOnlyStarted' /\ SweepOnlyInPoll'
  BY <1>1 DEF SlotLoad, clear, stop, UpdatesOnlyStarted, SweepOnlyInPoll
<1>. QED BY <1>4, <1>6, <1>7, <1>8, <1>9, <1>10

\* A step that runs setInput on an object in use, with a stream of a module
\* of the pipeline, keeps the wiring.
LEMMA ConnectStep ==
  ASSUME IInv, NEW o \in Object, NEW i \in Index, NEW s \in Stream \cup {NULL},
         s \in Stream => s[1] \in modules,
         setInput(s, o, i), UNCHANGED <<modules, stale>>,
         ~Unused(o)',
         \A w \in Web : w # o => web'[w] = web[w]
  PROVE  /\ input' \in [InputSlot -> Stream \cup {NULL, Dangling, Orphan}]
         /\ observers' \in [Stream -> [Object -> Nat]]
         /\ ObserversMatchInputs' /\ InputsReadLiveModules'
         /\ UnusedHaveNoInputs' /\ LostOnlyAcrossSlotLoad'
<1> USE DEF IInv
<1>1. /\ input' \in [InputSlot -> Stream \cup {NULL, Dangling, Orphan}]
      /\ observers' \in [Stream -> [Object -> Nat]]
      /\ ObserversMatchInputs'
      /\ \A x \in InputSlot :
           input'[x] = input[x] \/ (x[1] = o /\ input'[x] \in {s, NULL})
  BY SetInputStep
<1>2. InputsReadLiveModules'
  BY <1>1, Slots DEF InputsReadLiveModules
<1>3. UnusedHaveNoInputs'
  BY <1>1, Slots DEF UnusedHaveNoInputs, Unused
<1>4. LostOnlyAcrossSlotLoad'
  BY <1>1, Slots, GraphAssumption DEF LostOnlyAcrossSlotLoad
<1>. QED BY <1>1, <1>2, <1>3, <1>4, SMT, SMTT(30)

\* getOutput of m is one of m's streams or NULL.
LEMMA GetOutputIsStream ==
  ASSUME NEW m \in Module, NEW i \in Index
  PROVE  /\ getOutput(m, i) \in Stream \cup {NULL}
         /\ getOutput(m, i) \in Stream => getOutput(m, i)[1] = m
BY Slots DEF getOutput, Stream

\* The timer event of a closed web stream.
LEMMA TrickleStep ==
  ASSUME IInv, NEW w \in Web, web_pipeline_stream_trickle(w)
  PROVE  IInv'
<1> USE DEF IInv
<1>1. w \in Object /\ 0 \in Inputs[w] /\ Inputs[w] = {0}
  BY GraphAssumption DEF Object
<1>2. /\ input' = [input EXCEPT ![<<w, 0>>] = NULL]
      /\ observers' = addObserver(
                        removeObserver(observers, input[<<w, 0>>], w), NULL, w)
  BY Slots DEF web_pipeline_stream_trickle, addObserver
<1>3. /\ input' \in [InputSlot -> Stream \cup {NULL, Dangling, Orphan}]
      /\ observers' \in [Stream -> [Object -> Nat]]
      /\ ObserversMatchInputs'
  BY <1>1, <1>2, WriteKeepsMatch, Zenon
<1>4. \A x \in InputSlot : input'[x] = IF x[1] = w THEN NULL ELSE input[x]
  BY <1>1, <1>2, Slots DEF TypeOK
<1>5. /\ web' = [web EXCEPT ![w] = "free"]
      /\ stale' = stale \ {w}
      /\ is_started' = is_started \ {w}
      /\ need_update' = need_update \ {w}
      /\ UNCHANGED <<modules, pipeline_started, phase, todo, last_internal_error>>
  BY DEF web_pipeline_stream_trickle, loop
<1>6. TypeOK'
  BY <1>3, <1>5 DEF TypeOK
<1>7. InputsReadLiveModules'
  BY <1>4, <1>5, Slots DEF InputsReadLiveModules
<1>8. UnusedHaveNoInputs'
  BY <1>4, <1>5, Slots, SMT, SMTT(30) DEF UnusedHaveNoInputs, Unused, TypeOK
<1>9. LostOnlyAcrossSlotLoad'
  BY <1>4, <1>5, GraphAssumption DEF LostOnlyAcrossSlotLoad
<1>10. UpdatesOnlyStarted' /\ SweepOnlyInPoll'
  BY <1>5 DEF UpdatesOnlyStarted, SweepOnlyInPoll
<1>. QED BY <1>3, <1>6, <1>7, <1>8, <1>9, <1>10

\* One step per action; those that leave the wiring alone share WiringKept.
LEMMA NextIInv == IInv /\ [Next]_vars => IInv'
<1> SUFFICES ASSUME IInv, [Next]_vars PROVE IInv'
  OBVIOUS
<1> USE DEF edges, run, streams, loop
<1>1. CASE BeginPoll
  <2>1. UNCHANGED <<modules, input, observers, web, stale>>
    BY <1>1 DEF BeginPoll
  <2>2. TypeOK' /\ UpdatesOnlyStarted' /\ SweepOnlyInPoll'
    BY <1>1 DEF BeginPoll, IInv, TypeOK, UpdatesOnlyStarted, SweepOnlyInPoll
  <2>. QED BY <2>1, <2>2, WiringKept DEF IInv
<1>2. ASSUME NEW m \in Module, PollIdle(m) \/ PollUpdate(m) PROVE IInv'
  <2>1. UNCHANGED <<modules, input, observers, web, stale, phase,
                    last_internal_error>>
    BY <1>2 DEF PollIdle, PollUpdate
  <2>2. phase = "poll" /\ todo' = todo \ {m}
    BY <1>2 DEF PollIdle, PollUpdate
  <2>3. /\ need_update' \subseteq Object /\ is_started' \subseteq Object
        /\ pipeline_started' = pipeline_started
        /\ need_update' \subseteq is_started'
    <3>1. CASE PollIdle(m)
      BY <3>1 DEF PollIdle, IInv, TypeOK, UpdatesOnlyStarted
    <3>2. CASE PollUpdate(m)
      <4>1. PICK S \in SUBSET StreamsOf(m),
                 halted \in SUBSET ({m} \cap Checked) :
              \E N \in SUBSET NotifiedBy(S) :
                /\ is_started' = ((is_started \cup {m}) \ halted)
                                    \cup N \cup Again(m, S)
                /\ need_update' = (need_update \ {m}) \cup N \cup Again(m, S)
        BY <3>2, SMT, SMTT(30) DEF PollUpdate
      <4>2. PICK N \in SUBSET NotifiedBy(S) :
              /\ is_started' = ((is_started \cup {m}) \ halted)
                                  \cup N \cup Again(m, S)
              /\ need_update' = (need_update \ {m}) \cup N \cup Again(m, S)
        BY <4>1
      <4>3. /\ N \subseteq Object /\ halted \subseteq {m}
            /\ Again(m, S) \subseteq {m}
        BY DEF NotifiedBy, Again
      <4>. QED BY <3>2, <4>2, <4>3
               DEF PollUpdate, IInv, TypeOK, UpdatesOnlyStarted, Object
    <3>. QED BY <1>2, <3>1, <3>2
  <2>4. TypeOK' /\ UpdatesOnlyStarted' /\ SweepOnlyInPoll'
    BY <2>1, <2>2, <2>3 DEF IInv, TypeOK, UpdatesOnlyStarted, SweepOnlyInPoll
  <2>. QED BY <2>1, <2>4, WiringKept DEF IInv
<1>3. CASE EndPoll
  <2>1. UNCHANGED <<modules, input, observers, web, stale>>
    BY <1>3 DEF EndPoll
  <2>2. TypeOK' /\ UpdatesOnlyStarted' /\ SweepOnlyInPoll'
    BY <1>3 DEF EndPoll, IInv, TypeOK, UpdatesOnlyStarted, SweepOnlyInPoll
  <2>. QED BY <2>1, <2>2, WiringKept DEF IInv
<1>4. ASSUME NEW m \in Module, WebCreate(m) \/ ParseCreate(m) PROVE IInv'
  <2>1. /\ UNCHANGED <<input, observers, web, stale>>
        /\ modules' = modules \cup {m}
    BY <1>4 DEF WebCreate, ParseCreate
  <2>2. TypeOK' /\ UpdatesOnlyStarted' /\ SweepOnlyInPoll'
    BY <1>4 DEF WebCreate, ParseCreate, IInv, TypeOK, UpdatesOnlyStarted,
                SweepOnlyInPoll
  <2>. QED BY <2>1, <2>2, WiringKept DEF IInv
<1>5. ASSUME NEW m \in Module, WebSet(m) \/ ParseSet(m) PROVE IInv'
  <2>1. UNCHANGED <<modules, input, observers, web, stale>>
    BY <1>5 DEF WebSet, ParseSet
  <2>2. TypeOK' /\ UpdatesOnlyStarted' /\ SweepOnlyInPoll'
    BY <1>5, Zenon DEF WebSet, ParseSet, Notified, IInv, TypeOK, UpdatesOnlyStarted,
                SweepOnlyInPoll, Object
  <2>. QED BY <2>1, <2>2, WiringKept DEF IInv
<1>6. CASE WebStart
  <2>1. UNCHANGED <<modules, input, observers, web, stale, phase, todo,
                    last_internal_error>>
    BY <1>6 DEF WebStart
  <2>2. PICK D \in SUBSET (Eager \cap modules), N \in SUBSET (Eager \cap modules) :
          need_update' = (need_update \ D) \cup N
    BY <1>6, Zenon DEF WebStart
  <2>3. TypeOK' /\ UpdatesOnlyStarted' /\ SweepOnlyInPoll'
    BY <1>6, <2>1, <2>2, Zenon DEF WebStart, IInv, TypeOK, UpdatesOnlyStarted,
                            SweepOnlyInPoll, Object
  <2>. QED BY <2>1, <2>3, WiringKept DEF IInv
<1>7. CASE WebStop
  <2>1. UNCHANGED <<modules, input, observers, web, stale>>
    BY <1>7 DEF WebStop
  <2>2. TypeOK' /\ UpdatesOnlyStarted' /\ SweepOnlyInPoll'
    BY <1>7, Zenon DEF WebStop, stop, IInv, TypeOK, UpdatesOnlyStarted,
                SweepOnlyInPoll
  <2>. QED BY <2>1, <2>2, WiringKept DEF IInv
<1>8. CASE ParseEnd
  <2>1. UNCHANGED <<modules, input, observers, web, stale>>
    BY <1>8 DEF ParseEnd
  <2>2. TypeOK' /\ UpdatesOnlyStarted' /\ SweepOnlyInPoll'
    BY <1>8 DEF ParseEnd, IInv, TypeOK, UpdatesOnlyStarted, SweepOnlyInPoll
  <2>. QED BY <2>1, <2>2, WiringKept DEF IInv
<1>9. ASSUME NEW m \in Module, WebRemove(m) PROVE IInv'
  BY <1>9, RemoveStep
<1>10. CASE SlotLoad
  BY <1>10, SlotLoadStep
<1>11. ASSUME NEW m \in Module \cup {NULL}, NEW o \in Module,
              NEW i \in Index, NEW j \in Index,
              WebConnect(m, i, o, j) \/ (m \in Module /\ ParseConnect(m, i, o, j))
       PROVE  IInv'
  <2> DEFINE s == IF WebConnect(m, i, o, j) /\ m = NULL THEN NULL
                  ELSE getOutput(m, i)
  <2>1. /\ o \in modules /\ setInput(s, o, j)
        /\ s \in Stream \cup {NULL} /\ (s \in Stream => s[1] \in modules)
        /\ UNCHANGED <<modules, pipeline_started, is_started, need_update,
                       web, stale, todo, last_internal_error>>
    BY <1>11, GetOutputIsStream, Slots DEF WebConnect, ParseConnect
  <2>2. phase' = phase \/ (phase = "parse" /\ phase' = "events")
    BY <1>11 DEF WebConnect, ParseConnect
  <2>3. o \in Object /\ ~Unused(o)'
    BY <2>1, GraphAssumption, SMT, SMTT(30) DEF Unused, Object
  <2> HIDE DEF s
  <2>4. /\ input' \in [InputSlot -> Stream \cup {NULL, Dangling, Orphan}]
        /\ observers' \in [Stream -> [Object -> Nat]]
        /\ ObserversMatchInputs' /\ InputsReadLiveModules'
        /\ UnusedHaveNoInputs' /\ LostOnlyAcrossSlotLoad'
    BY <2>1, <2>3, ConnectStep, Zenon, ZenonT(30)
  <2>5. TypeOK' /\ UpdatesOnlyStarted' /\ SweepOnlyInPoll'
    BY <2>1, <2>2, <2>4 DEF IInv, TypeOK, UpdatesOnlyStarted, SweepOnlyInPoll
  <2>. QED BY <2>4, <2>5, SMT, SMTT(30) DEF IInv
<1>12. ASSUME NEW w \in Web, NEW m \in Module, NEW i \in Index,
              web_pipeline_stream(w, m, i)
       PROVE  IInv'
  <2>1. /\ <<m, i>> \in Stream /\ <<m, i>>[1] \in modules
        /\ setInput(<<m, i>>, w, 0)
        /\ web' = [web EXCEPT ![w] = "open"]
        /\ UNCHANGED <<modules, pipeline_started, is_started, need_update,
                       stale, phase, todo, last_internal_error>>
    BY <1>12, SMT, SMTT(30) DEF web_pipeline_stream, Stream
  <2>2. /\ w \in Object /\ 0 \in Index /\ ~Unused(w)'
        /\ \A v \in Web : v # w => web'[v] = web[v]
    BY <2>1, GraphAssumption DEF Unused, Object, IInv, TypeOK
  <2>3. /\ input' \in [InputSlot -> Stream \cup {NULL, Dangling, Orphan}]
        /\ observers' \in [Stream -> [Object -> Nat]]
        /\ ObserversMatchInputs' /\ InputsReadLiveModules'
        /\ UnusedHaveNoInputs' /\ LostOnlyAcrossSlotLoad'
    BY <2>1, <2>2, ConnectStep, SMT, SMTT(30)
  <2>4. TypeOK' /\ UpdatesOnlyStarted' /\ SweepOnlyInPoll'
    BY <2>1, <2>3 DEF IInv, TypeOK, UpdatesOnlyStarted, SweepOnlyInPoll
  <2>. QED BY <2>3, <2>4, SMT, SMTT(30) DEF IInv
<1>13. ASSUME NEW w \in Web, web_pipeline_stream_close(w) PROVE IInv'
  <2>1. /\ UNCHANGED <<modules, input, observers, pipeline_started, is_started,
                       need_update, stale, phase, todo, last_internal_error>>
        /\ web[w] = "open" /\ web' = [web EXCEPT ![w] = "closed"]
    BY <1>13 DEF web_pipeline_stream_close
  <2>5. input' = input /\ observers' = observers /\ ObserversMatchInputs
    BY <2>1 DEF IInv
  <2>2. ObserversMatchInputs'
    BY <2>5, Zenon DEF ObserversMatchInputs, InputCount
  <2>3. InputsReadLiveModules' /\ UnusedHaveNoInputs' /\ LostOnlyAcrossSlotLoad'
    BY <2>1 DEF IInv, TypeOK, InputsReadLiveModules, UnusedHaveNoInputs, Unused,
                LostOnlyAcrossSlotLoad
  <2>4. TypeOK' /\ UpdatesOnlyStarted' /\ SweepOnlyInPoll'
    BY <2>1 DEF IInv, TypeOK, UpdatesOnlyStarted, SweepOnlyInPoll
  <2>. QED BY <2>2, <2>3, <2>4 DEF IInv
<1>14. ASSUME NEW w \in Web, web_pipeline_stream_trickle(w) PROVE IInv'
  BY <1>14, TrickleStep
<1>15. CASE UNCHANGED vars
  <2>1. UNCHANGED <<modules, input, observers, web, stale>>
    BY <1>15 DEF vars
  <2>2. TypeOK' /\ UpdatesOnlyStarted' /\ SweepOnlyInPoll'
    BY <1>15 DEF vars, IInv, TypeOK, UpdatesOnlyStarted, SweepOnlyInPoll
  <2>. QED BY <2>1, <2>2, WiringKept DEF IInv
<1>. QED
  BY <1>1, <1>2, <1>3, <1>4, <1>5, <1>6, <1>7, <1>8, <1>9, <1>10, <1>11, <1>12,
     <1>13, <1>14, <1>15 DEF Next, Poll, LogForEver, Request, Streaming, Parse
-----------------------------------------------------------------------------
(* The theorems.                                                           *)

(* Every state the main thread reaches satisfies the inductive invariant.  *)
THEOREM Invariance == Spec => []IInv
BY InitIInv, NextIInv, PTL DEF Spec

(* The variables keep their types, whatever modules there are.             *)
THEOREM TypeCorrect == Spec => []TypeOK
<1>1. IInv => TypeOK
  BY DEF IInv
<1>. QED BY <1>1, Invariance, PTL

(* setInput, removeObserver, removeObservers and clear keep the observer   *)
(* lists and the input pointers in step in every pipeline.                 *)
THEOREM ObserversAlwaysMatch == Spec => []ObserversMatchInputs
<1>1. IInv => ObserversMatchInputs
  BY DEF IInv
<1>. QED BY <1>1, Invariance, PTL

(* No connection ever touches a deleted module or web stream, so           *)
(* notifyObservers calls live objects only.                                *)
THEOREM ConnectionsStayAlive == Spec => []ConnectionsAreAlive
<1>1. ASSUME IInv PROVE ConnectionsAreAlive
  <2> USE <1>1 DEF IInv
  <2>1. ASSUME NEW s \in Stream, NEW o \in Object, observers[s][o] > 0
        PROVE  s[1] \in modules /\ (o \in modules \/ (o \in Web /\ web[o] # "free"))
    <3>1. Cardinality(Readers(input, o, s)) # 0
      BY <2>1, MatchIsReaders
    <3>2. PICK i \in Inputs[o] : input[<<o, i>>] = s
      BY <3>1, NoReaders
    <3>3. <<o, i>> \in InputSlot /\ <<o, i>>[1] = o /\ s # NULL
      BY Slots
    <3>4. s[1] \in modules
      BY <3>2, <3>3 DEF InputsReadLiveModules
    <3>5. ~Unused(o)
      BY <3>2, <3>3 DEF UnusedHaveNoInputs
    <3>. QED BY <3>4, <3>5 DEF Unused, Object
  <2>. QED BY <2>1 DEF ConnectionsAreAlive, InputsReadLiveModules
<1>. QED BY <1>1, Invariance, PTL

(* Only a web stream that was open across a slot load can hold a pointer   *)
(* to a stream that is gone.                                               *)
THEOREM LostOnlyAcrossLoads == Spec => []LostOnlyAcrossSlotLoad
<1>1. IInv => LostOnlyAcrossSlotLoad
  BY DEF IInv
<1>. QED BY <1>1, Invariance, PTL

(* poll() runs update() on started modules only.                           *)
THEOREM OnlyStartedUpdate == Spec => []UpdatesOnlyStarted
<1>1. IInv => UpdatesOnlyStarted
  BY DEF IInv
<1>. QED BY <1>1, Invariance, PTL
-----------------------------------------------------------------------------
(* The TUIO output: a request to start or stop the pipeline goes module by   *)
(* module; the invariant says what the modules it has reached are like, so   *)
(* that the source never publishes to a closed socket.                       *)

Orders == {<<"source">>, <<"source", "tuio">>, <<"tuio", "source">>}

\* The modules a request has still to reach, and those it has reached.
Ahead(m) == m \in Range(ahead)
Reached(m) == m \in Range(order) /\ ~Ahead(m)

Sweeps ==
  /\ order \in Orders
  /\ job \in {"none", "start", "stop"}
  /\ ahead \in Orders \cup {<<>>, <<"tuio">>}
  /\ job = "none" <=> ahead = <<>>
  /\ Range(ahead) \subseteq Range(order)

\* A request under way has changed the modules it has reached.
ReachedAreChanged ==
  /\ job = "start" => (Reached("source") => source) /\ (Reached("tuio") => osc)
  /\ job = "stop" => (Reached("source") => ~source)

\* Between two requests a started source finds the socket open.
SocketIsOpen ==
  job = "none" /\ source /\ "tuio" \in Range(order) => osc \/ late

TuioInv ==
  /\ source \in BOOLEAN /\ osc \in BOOLEAN /\ late \in BOOLEAN
  /\ Sweeps /\ ReachedAreChanged /\ SocketIsOpen
  /\ kind \in Kinds /\ type \in Kinds \cup {"unknown"}
  /\ type = "unknown" \/ type = kind \/ mixed
  /\ NeverReadsNull

LEMMA SetsOfOrders ==
  /\ Range(<<>>) = {} /\ Range(<<"source">>) = {"source"} /\ Range(<<"tuio">>) = {"tuio"}
  /\ Range(<<"source", "tuio">>) = {"source", "tuio"}
  /\ Range(<<"tuio", "source">>) = {"source", "tuio"}
BY DEF Range

\* A step takes the first module of those ahead.
LEMMA TailsOfOrders ==
  ASSUME NEW seq \in Orders \cup {<<"tuio">>}
  PROVE  /\ Tail(seq) \in Orders \cup {<<>>, <<"tuio">>}
         /\ Range(seq) = Range(Tail(seq)) \cup {Head(seq)}
         /\ Head(seq) \notin Range(Tail(seq)) /\ Head(seq) \in {"source", "tuio"}
<1>1. CASE seq = <<"source", "tuio">>
  <2>1. Tail(seq) = <<"tuio">> /\ Head(seq) = "source"
    BY <1>1
  <2> QED
    BY <1>1, <2>1, SetsOfOrders
<1>2. CASE seq = <<"tuio", "source">>
  <2>1. Tail(seq) = <<"source">> /\ Head(seq) = "tuio"
    BY <1>2
  <2> QED
    BY <1>2, <2>1, SetsOfOrders DEF Orders
<1>3. CASE seq = <<"source">>
  <2>1. Tail(seq) = <<>> /\ Head(seq) = "source"
    BY <1>3
  <2> QED
    BY <1>3, <2>1, SetsOfOrders
<1>4. CASE seq = <<"tuio">>
  <2>1. Tail(seq) = <<>> /\ Head(seq) = "tuio"
    BY <1>4
  <2> QED
    BY <1>4, <2>1, SetsOfOrders
<1> QED
  BY <1>1, <1>2, <1>3, <1>4 DEF Orders

LEMMA StepKeeps ==
  ASSUME TuioInv, Step PROVE TuioInv'
<1> USE DEF TuioInv
<1>1. ahead \in Orders \cup {<<"tuio">>} /\ ahead' = Tail(ahead) /\ ~crashed
  BY DEF Step, Sweeps
<1>2. /\ Sweeps' /\ order' = order
      /\ job' = "none" \/ job' = job
      /\ Range(ahead) = Range(ahead') \cup {Head(ahead)}
      /\ Head(ahead) \notin Range(ahead') /\ Head(ahead) \in {"source", "tuio"}
  BY <1>1, TailsOfOrders DEF Step, Sweeps
<1>3. /\ source' \in BOOLEAN /\ osc' \in BOOLEAN /\ late' \in BOOLEAN
      /\ crashed' = crashed /\ kind' = kind /\ type' = type /\ mixed' = mixed
  BY Zenon DEF Step, tuio_start, tuio_stop
\* Every module this request has reached is as the request wants it.
<1>4. ASSUME job = "start"
      PROVE  /\ "source" \notin Range(ahead') => source'
             /\ "tuio" \in Range(order) \ Range(ahead') => osc'
  <2>1. CASE Head(ahead) = "source"
    <3>1. source' /\ osc' = osc
      BY <1>4, <2>1, Zenon, ZenonT(30) DEF Step
    <3> QED
      BY <1>2, <1>4, <2>1, <3>1 DEF ReachedAreChanged, Reached, Ahead, Sweeps
  <2>2. CASE Head(ahead) = "tuio"
    <3>1. osc' /\ source' = source
      BY <1>4, <2>2, Zenon DEF Step, tuio_start
    <3> QED
      BY <1>2, <1>4, <2>2, <3>1, SetsOfOrders DEF ReachedAreChanged, Reached, Ahead, Sweeps,
         Orders
  <2> QED
    BY <1>2, <2>1, <2>2
<1>5. ASSUME job = "stop"
      PROVE  "source" \notin Range(ahead') => ~source'
  BY <1>2, <1>5, SetsOfOrders, Zenon, ZenonT(30)
     DEF Step, ReachedAreChanged, Reached, Ahead, Sweeps, Orders
<1>6. ReachedAreChanged'
  BY <1>2, <1>4, <1>5 DEF ReachedAreChanged, Reached, Ahead, Sweeps
<1>7. SocketIsOpen'
  BY <1>1, <1>2, <1>4, <1>5, SetsOfOrders, Zenon DEF SocketIsOpen, Sweeps, Step
<1>8. NeverReadsNull'
  BY <1>1, <1>3 DEF NeverReadsNull
<1> QED
  BY <1>2, <1>3, <1>6, <1>7, <1>8

\* A push on the main thread, between two requests, finds what it reads.
LEMMA PushReadsNothingMissing ==
  ASSUME TuioInv, NEW ids, source, ~threaded, job = "none", ~late, ~mixed,
         "tuio" \in Range(order)
  PROVE  ~ReadsNull(ids)
<1>1. osc
  BY DEF TuioInv, SocketIsOpen
<1>2. Type(ids) \in {"unknown", kind}
  BY DEF Type, TuioInv
<1> QED
  BY <1>1, <1>2 DEF ReadsNull, TuioInv, Kinds

LEMMA PushKeeps ==
  ASSUME TuioInv, NEW ids, push(ids) PROVE TuioInv'
<1> USE DEF TuioInv
<1>1. /\ UNCHANGED <<order, job, ahead, source, osc, late, kind, threaded, mixed>>
      /\ source /\ ~crashed /\ (threaded \/ job = "none")
  BY DEF push, scene, control
<1>2. /\ type' \in Kinds \cup {"unknown"}
      /\ type' = "unknown" \/ type' = kind \/ mixed
  BY DEF push, notifyData, Type
<1>3. NeverReadsNull'
  <2>1. CASE "tuio" \in Range(order)
    <3>1. crashed' => ReadsNull(ids)
      BY <2>1, Zenon DEF push, notifyData
    <3> QED
      BY <1>1, <2>1, <3>1, PushReadsNothingMissing DEF NeverReadsNull
  <2>2. CASE "tuio" \notin Range(order)
    BY <1>1, <2>2, Zenon, ZenonT(30) DEF push, NeverReadsNull
  <2> QED
    BY <2>1, <2>2
<1>4. Sweeps' /\ ReachedAreChanged' /\ SocketIsOpen'
  BY <1>1 DEF Sweeps, ReachedAreChanged, SocketIsOpen, Reached, Ahead
<1> QED
  BY <1>1, <1>2, <1>3, <1>4

\* Sequences with the same elements are the same.
LEMMA SameElements ==
  ASSUME NEW S, NEW q \in Seq(S), NEW r \in Seq(S), Len(q) = Len(r),
         \A i \in 1..Len(q) : q[i] = r[i]
  PROVE  q = r
BY SMT, SMTT(30)

LEMMA TuioInvariant == TuioSpec => []TuioInv
<1>1. TuioInit => TuioInv
  <2> SUFFICES ASSUME TuioInit PROVE TuioInv
    OBVIOUS
  <2>1. source \in BOOLEAN /\ osc \in BOOLEAN /\ late \in BOOLEAN
    BY Zenon DEF TuioInit
  <2> QED
    BY <2>1, SetsOfOrders DEF TuioInit, TuioInv, Sweeps, Orders, ReachedAreChanged, SocketIsOpen,
       NeverReadsNull, Kinds
<1>2. TuioInv /\ [TuioNext]_tuio_vars => TuioInv'
  <2> SUFFICES ASSUME TuioInv, [TuioNext]_tuio_vars PROVE TuioInv'
    OBVIOUS
  <2>1. ASSUME UNCHANGED <<order, job, ahead, source, osc, late, type, kind, threaded,
                           crashed, mixed>>
        PROVE  TuioInv'
    BY <2>1, SMT, SMTT(30)
       DEF TuioInv, Sweeps, ReachedAreChanged, SocketIsOpen, NeverReadsNull, Reached, Ahead
  <2>2. CASE pipeline_start \/ pipeline_stop
    <3>1. /\ UNCHANGED <<order, source, osc, late, type, kind, threaded, crashed, mixed>>
          /\ ahead' = order /\ job' \in {"start", "stop"}
      BY <2>2, SMT, SMTT(30) DEF pipeline_start, pipeline_stop, scene
    <3> QED
      BY <3>1, SetsOfOrders DEF TuioInv, Sweeps, Orders, ReachedAreChanged, SocketIsOpen,
         NeverReadsNull, Reached, Ahead
  <2>3. CASE Step
    BY <2>3, StepKeeps
  <2>4. CASE Add
    <3>1. /\ UNCHANGED <<job, ahead, source, osc, type, kind, threaded, crashed, mixed>>
          /\ job = "none" /\ ~crashed
      BY <2>4 DEF Add, BetweenRequests, scene
    <3>2. order' = <<"source", "tuio">>
      <4> DEFINE M == {"source", "tuio"}
      <4>1. order = <<"source">> /\ order' = Append(order, "tuio")
        BY <2>4 DEF Add
      <4>2. order' \in Seq(M) /\ <<"source", "tuio">> \in Seq(M)
        BY <4>1
      <4>3. /\ Len(order') = Len(<<"source", "tuio">>)
            /\ \A i \in 1..Len(order') : order'[i] = <<"source", "tuio">>[i]
        BY <4>1
      <4> QED
        BY <4>2, <4>3, SameElements
    <3>3. late' = source
      BY <2>4, SMT, SMTT(30) DEF Add
    <3> QED
      BY <3>1, <3>2, <3>3, SetsOfOrders DEF TuioInv, Sweeps, Orders, ReachedAreChanged,
         SocketIsOpen, NeverReadsNull
  <2>5. CASE Reconnect
    <3>1. /\ UNCHANGED <<order, job, ahead, source, osc, late, type, threaded, crashed>>
          /\ kind' \in Kinds /\ mixed' /\ ~crashed
      BY <2>5 DEF Reconnect, BetweenRequests, scene, control
    <3> QED
      BY <3>1 DEF TuioInv, Sweeps, ReachedAreChanged, SocketIsOpen, NeverReadsNull, Reached, Ahead
  <2>6. CASE Push
    BY <2>6, PushKeeps DEF Push
  <2>7. CASE Deliver \/ Lose \/ TuioEnded \/ UNCHANGED tuio_vars
    BY <2>1, <2>7, Zenon DEF Deliver, Lose, TuioEnded, tuio_vars, scene, control
  <2> QED
    BY <2>2, <2>3, <2>4, <2>5, <2>6, <2>7, SMT, SMTT(30) DEF TuioNext
<1> QED
  BY <1>1, <1>2, PTL DEF TuioSpec

(* For every set of blob ids, however long the network holds its bundles:  *)
(* notifyData of a module on the main thread that was there when the       *)
(* pipeline was started, and whose source tracks one kind of blobs, finds  *)
(* its socket open and the properties it reads.                            *)
THEOREM TuioNeverReadsNull == TuioSpec => []NeverReadsNull
BY TuioInvariant, PTL DEF TuioInv
-----------------------------------------------------------------------------
(* The calibration: what update() relies on, whatever requests set         *)
(* meanwhile.  The invariant says in addition that the last point measured *)
(* is of the touch that finished last, which makes the next point one of   *)
(* another touch.                                                          *)

\* The touch of the last point is the one that finished.
LastIsFinished ==
  Running /\ surfacePoints # <<>> /\ surfacePoints[Len(surfacePoints)] \in Touch =>
    surfacePoints[Len(surfacePoints)] = last_finished_id

CalibrationInv == CalibrationHolds /\ LastIsFinished

LEMMA PointsTyped ==
  ASSUME CalibrationTypeOK, DifferentTouches
  PROVE  /\ Points \in Seq(Touch \cup {Unmeasured})
         /\ \A i \in 1..(Len(Points) - 1) : Points[i] \in Touch => Points[i] # Points[i + 1]
BY DEF Points, CalibrationTypeOK, DifferentTouches

\* One more point, after a point of another touch.
LEMMA AppendKeeps ==
  ASSUME NEW points \in Seq(Touch \cup {Unmeasured}), NEW t \in Touch \cup {Unmeasured},
         \A i \in 1..(Len(points) - 1) : points[i] \in Touch => points[i] # points[i + 1],
         points # <<>> /\ points[Len(points)] \in Touch => points[Len(points)] # t
  PROVE  LET more == Append(points, t) IN
         /\ more \in Seq(Touch \cup {Unmeasured})
         /\ Len(more) = Len(points) + 1 /\ more[Len(more)] = t
         /\ \A i \in 1..(Len(more) - 1) : more[i] \in Touch => more[i] # more[i + 1]
<1> DEFINE more == Append(points, t)
<1>1. more \in Seq(Touch \cup {Unmeasured}) /\ Len(more) = Len(points) + 1
      /\ \A i \in 1..Len(points) : more[i] = points[i]
      /\ more[Len(points) + 1] = t /\ Len(points) \in Nat
  OBVIOUS
<1>2. ASSUME NEW i \in 1..(Len(more) - 1), more[i] \in Touch PROVE more[i] # more[i + 1]
  <2>1. CASE i = Len(points)
    BY <1>1, <1>2, <2>1, SMTT(30)
  <2>2. CASE i # Len(points)
    BY <1>1, <1>2, <2>2, SMTT(30)
  <2> QED
    BY <2>1, <2>2
<1> QED
  BY <1>1, <1>2

\* What a press adds to the points is of the touch that is there, if it is of
\* a touch, and that touch did not finish the point before.
LEMMA PressedMeasures ==
  ASSUME CalibrationAssumption, CalibrationInv, NEW t \in Touch, Pressed(t), Pointed(t) # NoTouch
  PROVE  /\ Pointed(t) = t
         /\ (\E p \in Position(t) : surfacePoints' = Append(Points, p)) =>
              /\ surfacePoints' \in Seq(Touch \cup {Unmeasured})
              /\ Len(surfacePoints') = Len(Points) + 1
              /\ DifferentTouches' /\ LastIsFinished'
<1> USE DEF CalibrationInv, CalibrationHolds
<1>1. t = last_id
  BY DEF Pointed
<1>2. Pointed(t) = t
  BY <1>1 DEF CalibrationAssumption, Pointed, DurationBelongsToTouch
<1>3. Running /\ t # last_finished_id /\ last_finished_id' = t
  BY <1>1 DEF Pressed, Finished
<1>4. Points # <<>> /\ Points[Len(Points)] \in Touch => Points[Len(Points)] # t
  BY <1>3, SMT, SMTT(30) DEF Points, LastIsFinished
<1>5. ASSUME NEW p \in {t, Unmeasured}, surfacePoints' = Append(Points, p)
      PROVE  /\ surfacePoints' \in Seq(Touch \cup {Unmeasured})
             /\ Len(surfacePoints') = Len(Points) + 1
             /\ DifferentTouches' /\ LastIsFinished'
  <2>1. p \in Touch \cup {Unmeasured} /\ (p \in Touch => p = t)
    BY DEF CalibrationAssumption
  <2>2. Points # <<>> /\ Points[Len(Points)] \in Touch => Points[Len(Points)] # p
    BY <1>4, <2>1
  <2>3. /\ surfacePoints' \in Seq(Touch \cup {Unmeasured})
        /\ Len(surfacePoints') = Len(Points) + 1
        /\ surfacePoints'[Len(surfacePoints')] = p
        /\ DifferentTouches'
    BY <1>5, <2>1, <2>2, PointsTyped, AppendKeeps, SMTT(30) DEF DifferentTouches
  <2>4. LastIsFinished'
    BY <1>3, <2>1, <2>3, SMT, SMTT(30) DEF LastIsFinished
  <2> QED
    BY <2>3, <2>4
<1>6. \A p \in Position(t) : p \in {t, Unmeasured}
  BY <1>2 DEF Position
<1> QED
  BY <1>2, <1>5, <1>6, SMT, SMTT(30)

\* activate_calibration leaves the progress as it is, or starts again.
LEMMA ActivateTyped ==
  ASSUME CalibrationAssumption, CalibrationTypeOK, NEW on \in BOOLEAN, activate_calibration(on)
  PROVE  /\ active_point' \in 0..MaxPoints /\ edited' \in BOOLEAN
         /\ last_id' \in Touch \cup {NoTouch} /\ last_finished_id' = last_finished_id
<1>1. CASE resetCalibration
  <2>1. active_point' \in 0..MaxPoints
    BY <1>1 DEF resetCalibration, CalibrationAssumption
  <2> QED
    BY <1>1, <2>1, Zenon DEF resetCalibration
<1>2. CASE UNCHANGED <<progress, edited>>
  BY <1>2 DEF CalibrationTypeOK, progress
<1>3. resetCalibration \/ UNCHANGED <<progress, edited>>
  BY Zenon, ZenonT(30) DEF activate_calibration
<1> QED
  BY <1>1, <1>2, <1>3

LEMMA SetKeeps ==
  ASSUME CalibrationAssumption, CalibrationInv, Set
  PROVE  CalibrationInv'
<1> USE DEF CalibrationInv, CalibrationHolds, CalibrationAssumption
<1>1. ASSUME NEW on \in BOOLEAN, SetCalibrate(on) PROVE CalibrationInv'
  <2> USE <1>1 DEF SetCalibrate, activate_calibration, resetCalibration, current, progress,
                   triangles
  <2>1. CalibrationTypeOK'
    BY ActivateTyped, Zenon, ZenonT(30) DEF CalibrationTypeOK
  <2>2. ProgressMatchesPoints'
    BY SMT, SMTT(30) DEF ProgressMatchesPoints, CalibrationTypeOK, Running
  <2>3. TransformsTriangulated' /\ DifferentTouches' /\ LastIsFinished'
    BY DEF TransformsTriangulated, DifferentTouches, LastIsFinished, Running
  <2>4. DurationBelongsToTouch'
    BY DEF DurationBelongsToTouch
  <2> QED
    BY <2>1, <2>2, <2>3, <2>4
<1>2. ASSUME NEW d \in Durations, SetDuration(d) PROVE CalibrationInv'
  <2> USE <1>2 DEF SetDuration, activate_calibration, resetCalibration, current, progress,
                   triangles
  <2>1. CalibrationTypeOK'
    BY ActivateTyped, Zenon DEF CalibrationTypeOK
  <2>2. ProgressMatchesPoints'
    BY DEF ProgressMatchesPoints, CalibrationTypeOK, Running
  <2>3. TransformsTriangulated' /\ DifferentTouches' /\ LastIsFinished'
    BY DEF TransformsTriangulated, DifferentTouches, LastIsFinished, Running
  <2>4. DurationBelongsToTouch'
    BY SMT, SMTT(30) DEF DurationBelongsToTouch, Running
  <2> QED
    BY <2>1, <2>2, <2>3, <2>4
<1>3. ASSUME NEW n \in Sizes, buildScreenPoints(n) PROVE CalibrationInv'
  BY <1>3, SMT, SMTT(30)
     DEF buildScreenPoints, Edited, Running, current, progress, triangles, CalibrationTypeOK,
     TransformsTriangulated, DifferentTouches, ProgressMatchesPoints,
     DurationBelongsToTouch, LastIsFinished
<1>4. ASSUME NEW n \in Sizes, SetSurfacePoints(n) PROVE CalibrationInv'
  <2>1. /\ surfacePoints' \in Seq(Touch \cup {Unmeasured}) /\ Len(surfacePoints') = n
        /\ \A i \in 1..n : surfacePoints'[i] \notin Touch
    BY <1>4 DEF SetSurfacePoints
  <2>2. DifferentTouches' /\ LastIsFinished'
    BY <2>1, SMT, SMTT(30) DEF DifferentTouches, LastIsFinished
  <2> QED
    BY <1>4, <2>1, <2>2 DEF SetSurfacePoints, surfacepoints_changed, Edited, Running,
       current, progress, triangles, CalibrationTypeOK, TransformsTriangulated,
       ProgressMatchesPoints, DurationBelongsToTouch
<1> QED
  BY <1>1, <1>2, <1>3, <1>4, SMT, SMTT(30) DEF Set

LEMMA updateKeeps ==
  ASSUME CalibrationAssumption, CalibrationInv, Calibration_update
  PROVE  CalibrationInv'
<1> USE DEF CalibrationInv, CalibrationHolds
<1>1. CASE Ambiguous
  BY <1>1 DEF Ambiguous, calibration_vars, current, progress, triangles, CalibrationTypeOK,
     TransformsTriangulated, DifferentTouches, ProgressMatchesPoints,
     DurationBelongsToTouch, LastIsFinished, Running
<1>2. CASE Transform
  <2> USE <1>2 DEF Transform, triangulate, progress, current
  <2>1. CalibrationTypeOK'
    BY Zenon DEF CalibrationTypeOK, CalibrationAssumption
  <2>2. TransformsTriangulated'
    BY DEF CalibrationTypeOK, TransformsTriangulated, Running, CalibrationAssumption
  <2>3. DifferentTouches' /\ LastIsFinished'
    BY DEF DifferentTouches, LastIsFinished, Running
  <2>4. ProgressMatchesPoints' /\ DurationBelongsToTouch'
    BY DEF ProgressMatchesPoints, DurationBelongsToTouch, Running
  <2> QED
    BY <2>1, <2>2, <2>3, <2>4
<1>3. ASSUME NEW t \in Touch, IgnoreFinished(t) PROVE CalibrationInv'
  <2> USE <1>3 DEF IgnoreFinished, progress, current
  <2>1. CalibrationTypeOK' /\ DifferentTouches'
    BY PointsTyped DEF CalibrationTypeOK, DifferentTouches, surfacepoints_changed
  <2>2. LastIsFinished'
    BY DEF LastIsFinished, Points, Running
  <2>3. ProgressMatchesPoints'
    BY DEF ProgressMatchesPoints, Points, Running
  <2>4. TransformsTriangulated'
    BY Zenon, ZenonT(30) DEF TransformsTriangulated, Running, surfacepoints_changed
  <2>5. DurationBelongsToTouch'
    BY DEF DurationBelongsToTouch
  <2> QED
    BY <2>1, <2>2, <2>3, <2>4, <2>5, SMT, SMTT(30)
<1>4. ASSUME NEW t \in Touch, Hold(t) PROVE CalibrationInv'
  <2> USE <1>4 DEF Hold, progress, current
  <2>1. /\ Pointed(t) \in Touch \cup {NoTouch} /\ Duration(t) \in Nat
        /\ Pointed(t) = NoTouch => Duration(t) = 0
        /\ Pointed(t) # NoTouch => Pointed(t) = t
    BY SMT, SMTT(30) DEF Pointed, Duration, CalibrationTypeOK, DurationBelongsToTouch,
       CalibrationAssumption
  <2>2. CalibrationTypeOK' /\ DifferentTouches'
    BY <2>1, PointsTyped, Zenon DEF CalibrationTypeOK, DifferentTouches, surfacepoints_changed
  <2>3. LastIsFinished'
    BY DEF LastIsFinished, Points, Running
  <2>4. ProgressMatchesPoints'
    BY DEF ProgressMatchesPoints, Points, Running
  <2>5. TransformsTriangulated'
    BY Zenon, ZenonT(30) DEF TransformsTriangulated, Running, surfacepoints_changed
  <2>6. DurationBelongsToTouch'
    BY <2>1 DEF DurationBelongsToTouch, Running
  <2> QED
    BY <2>2, <2>3, <2>4, <2>5, <2>6, SMT, SMTT(30)
<1>5. ASSUME NEW t \in Touch, PressedNull(t) PROVE CalibrationInv'
  <2> USE <1>5 DEF PressedNull, Pressed
  <2>1. t # last_id
    BY DEF Pointed, CalibrationAssumption
  <2>2. duration_per_point = 0
    BY <2>1, SMT, SMTT(30) DEF Duration, CalibrationTypeOK, CalibrationAssumption
  <2>3. CalibrationTypeOK' /\ DifferentTouches'
    BY PointsTyped DEF CalibrationTypeOK, DifferentTouches, surfacepoints_changed
  <2>4. LastIsFinished' /\ TransformsTriangulated'
    BY DEF LastIsFinished, TransformsTriangulated, Running
  <2>5. ProgressMatchesPoints'
    BY DEF ProgressMatchesPoints, Points
  <2>6. DurationBelongsToTouch'
    BY <2>2, SMT, SMTT(30) DEF DurationBelongsToTouch
  <2> QED
    BY <2>3, <2>4, <2>5, <2>6
<1>6. ASSUME NEW t \in Touch, NextPoint(t) PROVE CalibrationInv'
  <2> USE <1>6 DEF NextPoint, Pressed
  <2>1. /\ surfacePoints' \in Seq(Touch \cup {Unmeasured})
        /\ Len(surfacePoints') = Len(Points) + 1
        /\ DifferentTouches' /\ LastIsFinished'
    BY PressedMeasures, SMT, SMTT(30)
  <2>2. CalibrationTypeOK'
    BY <2>1, SMT, SMTT(30) DEF CalibrationTypeOK, surfacepoints_changed, CalibrationAssumption
  <2>3. ProgressMatchesPoints'
    BY <2>1, SMT, SMTT(30) DEF ProgressMatchesPoints, Points, CalibrationTypeOK,
       CalibrationAssumption, Running
  <2>4. TransformsTriangulated'
    BY DEF TransformsTriangulated, surfacepoints_changed, CalibrationTypeOK, Running
  <2>5. DurationBelongsToTouch'
    BY DEF DurationBelongsToTouch
  <2> QED
    BY <2>1, <2>2, <2>3, <2>4, <2>5, SMT, SMTT(30)
<1>7. ASSUME NEW t \in Touch, LastPoint(t) PROVE CalibrationInv'
  <2> USE <1>7 DEF LastPoint, Pressed
  <2>1. /\ surfacePoints' \in Seq(Touch \cup {Unmeasured})
        /\ Len(surfacePoints') = Len(Points) + 1 /\ Len(Points) \in Nat
        /\ DifferentTouches' /\ LastIsFinished'
    BY PressedMeasures, PointsTyped, SMT, SMTT(30)
  <2>2. CalibrationTypeOK'
    <3>1. calibrate' \in BOOLEAN /\ calibrated' \in BOOLEAN
      BY Zenon
    <3>2. retriangulate' \in BOOLEAN
      BY Zenon DEF CalibrationTypeOK, triangulate
    <3>3. active_point' \in 0..MaxPoints
      BY DEF CalibrationAssumption
    <3>4. subdiv' \in BOOLEAN
      BY Zenon DEF CalibrationTypeOK, triangulate
    <3> QED
      BY <2>1, <3>1, <3>2, <3>3, <3>4 DEF CalibrationTypeOK, triangulate
  <2>3. ProgressMatchesPoints'
    <3>1. ~edited => Len(surfacePoints') = screenPoints
      BY <2>1, SMT, SMTT(30) DEF ProgressMatchesPoints, Points, CalibrationTypeOK,
         CalibrationAssumption
    <3>2. ~edited => stopped' = "no"
      BY <3>1, Zenon DEF triangulate, Running
    <3>3. stopped' # "range" /\ ~calibrate' /\ edited' = edited
      BY DEF triangulate, Running
    <3> QED
      BY <3>2, <3>3 DEF ProgressMatchesPoints
  <2>4. TransformsTriangulated'
    BY <2>1 DEF TransformsTriangulated, triangulate, Running
  <2>5. DurationBelongsToTouch'
    BY DEF DurationBelongsToTouch, triangulate, Running
  <2> QED
    BY <2>1, <2>2, <2>3, <2>4, <2>5, SMT, SMTT(30)
<1> QED
  BY <1>1, <1>2, <1>3, <1>4, <1>5, <1>6, <1>7, SMT, SMTT(30) DEF Calibration_update

LEMMA CalibrationInvariant ==
  ASSUME CalibrationAssumption
  PROVE  CalibrationSpec => []CalibrationInv
<1>1. CalibrationInit => CalibrationInv
  <2> SUFFICES ASSUME CalibrationInit PROVE CalibrationInv
    OBVIOUS
  <2>1. /\ calibrate \in BOOLEAN /\ calibrated \in BOOLEAN /\ retriangulate \in BOOLEAN
        /\ edited \in BOOLEAN /\ subdiv \in BOOLEAN
    BY Zenon DEF CalibrationInit
  <2>2. CalibrationTypeOK
    BY <2>1 DEF CalibrationInit, CalibrationTypeOK, CalibrationAssumption
  <2> QED
    BY <2>2 DEF CalibrationInit, CalibrationInv, CalibrationHolds, TransformsTriangulated, DifferentTouches,
       ProgressMatchesPoints, DurationBelongsToTouch, LastIsFinished
<1>2. CalibrationInv /\ [CalibrationNext]_calibration_vars => CalibrationInv'
  <2>1. CASE UNCHANGED calibration_vars
    BY <2>1 DEF CalibrationInv, CalibrationHolds, calibration_vars, current, progress, triangles, CalibrationTypeOK,
       TransformsTriangulated, DifferentTouches, ProgressMatchesPoints,
       DurationBelongsToTouch, LastIsFinished, Running
  <2> QED
    BY <2>1, SetKeeps, updateKeeps, SMT, SMTT(30) DEF CalibrationNext, Ended
<1> QED
  BY <1>1, <1>2, PTL DEF CalibrationSpec

(* Whatever the user presses and whatever requests set meanwhile, for      *)
(* every grid, also an empty one, every duration and set of touches:       *)
(* transformPoints never reads a triangulation that is missing, no touch   *)
(* measures two points in a row, an unedited calibration of a grid with    *)
(* points has one surface point per pressed screen point, and the          *)
(* assertion current_duration == 0 never fails.  The assertion of          *)
(* triangulate() can fail, but only after an edit or for a triangulation   *)
(* that was asked for before the points changed again.                     *)
THEOREM CalibrationIsSound ==
  ASSUME CalibrationAssumption
  PROVE  CalibrationSpec => []CalibrationHolds
BY CalibrationInvariant, PTL DEF CalibrationInv
=============================================================================

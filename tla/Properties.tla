----------------------------- MODULE Properties -----------------------------
(* moProperty and the maps of properties that modules and the containers      *)
(* travelling between them hold.  A property has a fixed type; set() takes a  *)
(* value of any type and converts it, the getters convert back, and every     *)
(* copy a property ever gets goes through its text: moModule::serialize-      *)
(* Creation writes asString() into a preset, moPipeline::parse sets the text  *)
(* it reads, and moDataGenericContainer::clone makes a string property of it. *)
(*                                                                            *)
(* Numbers are counted in ten millionths: %f keeps six digits after the point *)
(* and the stream operator of a point list six significant ones, so both lose *)
(* digits of such a number.  A text is a sequence of pieces: a number, a      *)
(* separator or a word.                                                       *)
EXTENDS Integers, Sequences, SequencesExt

CONSTANTS
  Names,      \* names of properties
  Values,     \* Values[type]: the values of that type that set is given
  Callbacks,  \* callback functions
  None        \* no value heard yet

VARIABLES
  props,      \* the properties of a module: name -> property
  heard,      \* heard[n][c]: the text callback c saw when it was last called
  copied,     \* the properties when the container was cloned
  clone       \* the properties of the clone

vars == <<props, heard, copied, clone>>

Types == DOMAIN Values

One == 10000000

(******************************** Texts **************************************)

(* "shortest" is how %d and the stream operator write a number, "fixed" how   *)
(* %f does: "1" and "1.000000" are different texts.                           *)
Num(n)     == [kind |-> "shortest", n |-> n]
Fixed(n)   == [kind |-> "fixed", n |-> n]
Word(w)    == [kind |-> w, n |-> 0]
IsNumber(p) == p.kind \in {"shortest", "fixed"}

Rounded(n, unit) == ((n + unit \div 2) \div unit) * unit

(* The unit of the sixth significant digit of n.                              *)
Significant(n) == IF n >= 100000000 THEN 1000 ELSE IF n >= 10000000 THEN 100
                  ELSE IF n >= 1000000 THEN 10 ELSE 1

(* atof: the number a text starts with, 0 without one.                        *)
atof(s) == IF s # <<>> /\ IsNumber(s[1]) THEN s[1].n ELSE 0
atoi(s) == atof(s) \div One

(* The parts of s between the delimiters; a text that is empty, or ends with  *)
(* a delimiter, has an empty last part.                                       *)
RECURSIVE tokenize(_, _)
tokenize(s, delimiter) ==
  IF s = <<>> THEN <<<<>>>>
  ELSE LET at == {k \in DOMAIN s : s[k].kind = delimiter}
           dPos == CHOOSE k \in at : \A j \in at : k <= j
       IN  IF at = {} THEN <<s>>
           ELSE <<SubSeq(s, 1, dPos - 1)>>
                \o tokenize(SubSeq(s, dPos + 1, Len(s)), delimiter)

(***************************** Conversions ***********************************)

Truths == {<<Word("true")>>, <<Word("True")>>, <<Word("TRUE")>>, <<Num(One)>>}

convertToBool(type, val) ==
  CASE type = "bool"      -> val
    [] type = "string"    -> val \in Truths
    [] type = "integer"   -> val # 0
    [] type = "double"    -> val # 0
    [] type = "pointlist" -> Len(val) > 0

PointText(p) == <<Num(Rounded(p[1], Significant(p[1]))), Word(","),
                  Num(Rounded(p[2], Significant(p[2]))), Word(";")>>

convertToString(type, val) ==
  CASE type = "string"    -> val
    [] type = "bool"      -> <<Word(IF val THEN "true" ELSE "false")>>
    [] type = "integer"   -> <<Num(val * One)>>
    [] type = "double"    -> <<Fixed(Rounded(val, 10))>>
    [] type = "pointlist" -> FlattenSeq([k \in DOMAIN val |-> PointText(val[k])])

(* There is no double of a point list: the switch ends in assert(0).          *)
convertToDouble(type, val) ==
  CASE type = "string"  -> atof(val)
    [] type = "bool"    -> IF val THEN One ELSE 0
    [] type = "integer" -> val * One
    [] type = "double"  -> val

convertToInteger(type, val) ==
  CASE type = "string"    -> atoi(val)
    [] type = "bool"      -> IF val THEN 1 ELSE 0
    [] type = "integer"   -> val
    [] type = "double"    -> val \div One
    [] type = "pointlist" -> Len(val)

(* Only parts of exactly two numbers are points; no other type has any.       *)
convertToPointList_AnyPart(type, val) ==
  LET parts == [k \in 1 .. Len(tokenize(val, ";")) |-> tokenize(tokenize(val, ";")[k], ",")]
      Point(p) == <<atof(p[1]), IF Len(p) > 1 THEN atof(p[2]) ELSE 0>>
  IN  CASE type = "string"    -> [k \in DOMAIN parts |-> Point(parts[k])]
        [] type = "pointlist" -> val
        [] OTHER              -> <<>>
convertToPointList(type, val) ==
  LET parts == [k \in 1 .. Len(tokenize(val, ";")) |-> tokenize(tokenize(val, ";")[k], ",")]
      points == SelectSeq(parts, LAMBDA p : Len(p) = 2)
  IN  CASE type = "string"    -> [k \in DOMAIN points |-> <<atof(points[k][1]), atof(points[k][2])>>]
        [] type = "pointlist" -> val
        [] OTHER              -> <<>>

(* AUTOCONVERT: a value v of type `type`, stored in a property of type `to`.  *)
AUTOCONVERT(to, type, v) ==
  CASE to = "bool"      -> convertToBool(type, v)
    [] to = "string"    -> convertToString(type, v)
    [] to = "integer"   -> convertToInteger(type, v)
    [] to = "double"    -> convertToDouble(type, v)
    [] to = "pointlist" -> convertToPointList(type, v)

Convertible(to, type) == ~(to = "double" /\ type = "pointlist")

(***************************** Properties ************************************)

(* The constructors: the value decides the type for good, and init() leaves   *)
(* the property writable and without callbacks.                               *)
moProperty(type, value) ==
  [type |-> type, val |-> value, readonly |-> FALSE, callbacks |-> {}]

asString(p) == convertToString(p.type, p.val)

Set(p, type, value) == [p EXCEPT !.val = AUTOCONVERT(p.type, type, value)]

(* fireCallback: every callback is handed the property as it is now.          *)
fireCallback(h, n, p) == [h EXCEPT ![n] = [c \in Callbacks |->
                            IF c \in p.callbacks THEN asString(p) ELSE @[c]]]

(* What moModule::property creates for a name nobody declared.                *)
AutoCreated == moProperty("string", <<>>)

(****************************** Operations ***********************************)

Init ==
  /\ props = [n \in {} |-> AutoCreated]
  /\ heard = [n \in Names |-> [c \in Callbacks |-> None]]
  /\ copied = [n \in {} |-> AutoCreated]
  /\ clone = [n \in {} |-> AutoCreated]

(* A module's constructor declares a property.                                *)
Declare(n) ==
  /\ n \notin DOMAIN props
  /\ \E type \in Types : \E value \in Values[type] :
       props' = (n :> moProperty(type, value)) @@ props
  /\ UNCHANGED <<heard, copied, clone>>

(* moModule::property of an undeclared name.                                  *)
property(n) ==
  /\ n \notin DOMAIN props
  /\ props' = (n :> AutoCreated) @@ props
  /\ UNCHANGED <<heard, copied, clone>>

set_FiresFirst(n) ==
  /\ n \in DOMAIN props /\ ~props[n].readonly
  /\ \E type \in {ty \in Types : Convertible(props[n].type, ty)} : \E value \in Values[type] :
       /\ props' = [props EXCEPT ![n] = Set(@, type, value)]
       /\ heard' = fireCallback(heard, n, props[n])
  /\ UNCHANGED <<copied, clone>>
set(n) ==
  /\ n \in DOMAIN props /\ ~props[n].readonly
  /\ \E type \in {ty \in Types : Convertible(props[n].type, ty)} : \E value \in Values[type] :
       /\ props' = [props EXCEPT ![n] = Set(@, type, value)]
       /\ heard' = fireCallback(heard, n, Set(props[n], type, value))
  /\ UNCHANGED <<copied, clone>>

setReadOnly(n) ==
  /\ n \in DOMAIN props
  /\ \E ro \in BOOLEAN : props' = [props EXCEPT ![n].readonly = ro]
  /\ UNCHANGED <<heard, copied, clone>>

(* The assertion of addCallback: a function is registered once.               *)
addCallback(n) ==
  /\ n \in DOMAIN props
  /\ \E c \in Callbacks \ props[n].callbacks :
       props' = [props EXCEPT ![n].callbacks = @ \cup {c}]
  /\ UNCHANGED <<heard, copied, clone>>

removeCallback(n) ==
  /\ n \in DOMAIN props
  /\ \E c \in props[n].callbacks :
       /\ props' = [props EXCEPT ![n].callbacks = @ \ {c}]
       /\ heard' = [heard EXCEPT ![n][c] = None]
  /\ UNCHANGED <<copied, clone>>

Clone ==
  /\ copied' = props
  /\ clone' = [n \in DOMAIN props |-> moProperty("string", asString(props[n]))]
  /\ UNCHANGED <<props, heard>>

Next == \/ \E n \in Names : \/ Declare(n) \/ property(n) \/ set(n) \/ setReadOnly(n)
                            \/ addCallback(n) \/ removeCallback(n)
        \/ Clone

Spec == Init /\ [][Next]_vars

(****************************** Properties ***********************************)

(* A property survives its text: set into a property of its own type, as a    *)
(* loaded preset does, or read from a clone with the getter of its type, the  *)
(* text gives a value that prints the same.  The digits printing drops are    *)
(* lost once, and nothing more however often a preset is saved and loaded or  *)
(* a container cloned.                                                        *)
TextKeepsTheValue ==
  /\ \A n \in DOMAIN props :
       asString(Set(props[n], "string", asString(props[n]))) = asString(props[n])
  /\ \A n \in DOMAIN clone :
       convertToString(copied[n].type,
         AUTOCONVERT(copied[n].type, clone[n].type, clone[n].val)) = asString(copied[n])

(* Whoever registered a callback knows the value the property has: the last   *)
(* text it was handed is the property's text, unless it was never called.     *)
CallbacksSeeTheValue ==
  \A n \in DOMAIN props, c \in Callbacks :
    (c \in props[n].callbacks /\ heard[n][c] # None) => heard[n][c] = asString(props[n])
=============================================================================

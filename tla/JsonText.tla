------------------------------ MODULE JsonText ------------------------------
(* cJSON as the daemon uses it: the handlers of movid.cpp build a tree of     *)
(* items with the cJSON_Create and cJSON_Add functions, web_json renders it   *)
(* with cJSON_Print, and the page reads it back.  The reader is cJSON's own   *)
(* parser, the only one in the repository.                                    *)
(*                                                                            *)
(* A text is a sequence of characters; a printed number is one element of it, *)
(* since only its value matters.  Numbers are counted in ten millionths, one  *)
(* digit more than the %f of print_number keeps.  The items linked from a     *)
(* `child` pointer are a sequence.                                            *)
EXTENDS Integers, Sequences, SequencesExt

CONSTANTS
  Names,       \* the names of members, sequences of characters
  Strings,     \* the values of string items, sequences of characters
  Numbers,     \* the values of number items, in ten millionths
  MaxItems     \* how many items a handler adds

VARIABLES
  root,        \* the tree a handler builds
  added,       \* how many items it has added
  fmt,         \* cJSON_Print (1) or cJSON_PrintUnformatted (0)
  text,        \* what it rendered, <<>> before
  size,        \* the bytes the outermost print function allocated for it
  parsed       \* what the reader made of it, <<>> before

vars == <<root, added, fmt, text, size, parsed>>

Quote     == "\""
Backslash == "\\"
Newline   == "\n"
Tab       == "\t"

(* A control character with no escape of its own in print_string_ptr.         *)
Control   == "control"

One == 10000000

(* A blank item: cJSON_New_Item clears every field.                           *)
New == [type |-> "NULL", string |-> <<>>, valuestring |-> <<>>,
        valuedouble |-> 0, child |-> <<>>]

Created ==
  {[New EXCEPT !.type = ty] : ty \in {"NULL", "True", "False", "Array", "Object"}}
  \cup {[New EXCEPT !.type = "Number", !.valuedouble = n] : n \in Numbers}
  \cup {[New EXCEPT !.type = "String", !.valuestring = s] : s \in Strings}

(****************************** Building *************************************)

AddItemToArray(array, item) == [array EXCEPT !.child = Append(@, item)]

AddItemToObject(object, name, item) ==
  AddItemToArray(object, [item EXCEPT !.string = name])

(* The tree t after an item is added to the container at path p, the indices  *)
(* that lead to it from the root.                                             *)
RECURSIVE AddedAt(_, _, _, _)
AddedAt(t, p, name, item) ==
  IF p # <<>>
  THEN [t EXCEPT !.child[Head(p)] = AddedAt(@, Tail(p), name, item)]
  ELSE IF t.type = "Object" THEN AddItemToObject(t, name, item)
       ELSE AddItemToArray(t, item)

RECURSIVE Containers(_)
Containers(t) ==
  IF t.type \notin {"Array", "Object"} THEN {}
  ELSE {<<>>} \cup UNION {{<<k>> \o p : p \in Containers(t.child[k])} : k \in DOMAIN t.child}

(****************************** Printing *************************************)

Char(x)   == [c |-> x, n |-> 0]
Chars(s)  == [k \in DOMAIN s |-> Char(s[k])]
Number(n) == [c |-> "number", n |-> n]
Times(k, x) == [j \in 1 .. k |-> Char(x)]

(* print_number: whole numbers in full, tiny ones as %e, the others as %f,    *)
(* which keeps six digits after the point.                                    *)
print_number(item) ==
  LET d == item.valuedouble
  IN  <<Number(IF d % One = 0 \/ d < 10 THEN d ELSE ((d + 5) \div 10) * 10)>>

Escapes == (Quote :> Quote) @@ (Backslash :> Backslash)
           @@ (Newline :> "n") @@ (Tab :> "t")

(* One character of a string: itself, its escape, or nothing for a control    *)
(* character without one ("eviscerate with prejudice").                       *)
Escaped_NoBackslash(x) ==
  IF x = Control THEN <<>>
  ELSE IF x \in DOMAIN Escapes \ {Backslash} THEN <<Char(Backslash), Char(Escapes[x])>>
  ELSE <<Char(x)>>
Escaped(x) ==
  IF x = Control THEN <<>>
  ELSE IF x \in DOMAIN Escapes THEN <<Char(Backslash), Char(Escapes[x])>>
  ELSE <<Char(x)>>

print_string_ptr(s) ==
  <<Char(Quote)>> \o FlattenSeq([k \in DOMAIN s |-> Escaped(s[k])]) \o <<Char(Quote)>>

(* What print_array and print_object allocate: the entries and their          *)
(* separators, and the constants 5 and 7 for the rest.                        *)
Sum(s) == FoldSeq(+, 0, s)

ArrayLength(entries, f) ==
  5 + Sum([k \in DOMAIN entries |-> Len(entries[k]) + 2 + f])

ObjectLength(names, entries, depth, f) ==
  7 + f * depth + Sum([k \in DOMAIN entries |->
                         Len(entries[k]) + Len(names[k]) + 2 + f * (2 + depth)])

(* The composed texts, without the final NUL.                                 *)
ArrayText(entries, f) ==
  <<Char("[")>>
  \o FlattenSeq([k \in DOMAIN entries |->
       entries[k] \o IF k # Len(entries) THEN <<Char(",")>> \o Times(f, " ") ELSE <<>>])
  \o <<Char("]")>>

ObjectText(names, entries, depth, f) ==
  <<Char("{")>> \o Times(f, Newline)
  \o FlattenSeq([k \in DOMAIN entries |->
       Times(f * depth, Tab) \o names[k] \o <<Char(":")>> \o Times(f, Tab) \o entries[k]
       \o (IF k # Len(entries) THEN <<Char(",")>> ELSE <<>>) \o Times(f, Newline)])
  \o Times(f * (depth - 1), Tab) \o <<Char("}")>>

RECURSIVE print_value(_, _, _)
print_value(item, depth, f) ==
  LET entries(d) == [k \in DOMAIN item.child |-> print_value(item.child[k], d, f)]
      names == [k \in DOMAIN item.child |-> print_string_ptr(item.child[k].string)]
  IN  CASE item.type = "NULL"   -> <<Char("null")>>
        [] item.type = "True"   -> <<Char("true")>>
        [] item.type = "False"  -> <<Char("false")>>
        [] item.type = "Number" -> print_number(item)
        [] item.type = "String" -> print_string_ptr(item.valuestring)
        [] item.type = "Array"  -> ArrayText(entries(depth + 1), f)
        [] item.type = "Object" -> ObjectText(names, entries(depth + 1), depth + 1, f)

(* The size of the buffer of the outermost container.                         *)
Allocated(item, f) ==
  LET entries == [k \in DOMAIN item.child |-> print_value(item.child[k], 1, f)]
      names == [k \in DOMAIN item.child |-> print_string_ptr(item.child[k].string)]
  IN  IF item.type = "Array" THEN ArrayLength(entries, f)
      ELSE ObjectLength(names, entries, 1, f)

(****************************** Parsing **************************************)

Blank == {" ", Newline, Tab}
At(s, k) == IF k \in DOMAIN s THEN s[k].c ELSE "end"

(* The first position from k on that holds no white space; 0 stays 0, the     *)
(* NULL that the parse functions return and skip hands through.               *)
RECURSIVE skip(_, _)
skip(s, k) == IF k # 0 /\ At(s, k) \in Blank THEN skip(s, k + 1) ELSE k

Unescaped(x) == IF x = "n" THEN Newline ELSE IF x = "t" THEN Tab ELSE x

(* The characters from k on up to the closing quote, and the place after it.  *)
RECURSIVE ReadString(_, _, _)
ReadString(s, k, read) ==
  IF At(s, k) \in {Quote, Newline, Tab, Control, "end"}
  THEN [read |-> read, at |-> IF At(s, k) = Quote THEN k + 1 ELSE k]
  ELSE IF At(s, k) = Backslash THEN ReadString(s, k + 2, Append(read, Unescaped(At(s, k + 1))))
  ELSE ReadString(s, k + 1, Append(read, At(s, k)))

parse_string(s, k) ==
  IF At(s, k) # Quote THEN [item |-> New, at |-> 0]
  ELSE LET r == ReadString(s, k + 1, <<>>)
       IN  [item |-> [New EXCEPT !.type = "String", !.valuestring = r.read], at |-> r.at]

Failed == [item |-> New, at |-> 0]
Word(ty, k) == [item |-> [New EXCEPT !.type = ty], at |-> k + 1]

RECURSIVE parse_value(_, _), parse_array(_, _, _), parse_object(_, _, _)
parse_value(s, k) ==
  IF k = 0 THEN Failed
  ELSE CASE At(s, k) = "null"   -> Word("NULL", k)
         [] At(s, k) = "false"  -> Word("False", k)
         [] At(s, k) = "true"   -> Word("True", k)
         [] At(s, k) = Quote    -> parse_string(s, k)
         [] At(s, k) = "number" ->
              [item |-> [New EXCEPT !.type = "Number", !.valuedouble = s[k].n], at |-> k + 1]
         [] At(s, k) = "["      ->
              LET e == skip(s, k + 1)
                  a == [New EXCEPT !.type = "Array"]
              IN  IF At(s, e) = "]" THEN [item |-> a, at |-> e + 1] ELSE parse_array(s, e, a)
         [] At(s, k) = "{"      ->
              LET e == skip(s, k + 1)
                  o == [New EXCEPT !.type = "Object"]
              IN  IF At(s, e) = "}" THEN [item |-> o, at |-> e + 1] ELSE parse_object(s, e, o)
         [] OTHER               -> Failed

(* The elements of an array from position k on, added to the ones read.       *)
parse_array(s, k, array) ==
  LET v == parse_value(s, skip(s, k))
      e == skip(s, v.at)
      next == AddItemToArray(array, v.item)
  IN  IF e = 0 THEN Failed
      ELSE IF At(s, e) = "," THEN parse_array(s, e + 1, next)
      ELSE IF At(s, e) = "]" THEN [item |-> next, at |-> e + 1]
      ELSE Failed

parse_object(s, k, object) ==
  LET n == parse_string(s, skip(s, k))
      c == skip(s, n.at)
      v == parse_value(s, skip(s, c + 1))
      e == skip(s, v.at)
      next == AddItemToObject(object, n.item.valuestring, v.item)
  IN  IF c = 0 \/ At(s, c) # ":" \/ e = 0 THEN Failed
      ELSE IF At(s, e) = "," THEN parse_object(s, e + 1, next)
      ELSE IF At(s, e) = "}" THEN [item |-> next, at |-> e + 1]
      ELSE Failed

(****************************** The answer ***********************************)

Init ==
  /\ root = [New EXCEPT !.type = "Object"]
  /\ added = 0
  /\ fmt \in {0, 1}
  /\ text = <<>> /\ size = 0 /\ parsed = <<>>

(* A handler adds one more item to some container of its answer.              *)
AddItem ==
  /\ text = <<>> /\ added < MaxItems
  /\ \E p \in Containers(root), name \in Names, item \in Created :
       root' = AddedAt(root, p, name, item)
  /\ added' = added + 1
  /\ UNCHANGED <<fmt, text, size, parsed>>

(* web_json renders the finished tree.                                        *)
web_json ==
  /\ text = <<>>
  /\ text' = print_value(root, 0, fmt)
  /\ size' = Allocated(root, fmt)
  /\ UNCHANGED <<root, added, fmt, parsed>>

(* cJSON_Parse: the item and where its text ends, 0 when it is malformed.     *)
Parse ==
  /\ text # <<>> /\ parsed = <<>>
  /\ parsed' = <<parse_value(text, skip(text, 1))>>
  /\ UNCHANGED <<root, added, fmt, text, size>>

Next == AddItem \/ web_json \/ Parse

Spec == Init /\ [][Next]_vars

(****************************** Properties ***********************************)

(* The tree without what printing is allowed to lose: control characters that *)
(* have no escape, and the digits %f does not print.                          *)
Plain(s) == SelectSeq(s, LAMBDA x : x # Control)

RECURSIVE Printable(_)
Printable(t) ==
  [t EXCEPT !.string = Plain(@), !.valuestring = Plain(@),
            !.valuedouble = IF t.type = "Number" THEN print_number(t)[1].n ELSE 0,
            !.child = [k \in DOMAIN @ |-> Printable(@[k])]]

(* The reader of an answer gets the tree the handler built, whatever quotes,  *)
(* backslashes or line ends are in its strings, formatted or not, except for  *)
(* what print_string_ptr and print_number drop (Printable); and the text with *)
(* its final NUL fits the buffer print_array or print_object computed for it  *)
(* before composing it.                                                       *)
AnswersAreUnderstood ==
  /\ parsed # <<>> => parsed = <<[item |-> Printable(root), at |-> Len(text) + 1]>>
  /\ text # <<>> => Len(text) + 1 <= size
=============================================================================

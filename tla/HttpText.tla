------------------------------ MODULE HttpText ------------------------------
(* The texts of libevent's HTTP (http.c): the first line and the headers of a *)
(* message as evhttp_make_header writes them and the evhttp_parse functions   *)
(* read them, the parts of a URL, and the escaping of HTML.                   *)
(*                                                                            *)
(* A text is a sequence of characters; a word without special characters is   *)
(* one character.  NL stands for a line end.                                  *)
(*                                                                            *)
(* The second part has the arguments of a URI.                                *)
EXTENDS Naturals, Sequences, SequencesExt

CONSTANTS
  Types,       \* request methods evhttp_method knows
  Uris, Reasons, Codes, Minors,
  Keys,        \* keys of headers: words
  Values,      \* values of headers given to evhttp_add_header
  MaxHeaders,
  Urls,        \* URLs to split
  Number,      \* Number[w]: the number a word of digits stands for
  Html         \* texts to escape

VARIABLES
  sent,        \* the message: [kind, type, uri, minor, code, reason, headers]
  received,    \* what the peer parsed from it, <<>> before
  url, split,  \* a URL and its parts
  html, page   \* a text and its escaped form

text_vars == <<sent, received, url, split, html, page>>

SP == " "
NL == "\n"

(********************************* Writing ***********************************)

evhttp_method(type) == type

(* Line breaks in a value, one or several, must be followed by a space.       *)
evhttp_header_is_valid_value(value) ==
  \A k \in DOMAIN value : value[k] = NL => k < Len(value) /\ value[k + 1] \in {SP, NL}

(* evhttp_add_header: an invalid value is dropped.                            *)
evhttp_add_header(headers, key, value) ==
  IF evhttp_header_is_valid_value(value) THEN Append(headers, [key |-> key, value |-> value])
  ELSE headers

Version(minor) == IF minor = 1 THEN "HTTP/1.1" ELSE "HTTP/1.0"

request_line(m) == <<evhttp_method(m.type), SP>> \o m.uri \o <<SP, Version(m.minor), NL>>
response_line(m) == <<Version(m.minor), SP, m.code, SP>> \o m.reason \o <<NL>>

evhttp_make_header(m) ==
  (IF m.kind = "request" THEN request_line(m) ELSE response_line(m))
  \o FlattenSeq([k \in DOMAIN m.headers |-> <<m.headers[k].key, ":", SP>> \o m.headers[k].value \o <<NL>>])
  \o <<NL>>

(********************************* Reading ***********************************)

(* strsep: the text up to the first c and the rest, <<>> in none if absent.   *)
strsep(s, c) ==
  LET at == SelectInSeq(s, LAMBDA x : x = c)
  IN  IF at = 0 THEN [head |-> s, rest |-> <<>>, none |-> TRUE]
      ELSE [head |-> SubSeq(s, 1, at - 1), rest |-> SubSeq(s, at + 1, Len(s)), none |-> FALSE]

Corrupted == [kind |-> "corrupted"]

MinorOf(version) == IF version = <<"HTTP/1.1">> THEN 1 ELSE 0
IsVersion(version) == version \in {<<"HTTP/1.0">>, <<"HTTP/1.1">>}

evhttp_parse_request_line(line) ==
  LET method == strsep(line, SP)
      uri == strsep(method.rest, SP)
      version == strsep(uri.rest, SP)
  IN  IF method.none \/ uri.none \/ ~version.none
         \/ method.head \notin {<<t>> : t \in Types} \/ ~IsVersion(version.head)
      THEN Corrupted
      ELSE [kind |-> "request", type |-> method.head[1], uri |-> uri.head,
            minor |-> MinorOf(version.head), headers |-> <<>>]

(* The reason is the whole rest of the line.                                  *)
evhttp_parse_response_line_OneWord(line) ==
  LET protocol == strsep(line, SP)
      number == strsep(protocol.rest, SP)
  IN  IF protocol.none \/ number.none \/ ~IsVersion(protocol.head) \/ number.head = <<"0">>
      THEN Corrupted
      ELSE [kind |-> "response", minor |-> MinorOf(protocol.head), code |-> number.head[1],
            reason |-> strsep(number.rest, SP).head, headers |-> <<>>]
evhttp_parse_response_line(line) ==
  LET protocol == strsep(line, SP)
      number == strsep(protocol.rest, SP)
  IN  IF protocol.none \/ number.none \/ ~IsVersion(protocol.head) \/ number.head = <<"0">>
      THEN Corrupted
      ELSE [kind |-> "response", minor |-> MinorOf(protocol.head), code |-> number.head[1],
            reason |-> number.rest, headers |-> <<>>]

evhttp_append_to_last_header(headers, line) ==
  [headers EXCEPT ![Len(headers)].value = @ \o line]

RECURSIVE Unindented(_)
Unindented(s) == IF s # <<>> /\ s[1] = SP THEN Unindented(Tail(s)) ELSE s

(* One line after the other; a line that begins with a space continues the    *)
(* value before it.                                                           *)
RECURSIVE evhttp_parse_headers(_, _)
evhttp_parse_headers(m, text) ==
  LET line == strsep(text, NL)
      field == strsep(line.head, ":")
  IN  IF line.head = <<>> THEN m
      ELSE IF line.head[1] = SP
      THEN IF m.headers = <<>> THEN Corrupted
           ELSE evhttp_parse_headers([m EXCEPT !.headers = evhttp_append_to_last_header(@, line.head)], line.rest)
      ELSE IF field.none THEN Corrupted
      ELSE evhttp_parse_headers(
             [m EXCEPT !.headers = evhttp_add_header(@, field.head[1], Unindented(field.rest))], line.rest)

evhttp_parse_firstline(kind, text) ==
  LET line == strsep(text, NL)
      m == IF kind = "request" THEN evhttp_parse_request_line(line.head)
           ELSE evhttp_parse_response_line(line.head)
  IN  IF m = Corrupted THEN m ELSE evhttp_parse_headers(m, line.rest)

(******************************* URLs, HTML **********************************)

HTTP_DEFAULTPORT == 80

atoi(s) == IF s # <<>> /\ s[1] \in DOMAIN Number THEN Number[s[1]] ELSE 0

(* The file is what follows the first slash, the port a u_short.              *)
evhttp_hostportfile_PortFirst(u) ==
  LET hostport == strsep(Tail(u), ":")
      slash == strsep(hostport.head, "/")
      port == IF hostport.none THEN HTTP_DEFAULTPORT ELSE atoi(hostport.rest) % 65536
  IN  IF u[1] # "http://" \/ port = 0 THEN <<>>
      ELSE <<[host |-> slash.head, port |-> port, file |-> <<"/">> \o slash.rest]>>
evhttp_hostportfile(u) ==
  LET slash == strsep(Tail(u), "/")
      hostport == strsep(slash.head, ":")
      port == IF hostport.none THEN HTTP_DEFAULTPORT ELSE atoi(hostport.rest) % 65536
  IN  IF u[1] # "http://" \/ port = 0 THEN <<>>
      ELSE <<[host |-> hostport.head, port |-> port, file |-> <<"/">> \o slash.rest]>>

html_replace(ch) ==
  CASE ch = "<" -> <<"&", "lt", ";">> [] ch = ">" -> <<"&", "gt", ";">>
    [] ch = "quote" -> <<"&", "quot", ";">> [] ch = "apostrophe" -> <<"&", "#039", ";">>
    [] ch = "&" -> <<"&", "amp", ";">> [] OTHER -> <<ch>>
evhttp_htmlescape(text) == FlattenSeq([k \in DOMAIN text |-> html_replace(text[k])])

(******************************** Operations *********************************)

TextInit ==
      /\ sent \in [kind : {"request"}, type : Types, uri : Uris, minor : Minors, headers : {<<>>}]
                 \cup [kind : {"response"}, minor : Minors, code : Codes, reason : Reasons, headers : {<<>>}]
      /\ received = <<>> /\ url = <<>> /\ split = <<>> /\ html = <<>> /\ page = <<>>

AddHeader ==
  /\ url = <<>> /\ html = <<>>
  /\ Len(sent.headers) < MaxHeaders
  /\ \E key \in Keys, value \in Values :
       sent' = [sent EXCEPT !.headers = evhttp_add_header(@, key, value)]
  /\ received' = <<>>
  /\ UNCHANGED <<url, split, html, page>>

Deliver ==
  /\ url = <<>> /\ html = <<>>
  /\ received' = <<evhttp_parse_firstline(sent.kind, evhttp_make_header(sent))>>
  /\ UNCHANGED <<sent, url, split, html, page>>

(* Functions of their own, called with no message under way.                  *)
SplitUrl ==
  /\ sent.headers = <<>> /\ received = <<>> /\ html = <<>>
  /\ url' \in Urls
  /\ split' = evhttp_hostportfile(url')
  /\ UNCHANGED <<sent, received, html, page>>

Escape ==
  /\ sent.headers = <<>> /\ received = <<>> /\ url = <<>>
  /\ html' \in Html
  /\ page' = evhttp_htmlescape(html')
  /\ UNCHANGED <<sent, received, url, split>>

TextNext == AddHeader \/ Deliver \/ SplitUrl \/ Escape

TextSpec == TextInit /\ [][TextNext]_text_vars

(******************************** Properties *********************************)

(* What a value is without its line breaks and the spaces before it.          *)
Unfolded(value) ==
  LET line == strsep(value, NL)
  IN  Unindented(line.head) \o SelectSeq(line.rest, LAMBDA c : c # NL)

(* Two line breaks in a row, which evhttp_header_is_valid_value lets pass.    *)
Blank(value) == {k \in 1 .. Len(value) - 1 : value[k] = NL /\ value[k + 1] = NL}
BeforeBlank(value) == IF Blank(value) = {} THEN value ELSE SubSeq(value, 1, Min(Blank(value)) - 1)
UpToBlank(headers) ==
  LET at == SelectInSeq(headers, LAMBDA h : Blank(h.value) # {})
  IN  IF at = 0 THEN headers ELSE SubSeq(headers, 1, at)

(* The peer reads the message that was written: the same first line, with all *)
(* words of a reason, and the same headers in the same order, a value of      *)
(* several lines as one.  A value with two line breaks in a row ends the      *)
(* headers: the peer has none of what follows them (http.c:1370, 1495).       *)
MessagesAreUnderstood ==
  received # <<>> =>
    received[1] = [sent EXCEPT !.headers =
      [k \in DOMAIN UpToBlank(@) |-> [@[k] EXCEPT !.value = Unfolded(BeforeBlank(@))]]]

(* A URL is split at the slash before the port is looked for: a colon in the  *)
(* file is part of the file, and nothing of the URL is lost.                  *)
UrlsAreSplit ==
  split # <<>> =>
    LET host == split[1].host
        rest == SubSeq(url, 2 + Len(host), Len(url))
        tail == IF rest # <<>> /\ rest[1] = ":" THEN SubSeq(rest, 3, Len(rest)) ELSE rest
    IN  /\ SubSeq(url, 2, 1 + Len(host)) = host
        /\ tail = split[1].file \/ (tail = <<>> /\ split[1].file = <<"/">>)

RECURSIVE Unescaped(_)
Unescaped(s) ==
  IF s = <<>> THEN <<>>
  ELSE IF s[1] # "&" THEN <<s[1]>> \o Unescaped(Tail(s))
  ELSE <<CHOOSE c \in {"<", ">", "quote", "apostrophe", "&"} : html_replace(c) = SubSeq(s, 1, 3)>>
       \o Unescaped(SubSeq(s, 4, Len(s)))

(* Escaped text has no character left that means something in HTML, and two   *)
(* texts never become the same page.                                          *)
EscapedIsText ==
  /\ \A k \in DOMAIN page : page[k] \notin {"<", ">", "quote", "apostrophe"}
  /\ Unescaped(page) = html
-----------------------------------------------------------------------------
(***************************************************************************)
(* libevent's text conversions for URIs (http.c), with which Movid's web   *)
(* interface reads its arguments: characters are bytes, strings sequences  *)
(* of bytes.  A client builds a query, the server parses it.               *)
(***************************************************************************)

CONSTANTS
  Chars,     \* bytes of a value
  ArgNames,      \* names of arguments
  MaxValue,  \* length of a value
  MaxArgs

VARIABLES
  args,      \* the arguments the client wants to pass
  query_uri,       \* the URI so far
  parsed     \* what evhttp_parse_query found

query_vars == <<args, query_uri, parsed>>

Percent == 37
Amp == 38
Plus == 43
Equals == 61
Query == 63
Space == 32

Digit(d) == IF d < 10 THEN 48 + d ELSE 55 + d         \* "%02X"
isxdigit(c) == c \in 48..57 \/ c \in 65..70 \/ c \in 97..102
Value(c) == IF c \in 48..57 THEN c - 48 ELSE IF c \in 65..70 THEN c - 55 ELSE c - 87

\* Faulty: percent signs are left alone.
uri_chars_Percent == (48..58) \cup (65..90) \cup (97..122) \cup (39..47)
                       \cup {33, 36, Percent, Equals, 64, 95, 126}

\* The characters uri_chars marks: letters, digits and !$'()*+,-./:=@_~.
uri_chars == (48..58) \cup (65..90) \cup (97..122) \cup (39..47)
               \cup {33, 36, Equals, 64, 95, 126}

evhttp_encode_uri(s) ==
  FlattenSeq([i \in DOMAIN s |-> IF s[i] \in uri_chars THEN <<s[i]>>
                ELSE <<Percent, Digit(s[i] \div 16), Digit(s[i] % 16)>>])

\* From position i on, in or before the query.
evhttp_decode_uri_internal(s, always_decode_plus) ==
  LET at(i) == IF i <= Len(s) THEN s[i] ELSE 0
      from[i \in 1..Len(s) + 3, in_query \in BOOLEAN] ==
        IF i > Len(s) THEN <<>>
        ELSE IF s[i] = Query THEN <<s[i]>> \o from[i + 1, TRUE]
        ELSE IF s[i] = Plus /\ in_query THEN <<Space>> \o from[i + 1, in_query]
        ELSE IF s[i] = Percent /\ isxdigit(at(i + 1)) /\ isxdigit(at(i + 2))
          THEN <<16 * Value(at(i + 1)) + Value(at(i + 2))>> \o from[i + 3, in_query]
        ELSE <<s[i]>> \o from[i + 1, in_query]
  IN from[1, always_decode_plus]

evhttp_decode_uri(s) == evhttp_decode_uri_internal(s, FALSE)

\* strsep: what is before the first c, and what is behind it (a pair of
\* sequences, the second as a set of at most one).
strsep_query(s, c) ==
        LET i == IF Contains(s, c) THEN SelectInSeq(s, LAMBDA x : x = c) ELSE Len(s) + 1
        IN [head |-> SubSeq(s, 1, i - 1), tail |-> SubSeq(s, i + 1, Len(s)), found |-> Contains(s, c)]

\* Arguments up to the first without an equals sign.
evhttp_parse_query(s) ==
  LET from[p \in {SubSeq(s, i, Len(s)) : i \in 1..Len(s) + 1}] ==
        LET argument == strsep_query(p, Amp)
            pair == strsep_query(argument.head, Equals)
        IN IF p = <<>> \/ ~pair.found THEN <<>>
           ELSE <<<<pair.head, evhttp_decode_uri_internal(pair.tail, TRUE)>>>>
                  \o (IF argument.found THEN from[argument.tail] ELSE <<>>)
  IN IF strsep_query(s, Query).found THEN from[strsep_query(s, Query).tail] ELSE <<>>
-----------------------------------------------------------------------------
QueryInit == args = <<>> /\ query_uri = <<47>> /\ parsed = <<>>

\* The client encodes a value with evhttp_encode_uri, which leaves a plus as it
\* is; a client that wants to pass one has to encode it.
Argument(k, v) ==
  /\ Len(args) < MaxArgs
  /\ args' = Append(args, <<k, v>>)
  /\ query_uri' = query_uri \o (IF args = <<>> THEN <<Query>> ELSE <<Amp>>) \o k \o <<Equals>>
                            \o evhttp_encode_uri(v)
  /\ parsed' = evhttp_parse_query(query_uri')

Again == args # <<>> /\ args' = <<>> /\ query_uri' = <<47>> /\ parsed' = <<>>

QueryNext == (\E k \in ArgNames, v \in BoundedSeq(Chars, MaxValue) : Argument(k, v)) \/ Again

QuerySpec == QueryInit /\ [][QueryNext]_query_vars

\* What a plus becomes in a query.
Spaced(s) == [i \in DOMAIN s |-> IF s[i] = Plus THEN Space ELSE s[i]]

(* Every argument of a query reaches the handler under its name and with   *)
(* its value, whatever bytes it has, a plus excepted, which turns into a   *)
(* space; and outside a query decoding undoes encoding for every string.   *)
QueriesArrive ==
  /\ parsed = [i \in DOMAIN args |-> <<args[i][1], Spaced(args[i][2])>>]
  /\ \A i \in DOMAIN args : evhttp_decode_uri(evhttp_encode_uri(args[i][2])) = args[i][2]
=============================================================================

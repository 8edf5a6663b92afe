---------------------------- MODULE HttpFraming ----------------------------
(***************************************************************************)
(* What the two ends of an HTTP exchange over libevent's http.c agree on:  *)
(* where the body of a reply ends, and whether the connection goes on.     *)
(* The server chooses headers when the reply starts; the client chooses    *)
(* from the headers how it reads.  Headers are ordered lists of pairs, the *)
(* wire is a sequence of lines and bytes of a body.                        *)
(***************************************************************************)
EXTENDS Naturals, Sequences, SequencesExt

CONSTANTS
  Minors,       \* HTTP/1.minor of the request
  Connections,  \* values of the Connection header of the request, None: without
  Styles,       \* "reply", "page", "stream": the call the application makes
  MaxBody,      \* bytes of a body, or chunks of a stream
  None

VARIABLES
  req,     \* the request as the server has it
  wire,    \* what is under way to the client
  client   \* state of the client's request

vars == <<req, wire, client>>

evhttp_find_header(headers, key) ==
  LET found == SelectSeq(headers, LAMBDA h : h[1] = key) IN
  IF found = <<>> THEN None ELSE found[1][2]

evhttp_add_header(headers, key, value) == Append(headers, <<key, value>>)

\* The first header of that name.
evhttp_remove_header(headers, key) ==
  IF evhttp_find_header(headers, key) = None THEN headers
  ELSE RemoveAt(headers, SelectInSeq(headers, LAMBDA h : h[1] = key))

evhttp_is_connection_close(headers) == evhttp_find_header(headers, "Connection") = "close"
evhttp_is_connection_keepalive(headers) == evhttp_find_header(headers, "Connection") = "keep-alive"

evhttp_maybe_add_content_length_header(headers, length) ==
  IF evhttp_find_header(headers, "Transfer-Encoding") = None
       /\ evhttp_find_header(headers, "Content-Length") = None
    THEN evhttp_add_header(headers, "Content-Length", length) ELSE headers

\* Headers the application gave, and what the reply needs besides.
evhttp_make_header_response(r) ==
  LET alive == evhttp_is_connection_keepalive(r.input)
      kept == IF r.minor = 0 /\ alive
                THEN evhttp_add_header(r.output, "Connection", "keep-alive") ELSE r.output
      sized == IF r.minor = 1 \/ alive
                 THEN evhttp_maybe_add_content_length_header(kept, r.length) ELSE kept
  IN IF evhttp_is_connection_close(r.input)
       THEN evhttp_add_header(evhttp_remove_header(sized, "Connection"), "Connection", "close")
       ELSE sized

Bytes(n) == [i \in 1..n |-> "byte"]

\* evhttp_make_header: first line, headers, what the output buffer holds.
evhttp_make_header(r) ==
  <<<<"first", r.minor>>>> \o evhttp_make_header_response(r) \o <<"end">> \o Bytes(r.length)

\* evhttp_send_done: whether the server closes.
ServerCloses(r) ==
  \/ r.minor = 0 /\ ~evhttp_is_connection_keepalive(r.input)
  \/ evhttp_is_connection_close(r.input)
  \/ evhttp_is_connection_close(evhttp_make_header_response(r))

Finish(r, w) == IF ServerCloses(r) THEN w \o <<"eof">> ELSE w

evhttp_send_page_fix(r) ==      \* a page of a 1.0 request is sent as 1.1
  [r EXCEPT !.minor = 1, !.output = <<<<"Connection", "close">>>>]
-----------------------------------------------------------------------------
Init ==
  /\ req \in {[minor |-> mi, style |-> st, state |-> "app", length |-> 0, sent |-> 0,
               chunked |-> FALSE, output |-> <<>>,
               input |-> IF co = None THEN <<>> ELSE <<<<"Connection", co>>>>] :
                 mi \in Minors, co \in Connections, st \in Styles}
  /\ wire = <<>>
  /\ client = [state |-> "first", headers |-> <<>>, ntoread |-> 0, chunked |-> FALSE,
               body |-> 0, more |-> FALSE]

\* evhttp_send_reply, evhttp_send_page, evhttp_send_error with n bytes.
Reply(n) ==
  LET r == [(IF req.style = "page" THEN evhttp_send_page_fix(req) ELSE req)
              EXCEPT !.length = n, !.sent = n, !.state = "done"]
  IN /\ req.state = "app" /\ req.style # "stream"
     /\ req' = r
     /\ wire' = wire \o Finish(r, evhttp_make_header(r))
     /\ UNCHANGED client

evhttp_send_reply_start ==
  LET r == IF req.minor = 1
             THEN [req EXCEPT !.chunked = TRUE, !.output =
                     evhttp_add_header(@, "Transfer-Encoding", "chunked"), !.state = "stream"]
             ELSE [req EXCEPT !.state = "stream"]
  IN /\ req.state = "app" /\ req.style = "stream"
     /\ req' = r
     /\ wire' = wire \o evhttp_make_header(r)
     /\ UNCHANGED client

\* Chunks of one and two bytes.
evhttp_send_reply_chunk(n) ==
  /\ req.state = "stream" /\ req.sent + n <= MaxBody
  /\ req' = [req EXCEPT !.sent = @ + n]
  /\ wire' = wire \o (IF req.chunked THEN <<<<"size", n>>>> \o Bytes(n) ELSE Bytes(n))
  /\ UNCHANGED client

evhttp_send_reply_end ==
  /\ req.state = "stream"
  /\ req' = [req EXCEPT !.state = "done", !.chunked = FALSE]
  /\ wire' = Finish(req, wire \o (IF req.chunked THEN <<<<"size", 0>>, "end">> ELSE <<>>))
  /\ UNCHANGED client
-----------------------------------------------------------------------------
(* The client reads a line or a byte of the body at a time.                *)

\* evhttp_connection_done of an outgoing connection.
Done(c) == [c EXCEPT !.state = "done", !.more = ~evhttp_is_connection_close(c.headers)]

\* Faulty: without a length a body is empty.
evhttp_get_body_Empty(c) ==
  LET length == evhttp_find_header(c.headers, "Content-Length") IN
  IF evhttp_find_header(c.headers, "Transfer-Encoding") = "chunked"
    THEN [c EXCEPT !.state = "size", !.chunked = TRUE]
  ELSE IF length \in {None, 0} THEN Done(c)
  ELSE [c EXCEPT !.state = "body", !.ntoread = length]

\* evhttp_get_body and evhttp_get_body_length: chunks, a length, or until close;
\* a connection to be kept needs a length.
evhttp_get_body(c) ==
  LET length == evhttp_find_header(c.headers, "Content-Length") IN
  IF evhttp_find_header(c.headers, "Transfer-Encoding") = "chunked"
    THEN [c EXCEPT !.state = "size", !.chunked = TRUE]
  ELSE IF length = None
    THEN [c EXCEPT !.state = IF evhttp_find_header(c.headers, "Connection") \in {None, "close"}
                               THEN "rest" ELSE "failed"]
  ELSE IF length = 0 THEN Done(c)
  ELSE [c EXCEPT !.state = "body", !.ntoread = length]

Byte(c) ==
  LET d == [c EXCEPT !.body = @ + 1, !.ntoread = IF c.state = "body" THEN @ - 1 ELSE @] IN
  IF c.state = "rest" \/ d.ntoread > 0 THEN d
  ELSE IF c.chunked THEN [d EXCEPT !.state = "size"] ELSE Done(d)

Reads(c, x) ==
  CASE x = "eof" -> [Done(c) EXCEPT !.more = FALSE]   \* evhttp_read, or a detected close
    [] c.state = "first" /\ x[1] = "first" -> [c EXCEPT !.state = "headers"]
    [] c.state = "headers" /\ x = "end" -> evhttp_get_body(c)
    [] c.state = "headers" /\ x # "end" -> [c EXCEPT !.headers = Append(@, x)]
    [] c.state \in {"body", "rest"} /\ x = "byte" -> Byte(c)
    [] c.state = "size" /\ x = <<"size", 0>> -> [c EXCEPT !.state = "trailer"]
    [] c.state = "size" /\ x # <<"size", 0>> -> [c EXCEPT !.state = "body", !.ntoread = x[2]]
    [] c.state = "trailer" /\ x = "end" -> Done(c)
    [] OTHER -> [c EXCEPT !.state = "confused"]

Read ==
  /\ wire # <<>> /\ client.state \notin {"confused", "failed"}
  /\ client' = Reads(client, Head(wire))
  /\ wire' = Tail(wire)
  /\ UNCHANGED req

Next ==
  \/ \E n \in 0..MaxBody : Reply(n)
  \/ evhttp_send_reply_start
  \/ \E n \in 1..2 : evhttp_send_reply_chunk(n)
  \/ evhttp_send_reply_end
  \/ Read

Spec == Init /\ [][Next]_vars

Streams10 == req.style = "stream" /\ req.minor = 0 /\ evhttp_is_connection_keepalive(req.input)

(* When a reply has been sent and read, the client has its whole body and  *)
(* no more, waits for nothing, and takes the connection for usable exactly *)
(* when the server keeps it, except that of a streamed reply to a kept 1.0 *)
(* connection the headers promise an empty body.                           *)
FramingAgrees ==
  /\ req.state = "done" /\ wire = <<>> /\ ~Streams10 =>
       /\ client.state = "done" /\ client.body = req.sent
       /\ client.more = ~ServerCloses(req)
  /\ client.state = "confused" => Streams10

(* http.c:483: "we need to add the content length if the user did not give *)
(* it, this is required for persistent connections to work": the length    *)
(* that is added is that of the body, for a streamed reply too.            *)
PersistentConnectionsWork ==
  req.state = "done" /\ wire = <<>> => client.state = "done" /\ client.body = req.sent
=============================================================================

--------------------------- MODULE HttpConnection ---------------------------
(***************************************************************************)
(* One connection of libevent's HTTP layer, with the web stream Movid runs *)
(* on it.                                                                  *)
(*                                                                         *)
(* An incoming connection reads a request, hands it to the callback of the *)
(* server, writes the reply and reads the next request.  An outgoing one   *)
(* connects, writes the requests of its queue one by one and reads their   *)
(* responses.  The event of the connection, ev, waits for one thing at a   *)
(* time, always with a timeout.                                            *)
(*                                                                         *)
(* What arrives is a sequence of tokens, one per line or piece of body;    *)
(* the peer sends any of them, in any order, and any number per read.  The *)
(* handlers are functions of the record c of the connection, as they call  *)
(* one another.  c.sound turns FALSE where the code would assert or errx.  *)
(***************************************************************************)
EXTENDS Naturals, Sequences

CONSTANTS
  Directions,  \* subset of {"INCOMING", "OUTGOING"}
  Tokens,      \* what a peer sends
  MaxInput,    \* bound on the tokens that wait in input_buffer
  MaxOutput,   \* bound on the pieces that wait in output_buffer
  retry_max,
  None

Reqs == {1, 2}

VARIABLES
  c,       \* the connection and its requests
  stream,  \* chunk_req_state of movid.cpp: None, "running" or "closed"
  peer     \* "talks", or "silent" once it sends nothing any more

vars == <<c, stream, peer>>

NewRequest == [type |-> None, uri |-> FALSE, body |-> "none", close |-> FALSE, called |-> 0]

NewConnection(dir) ==
  [alive |-> TRUE, dir |-> dir, state |-> "DISCONNECTED", fd |-> FALSE, ev |-> None,
   close_ev |-> FALSE, cb |-> None, closecb |-> FALSE, requests |-> <<>>,
   input |-> <<>>, output |-> 0, retry_cnt |-> 0, sound |-> TRUE,
   owed |-> FALSE,      \* the program holds a request it has to answer
   closed |-> FALSE,    \* closecb has been called
   req |-> [r \in Reqs |-> NewRequest]]

Incoming(d) == d.dir = "INCOMING"
Connected(d) == d.state \notin {"DISCONNECTED", "CONNECTING"}
First(d) == Head(d.requests)
Sound(d, b) == [d EXCEPT !.sound = @ /\ b]
-----------------------------------------------------------------------------
(* Reading, writing, closing.                                              *)

WaitRead(d) == [d EXCEPT !.ev = "read"]

evhttp_write_buffer(d, cb) == [d EXCEPT !.cb = cb, !.ev = "write"]

evhttp_start_read(d) == [WaitRead(d) EXCEPT !.state = "READING_FIRSTLINE"]

\* A fresh request of the server, and the connection reads it.
evhttp_associate_new_request(d) ==
  evhttp_start_read([d EXCEPT !.requests = <<1>>, !.req[1] = NewRequest])

CallCloseCb(d) ==
  [d EXCEPT !.closed = @ \/ (d.fd /\ Connected(d) /\ d.closecb)]

\* Faulty: a connection that is freed does not tell.
evhttp_connection_free_Silent(d) ==
  [d EXCEPT !.alive = FALSE, !.requests = <<>>, !.ev = None, !.close_ev = FALSE,
            !.fd = FALSE, !.input = <<>>, !.output = 0, !.owed = FALSE]

evhttp_connection_free(d) ==
  [CallCloseCb(d) EXCEPT !.alive = FALSE, !.requests = <<>>, !.ev = None,
     !.close_ev = FALSE, !.fd = FALSE, !.input = <<>>, !.output = 0, !.owed = FALSE]

\* close_ev is left alone.
evhttp_connection_reset(d) ==
  [CallCloseCb(d) EXCEPT !.ev = None, !.fd = FALSE, !.state = "DISCONNECTED",
     !.input = <<>>, !.output = 0]

\* socket and connect may fail at once.
evhttp_connection_connect(d, works) ==
  IF d.state = "CONNECTING" THEN d
  ELSE IF works
  THEN [evhttp_connection_reset(d) EXCEPT
          !.fd = TRUE, !.ev = "connect", !.state = "CONNECTING"]
  ELSE evhttp_connection_reset(d)

\* Faulty: close detection goes on while the request is written.
evhttp_request_dispatch_Detects(d) ==
  IF d.requests = <<>> THEN d
  ELSE evhttp_write_buffer(
         [Sound(d, d.state = "IDLE") EXCEPT !.state = "WRITING", !.output = 1],
         "connectioncb")

evhttp_request_dispatch(d) ==
  IF d.requests = <<>> THEN d
  ELSE evhttp_write_buffer(
         [Sound(d, d.state = "IDLE") EXCEPT !.close_ev = FALSE, !.state = "WRITING",
                                            !.output = 1], "connectioncb")

\* Faulty: the next request is read with the old one still in the queue.
evhttp_send_done_Keeps(d) ==
  IF d.req[First(d)].close THEN evhttp_connection_free(d)
  ELSE evhttp_start_read([d EXCEPT !.close_ev = FALSE])

\* The reply is written: the connection is freed, or takes another request.
evhttp_send_done(d) ==
  LET e == [d EXCEPT !.requests = Tail(@), !.close_ev = FALSE] IN
  IF d.req[First(d)].close THEN evhttp_connection_free(e)
  ELSE evhttp_associate_new_request(e)
-----------------------------------------------------------------------------
(* The program's side of a request.                                        *)

Called(d, r) == [d EXCEPT !.req[r].called = @ + 1]

\* evhttp_send_reply, evhttp_send_error and evhttp_send_page.
evhttp_send(d, close) ==
  evhttp_write_buffer([d EXCEPT !.owed = FALSE, !.output = 1,
                                !.req[First(d)].close = @ \/ close], "send_done")

\* evhttp_handle_request: a request without uri is an error; the program
\* answers at once, keeps the request to answer later, or starts a stream.
evhttp_handle_request(d, answer) ==
  IF ~d.req[First(d)].uri THEN evhttp_send(d, TRUE)
  ELSE CASE answer = "now" -> evhttp_send(d, FALSE)
         [] answer = "later" -> [d EXCEPT !.owed = TRUE]
         [] answer = "stream" ->
              [evhttp_write_buffer([d EXCEPT !.output = 1], None) EXCEPT
                 !.closecb = TRUE]

\* The whole message is there.
evhttp_connection_done(d, answer, works) ==
  IF Incoming(d)
  THEN evhttp_handle_request(Called([d EXCEPT !.state = "WRITING"], First(d)), answer)
  ELSE LET r == First(d)
           e == [d EXCEPT !.requests = Tail(@), !.state = "IDLE"]
           f == IF d.req[r].close THEN evhttp_connection_reset(e) ELSE e
           g == IF f.requests # <<>>
                THEN IF Connected(f) THEN evhttp_request_dispatch(f)
                     ELSE evhttp_connection_connect(f, works)
                ELSE [f EXCEPT !.close_ev = @ \/ ~d.req[r].close]
       IN Called(g, r)

\* evhttp_connection_fail and evhttp_connection_incoming_fail.
evhttp_connection_fail(d, error, answer, works) ==
  IF Incoming(d)
  THEN IF error = "INVALID_HEADER"
       THEN evhttp_handle_request(Called([d EXCEPT !.req[First(d)].uri = FALSE], First(d)),
                                  answer)
       ELSE evhttp_connection_free(d)
  ELSE LET r == First(d)
           e == evhttp_connection_reset([Sound(d, d.requests # <<>>) EXCEPT
                                           !.requests = Tail(@)])
       IN Called(IF e.requests # <<>> THEN evhttp_connection_connect(e, works) ELSE e, r)
-----------------------------------------------------------------------------
(* The parser, a function of the tokens in input_buffer.                   *)

\* What a line of the headers says about the request.  "close" stands for all
\* that makes need_close true, "badlength" for a Content-Length that is no number
\* and for a kept connection without one.
Header(q, token) ==
  CASE token = "close" -> [q EXCEPT !.close = TRUE]
    [] token = "length" -> [q EXCEPT !.body = IF @ = "chunked" THEN @ ELSE "length"]
    [] token = "zero" -> [q EXCEPT !.body = IF @ = "chunked" THEN @ ELSE "zero"]
    [] token = "badlength" -> [q EXCEPT !.body = IF @ = "chunked" THEN @ ELSE "bad"]
    [] token = "chunked" -> [q EXCEPT !.body = "chunked"]
    [] OTHER -> q

HeaderLines == {"header", "close", "length", "zero", "badlength", "chunked"}
Eat(d) == [d EXCEPT !.input = Tail(@)]

\* A good first line is "GET" for a message without body (a request other than
\* POST, a response such as 204) and "POST" for one that has a body.
\* evhttp_read_firstline, evhttp_read_header, evhttp_get_body, evhttp_read_body
\* and evhttp_read_trailer, down to the next wait.
RECURSIVE Parse(_, _, _)
Parse(d, answer, works) ==
  LET r == First(d)
      t == Head(d.input)
      body == d.req[r].body
      Fail == evhttp_connection_fail(d, "INVALID_HEADER", answer, works)
      Done(e) == evhttp_connection_done(e, answer, works)
      Go(e) == Parse(e, answer, works)
  IN
  CASE d.input = <<>> -> WaitRead(d)
    [] d.input # <<>> /\ d.state = "READING_FIRSTLINE" ->
         IF t \in {"GET", "POST"}
         THEN Go([Eat(d) EXCEPT !.state = "READING_HEADERS", !.req[r].type = t,
                                !.req[r].uri = TRUE])
         ELSE Fail
    [] d.input # <<>> /\ d.state = "READING_HEADERS" ->
         IF t \in HeaderLines THEN Go([Eat(d) EXCEPT !.req[r] = Header(@, t)])
         ELSE IF t # "end" THEN Fail
         ELSE IF d.req[r].type = "GET" THEN Done(Eat(d))
         ELSE IF body = "zero" THEN Done([Eat(d) EXCEPT !.state = "READING_BODY"])
         ELSE IF body = "bad"
         THEN evhttp_connection_fail([Eat(d) EXCEPT !.state = "READING_BODY"],
                                     "INVALID_HEADER", answer, works)
         ELSE Go([Eat(d) EXCEPT !.state = "READING_BODY"])
    [] d.input # <<>> /\ d.state = "READING_BODY" ->
         CASE body = "chunked" /\ t = "data" -> Go(Eat(d))
           [] body = "chunked" /\ t = "last" ->
                Go([Eat(d) EXCEPT !.state = "READING_TRAILER"])
           [] body = "chunked" /\ t \notin {"data", "last"} -> Fail
           [] body = "length" -> Done(Eat(d))
           [] OTHER -> WaitRead([d EXCEPT !.input = <<>>])   \* until the end
    [] d.input # <<>> /\ d.state = "READING_TRAILER" ->
         IF t \in HeaderLines THEN Go(Eat(d))
         ELSE IF t = "end" THEN Done(Eat(d)) ELSE Fail
    [] OTHER -> Sound(d, FALSE)
-----------------------------------------------------------------------------
(* The callbacks of the events.  A step that closes the connection reaches *)
(* the close callback of the stream.                                       *)

Becomes(d) ==
  /\ c' = d
  /\ stream' = IF d.closed /\ ~c.closed /\ stream = "running" THEN "closed"
               ELSE IF d.closecb /\ ~c.closecb THEN "running" ELSE stream

Init ==
  /\ \E dir \in Directions :
       c = IF dir = "INCOMING"
           THEN evhttp_associate_new_request([NewConnection(dir) EXCEPT !.fd = TRUE])
           ELSE NewConnection(dir)
  /\ stream = None
  /\ peer = "talks"

Fires(ev) == c.alive /\ c.ev = ev
\* A one-shot event is not pending any more when its callback runs.
Fired == [c EXCEPT !.ev = None]
Answers == IF stream = None THEN {"now", "later", "stream"} ELSE {"now", "later"}

\* evhttp_read: an error, a spurious wakeup, part of a line, the end of the
\* input, or one to two tokens.
evhttp_read ==
  /\ Fires("read") /\ UNCHANGED peer
  /\ \E answer \in Answers, works \in BOOLEAN :
       \/ Becomes(evhttp_connection_fail(Fired, "EOF", answer, works))
       \/ peer = "talks" /\ Becomes(WaitRead(Fired))
       \/ Becomes(evhttp_connection_done(Fired, answer, works))
       \/ /\ peer = "talks"
          /\ \E t \in Tokens, u \in Tokens \cup {None} :
               LET in == c.input \o <<t>> \o (IF u = None THEN <<>> ELSE <<u>>) IN
               /\ Len(in) <= MaxInput
               /\ Becomes(Parse([Fired EXCEPT !.input = in], answer, works))

\* evhttp_write: an error, part of the buffer, or all of it and the callback.
evhttp_write ==
  /\ Fires("write") /\ UNCHANGED peer
  /\ \E answer \in Answers, works \in BOOLEAN :
       \/ Becomes(evhttp_connection_fail(Fired, "EOF", answer, works))
       \/ c.output > 1 /\ Becomes([c EXCEPT !.output = @ - 1])
       \/ /\ c.output > 0
          /\ LET d == [Fired EXCEPT !.output = 0] IN
             Becomes(CASE c.cb = "send_done" -> evhttp_send_done(d)
                       [] c.cb = "connectioncb" ->
                            evhttp_start_read(Sound(d, d.state = "WRITING"))
                       [] OTHER -> d)

\* Faulty: after a timeout the event is added again.
evhttp_timeout_Waits ==
  /\ Fires("read") \/ Fires("write")
  /\ UNCHANGED vars

\* EV_TIMEOUT of a read or a write.
evhttp_timeout ==
  /\ Fires("read") \/ Fires("write")
  /\ \E works \in BOOLEAN :
       Becomes(evhttp_connection_fail(Fired, "TIMEOUT", None, works))
  /\ UNCHANGED peer

\* evhttp_connectioncb: connected, or a retry, or every request is given up.
evhttp_connectioncb ==
  /\ Fires("connect") /\ UNCHANGED peer
  /\ \/ Becomes(evhttp_request_dispatch([Fired EXCEPT !.retry_cnt = 0, !.state = "IDLE"]))
     \/ /\ c.retry_cnt < retry_max
        /\ Becomes([Fired EXCEPT !.ev = "retry", !.retry_cnt = @ + 1])
     \/ /\ c.retry_cnt >= retry_max
        /\ Becomes([evhttp_connection_reset(Fired) EXCEPT
             !.requests = <<>>,
             !.req = [r \in Reqs |->
                IF \E i \in 1..Len(c.requests) : c.requests[i] = r
                THEN [c.req[r] EXCEPT !.called = @ + 1] ELSE c.req[r]]])

evhttp_connection_retry ==
  /\ Fires("retry") /\ UNCHANGED peer
  /\ \E works \in BOOLEAN :
       Becomes(evhttp_connection_connect([Fired EXCEPT !.state = "DISCONNECTED"], works))

evhttp_detect_close_cb ==
  /\ c.alive /\ c.close_ev
  /\ Becomes(evhttp_connection_reset([c EXCEPT !.close_ev = FALSE]))
  /\ UNCHANGED peer

\* evhttp_make_request of a request that is not on the connection.
evhttp_make_request(r) ==
  /\ c.alive /\ ~Incoming(c)
  /\ \A i \in 1..Len(c.requests) : c.requests[i] # r
  /\ \E works \in BOOLEAN :
       LET d == [c EXCEPT !.requests = Append(@, r),
                          !.req[r] = [NewRequest EXCEPT !.type = "POST", !.uri = TRUE]] IN
       Becomes(IF ~Connected(d) THEN evhttp_connection_connect(d, works)
               ELSE IF First(d) = r THEN evhttp_request_dispatch(d) ELSE d)
  /\ UNCHANGED peer

\* The program answers a request it kept.
Reply ==
  /\ c.alive /\ c.owed
  /\ Becomes(evhttp_send(c, FALSE))
  /\ UNCHANGED peer

\* web_pipeline_stream_trickle: a chunk when there is an image; the state is
\* freed when the connection is closed.
web_pipeline_stream_trickle ==
  /\ \/ stream = "closed" /\ stream' = None /\ UNCHANGED c
     \/ /\ stream = "running" /\ c.output < MaxOutput
        /\ c' = evhttp_write_buffer([c EXCEPT !.output = @ + 1], None)
        /\ UNCHANGED stream
  /\ UNCHANGED peer

\* evhttp_get_request: a new connection, once the old one is freed.
evhttp_get_request ==
  /\ ~c.alive /\ stream # "running"
  /\ c' = evhttp_associate_new_request([NewConnection(c.dir) EXCEPT !.fd = TRUE])
  /\ peer' = "talks"
  /\ UNCHANGED stream

\* evhttp_free, or the owner of an outgoing connection.
evhttp_free ==
  /\ c.alive
  /\ Becomes(evhttp_connection_free(c))
  /\ UNCHANGED peer

GoSilent ==
  /\ peer = "talks" /\ peer' = "silent"
  /\ UNCHANGED <<c, stream>>

Next ==
  \/ evhttp_read \/ evhttp_write \/ evhttp_timeout \/ evhttp_connectioncb
  \/ evhttp_connection_retry \/ evhttp_detect_close_cb \/ Reply
  \/ web_pipeline_stream_trickle \/ evhttp_get_request \/ evhttp_free \/ GoSilent
  \/ \E r \in Reqs : evhttp_make_request(r)

\* An event whose timeout passes is called; the program answers.
Fairness == WF_vars(evhttp_timeout) /\ WF_vars(Reply)

Spec == Init /\ [][Next]_vars /\ Fairness
-----------------------------------------------------------------------------
(* Properties.                                                             *)

\* No handler runs in a state it was not written for (the errx of evhttp_read,
\* the asserts of evhttp_request_dispatch, evhttp_connection_fail and
\* evhttp_write_connectioncb), the event fits the state, and close detection
\* only watches an idle connection that is still open.
HandlersMeetTheirState ==
  /\ c.sound
  /\ c.ev = "read" => c.fd /\ c.requests # <<>> /\
       c.state \in {"READING_FIRSTLINE", "READING_HEADERS", "READING_BODY",
                    "READING_TRAILER"}
  /\ c.ev = "write" => c.fd /\ c.requests # <<>>
  /\ c.ev \in {"connect", "retry"} <=> c.state = "CONNECTING" /\ c.alive
  /\ c.close_ev => c.fd /\ c.state = "IDLE" /\ c.ev = None

\* A request is called back at most once, whether it succeeds, fails, is given
\* up with the connection or is cut short by the peer; and an incoming
\* connection that waits for nothing is one whose answer the program owes.
CalledBackOnce ==
  /\ \A r \in Reqs : c.req[r].called <= 1
  /\ c.alive /\ Incoming(c) /\ c.ev = None => c.owed \/ stream = "running"

\* web_pipeline_stream_trickle uses the request it was given every 100 ms: as
\* long as its state is not marked closed, the connection lives and that request
\* is the one it serves.
StreamUsesLiveRequest ==
  stream = "running" => c.alive /\ c.requests = <<1>> /\ c.req[1].called = 1

Silent == c.alive /\ Incoming(c) /\ peer = "silent" /\ stream # "running"
Dropped == ~c.alive \/ stream = "running"

\* A peer that has gone silent does not keep an incoming connection, except one
\* that carries a stream.
SilentPeersAreDropped == Silent ~> Dropped
=============================================================================

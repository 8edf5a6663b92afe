---------------------------- MODULE DnsRequests -----------------------------
(***************************************************************************)
(* The resolver of libevent (evdns.c): requests in flight and requests     *)
(* that wait, a ring of nameservers that fail, are probed and come back,   *)
(* retransmission, reissue to another server, the search through domains,  *)
(* suspension and shutdown.                                                *)
(*                                                                         *)
(* The handlers are functions of the record d of the resolver's globals,   *)
(* as they call one another; net says what sendto does during the step.    *)
(* A transaction id is the request's own.  d.crash tells where the code    *)
(* would use a null or freed pointer, or fail an assertion; nothing runs   *)
(* after that.  d.limbo: whether Limbo held when the last step began.      *)
(*                                                                         *)
(* Two machines: the resolver, and the port of a DNS server.               *)
(***************************************************************************)
EXTENDS Integers, Sequences, FiniteSets, SequencesExt

CONSTANTS
  Ns,                             \* the nameservers that may be configured
  Users,                          \* the resolves of the application
  Ids,                            \* 1..K: requests that exist at one time
  num_domains,                    \* length of the search list
  global_max_requests_inflight,
  global_max_reissues,
  global_max_retransmits,
  global_max_nameserver_timeout,
  Suspends,                       \* the application suspends the resolver
  None, Freed

VARIABLE d

client_vars == <<d>>

Nets == {"ok", "again", "error"}

nameserver_new ==
  [state |-> TRUE, timer |-> FALSE, timedout |-> 0, choked |-> FALSE, write_waiting |-> FALSE]

\* who: the user, the server that is probed, or Freed for a probe whose
\* server was freed; left: the names the search still has to try.
request(who, left) ==
  [who |-> who, left |-> left, ns |-> None, tx_count |-> 0, reissue_count |-> 0,
   transmit_me |-> FALSE, timer |-> FALSE, sent |-> {}]

ClientInit ==
        d = [ring |-> <<>>, good |-> 0, ns |-> [s \in Ns |-> nameserver_new],
             req |-> [r \in Ids |-> None], head |-> <<>>, waiting |-> <<>>,
             inflight |-> 0, nwaiting |-> 0, called |-> [u \in Users |-> None],
             limbo |-> FALSE, crash |-> None]

Crash(x, why) == IF x.crash = None THEN [x EXCEPT !.crash = why] ELSE x
Free(x) == {r \in Ids : x.req[r] = None}
Fresh(x) == CHOOSE r \in Free(x) : \A q \in Free(x) : r <= q
Rotate(ring, k) == SubSeq(ring, k + 1, Len(ring)) \o SubSeq(ring, 1, k)
-----------------------------------------------------------------------------
(* Nameservers.                                                            *)

\* Returns the resolver and the server; the ring moves on behind it.
nameserver_pick(x) ==
  LET up == {k \in DOMAIN x.ring : x.ns[x.ring[k]].state}
      k == CHOOSE i \in up : \A j \in up : i <= j
      turned == Rotate(x.ring, 1) IN
  IF x.ring = <<>> THEN <<x, None>>
  ELSE IF x.good = 0 THEN <<[x EXCEPT !.ring = turned], Head(turned)>>
  ELSE IF up = {} THEN <<Crash(x, "assert"), None>>
  ELSE <<[x EXCEPT !.ring = Rotate(@, k)], x.ring[k]>>

AssignNs(x, r) == LET p == nameserver_pick(x) IN [p[1] EXCEPT !.req[r].ns = p[2]]

\* Requests that were not sent yet move to another server, if one is up.
nameserver_failed(x, s) ==
  LET down == [x EXCEPT !.good = @ - 1, !.ns[s].state = FALSE, !.ns[s].timer = TRUE]
      move(y, r) == IF y.req[r].tx_count = 0 /\ y.req[r].ns = s THEN AssignNs(y, r) ELSE y IN
  IF ~x.ns[s].state THEN x
  ELSE IF down.good < 0 THEN Crash(down, "assert")
  ELSE IF down.good = 0 THEN down
  ELSE FoldLeft(move, down, x.head)

\* Faulty: the server is not counted again.
nameserver_up_Uncounted(x, s) ==
  [x EXCEPT !.ns[s].state = TRUE, !.ns[s].timer = FALSE, !.ns[s].timedout = 0]

nameserver_up(x, s) ==
  IF x.ns[s].state THEN x
  ELSE [x EXCEPT !.ns[s].state = TRUE, !.ns[s].timer = FALSE, !.ns[s].timedout = 0,
                 !.good = @ + 1]

\* Faulty: the next probe is scheduled only by nameserver_failed.
nameserver_probe_failed_Stops(x, s) == [x EXCEPT !.ns[s].timer = FALSE]

\* A longer wait before each probe; the wait itself is not modelled.
nameserver_probe_failed(x, s) == [x EXCEPT !.ns[s].timer = ~x.ns[s].state]

nameserver_probe_callback(x, s, result) ==
  IF s = Freed THEN Crash(x, "freed")
  ELSE IF result \in {"answer", "notexist"} THEN nameserver_up(x, s)
  ELSE nameserver_probe_failed(x, s)

\* The callback of the user, or of the probe.
reply_callback(x, r, result) ==
  LET who == x.req[r].who IN
  IF who \in Users THEN [x EXCEPT !.called[who] = @ + 1]
  ELSE nameserver_probe_callback(x, who, result)
-----------------------------------------------------------------------------
(* Sending.                                                                *)

\* Faulty: a request the socket did not take waits for its timeout.
evdns_request_transmit_Forgets(x, r, net) ==
  LET s == x.req[r].ns
      y == [x EXCEPT !.req[r].transmit_me = TRUE]
      sent(z) == [z EXCEPT !.req[r].timer = TRUE, !.req[r].tx_count = @ + 1,
                           !.req[r].transmit_me = FALSE] IN
  IF s = None THEN Crash(y, "null")
  ELSE IF y.ns[s].choked THEN y
  ELSE IF net = "again" THEN [y EXCEPT !.ns[s].choked = TRUE]
  ELSE IF net = "error" THEN sent(nameserver_failed(y, s))
  ELSE sent([y EXCEPT !.req[r].sent = @ \cup {s}])

\* With evdns_request_transmit_to.  A send that failed counts as sent: the
\* timeout takes care of it.
evdns_request_transmit(x, r, net) ==
  LET s == x.req[r].ns
      y == [x EXCEPT !.req[r].transmit_me = TRUE]
      sent(z) == [z EXCEPT !.req[r].timer = TRUE, !.req[r].tx_count = @ + 1,
                           !.req[r].transmit_me = FALSE] IN
  IF s = None THEN Crash(y, "null")
  ELSE IF y.ns[s].choked THEN y
  ELSE IF net = "again"
  THEN [y EXCEPT !.ns[s].choked = TRUE, !.ns[s].write_waiting = TRUE]
  ELSE IF net = "error" THEN sent(nameserver_failed(y, s))
  ELSE sent([y EXCEPT !.req[r].sent = @ \cup {s}])

\* Everything in flight that still has to go out.
evdns_transmit(x, net) ==
  LET send(y, r) == IF y.req[r].transmit_me THEN evdns_request_transmit(y, r, net) ELSE y IN
  FoldLeft(send, x, x.head)

RECURSIVE evdns_requests_pump_waiting_queue(_, _)
evdns_requests_pump_waiting_queue(x, net) ==
  IF x.crash # None \/ x.inflight >= global_max_requests_inflight \/ x.nwaiting = 0 THEN x
  ELSE IF x.waiting = <<>> THEN Crash(x, "assert")
  ELSE LET r == Head(x.waiting)
           y == AssignNs([x EXCEPT !.waiting = Tail(@), !.nwaiting = @ - 1,
                                   !.inflight = @ + 1], r)
           z == evdns_request_transmit([y EXCEPT !.head = Append(@, r)], r, net) IN
       evdns_requests_pump_waiting_queue(
         IF z.crash = None THEN evdns_transmit(z, net) ELSE z, net)

\* Whatever list r is in, it counted as in flight.
request_finished(x, r, net) ==
  evdns_requests_pump_waiting_queue(
    [x EXCEPT !.head = SelectSeq(@, LAMBDA q : q # r),
              !.waiting = SelectSeq(@, LAMBDA q : q # r),
              !.req[r] = None, !.inflight = @ - 1], net)

\* request_new: a server is picked when the request may go out now.
request_new(x, who, left) ==
  LET r == Fresh(x)
      y == [x EXCEPT !.req[r] = request(who, left)] IN
  <<IF x.inflight < global_max_requests_inflight THEN AssignNs(y, r) ELSE y, r>>

request_submit(x, r, net) ==
  IF x.req[r].ns # None
  THEN evdns_request_transmit([x EXCEPT !.head = Append(@, r), !.inflight = @ + 1], r, net)
  ELSE [x EXCEPT !.waiting = Append(@, r), !.nwaiting = @ + 1]

Submit(x, who, left, net) ==
  LET p == request_new(x, who, left) IN request_submit(p[1], p[2], net)

\* A probe is forced into flight.
nameserver_send_probe(x, s, net) ==
  LET p == request_new(x, s, 0) IN
  request_submit([p[1] EXCEPT !.req[p[2]].ns = s], p[2], net)

\* The next name of the search is a request of its own: all domains behind the
\* plain name when that has ndots dots, and else the plain name behind them.
search_try_next(x, r, net) == Submit(x, x.req[r].who, x.req[r].left - 1, net)
-----------------------------------------------------------------------------
(* Replies and timeouts.                                                   *)

request_reissue(x, r) ==
  LET p == nameserver_pick(x)
      y == [p[1] EXCEPT !.req[r].ns = p[2]] IN
  IF p[2] = x.req[r].ns THEN <<y, FALSE>>
  ELSE <<[y EXCEPT !.req[r].reissue_count = @ + 1, !.req[r].tx_count = 0,
                   !.req[r].transmit_me = TRUE], TRUE>>

\* Faulty: the user hears of a name that failed while the search goes on.
Failed_Tells(x, r, result, net) ==
  LET y == reply_callback(x, r, result) IN
  request_finished(IF x.req[r].left > 0 THEN search_try_next(y, r, net) ELSE y, r, net)

Failed(x, r, result, net) ==
  IF x.req[r].left > 0 THEN request_finished(search_try_next(x, r, net), r, net)
  ELSE request_finished(reply_callback(x, r, result), r, net)

\* A reissued request is marked, and goes out with the next transmission.
reply_handle(x, r, result, net) ==
  LET s == x.req[r].ns
      blamed == nameserver_failed(x, s)
      again == request_reissue(blamed, r) IN
  CASE result = "answer" ->
         request_finished(nameserver_up(reply_callback(x, r, result), s), r, net)
    [] result = "refused" ->
         IF x.req[r].reissue_count >= global_max_reissues THEN Failed(x, r, result, net)
         ELSE IF again[2] THEN again[1] ELSE Failed(again[1], r, result, net)
    [] result = "serverfailed" -> Failed(x, r, result, net)
    [] OTHER -> Failed(nameserver_up(x, s), r, result, net)

Limbo == \/ d.ring = <<>>
         \/ d.waiting # <<>> /\ d.head = <<>>
         \/ \E r \in Ids : d.req[r] # None /\ d.req[r].who = Freed

Do(x) == /\ d.crash = None
         /\ d' = [x EXCEPT !.limbo = Limbo]

\* Ids are enough for n more requests, and one that searches takes another.
Room(n) ==
  Cardinality(Free(d)) >= n + Cardinality({r \in Ids \ Free(d) : d.req[r].left > 0})

Pending(r) == r \in Range(d.head)

\* nameserver_read and reply_parse: a reply names its request; one that names
\* none is dropped.  It may come from any server the request went to.
Reply(s, r, result, net) ==
  /\ s \in Range(d.ring)
  /\ Pending(r) /\ s \in d.req[r].sent
  /\ Do(reply_handle([d EXCEPT !.ns[s].timedout = 0], r, result, net))

\* recvfrom fails.
ReadFails(s) == s \in Range(d.ring) /\ d.ns[s].state /\ Do(nameserver_failed(d, s))

\* evdns_request_timeout_callback
RequestTimeout(r, net) ==
  LET s == d.req[r].ns
      many == d.ns[s].timedout + 1 > global_max_nameserver_timeout
      x == IF many THEN nameserver_failed([d EXCEPT !.ns[s].timedout = 0], s)
           ELSE [d EXCEPT !.ns[s].timedout = @ + 1]
      y == [x EXCEPT !.req[r].timer = FALSE] IN
  /\ Pending(r) /\ d.req[r].timer
  /\ Do(IF y.req[r].tx_count >= global_max_retransmits
        THEN request_finished(reply_callback(y, r, "timeout"), r, net)
        ELSE evdns_request_transmit(y, r, net))

\* nameserver_prod_callback: the time of the next probe has come.
Prod(s, net) ==
  /\ s \in Range(d.ring) /\ d.ns[s].timer
  /\ Room(1)
  /\ Do(nameserver_send_probe([d EXCEPT !.ns[s].timer = FALSE], s, net))

\* nameserver_ready_callback with EV_WRITE.
Writable(s, net) ==
  LET x == [d EXCEPT !.ns[s].choked = FALSE]
      tried == \E r \in Range(d.head) : d.req[r].transmit_me IN
  /\ s \in Range(d.ring) /\ d.ns[s].write_waiting
  /\ Do(IF tried THEN evdns_transmit(x, net) ELSE [x EXCEPT !.ns[s].write_waiting = FALSE])
-----------------------------------------------------------------------------
(* Calls of the application.                                               *)

\* evdns_resolve_*, with search_request_new.
Resolve(u, left, net) ==
  /\ d.called[u] = None
  /\ Room(IF left > 0 THEN 2 ELSE 1)
  /\ Do(Submit([d EXCEPT !.called[u] = 0], u, left, net))

\* The application is done with the result and may ask again.
Forget(u) == d.called[u] = 1 /\ Do([d EXCEPT !.called[u] = None])

\* _evdns_nameserver_add_impl: the new server goes behind the head.
AddServer(s) ==
  /\ s \notin Range(d.ring)
  /\ Do([d EXCEPT !.ring = IF @ = <<>> THEN <<s>> ELSE <<Head(@), s>> \o Tail(@),
                  !.good = @ + 1, !.ns[s] = nameserver_new])

\* evdns_clear_nameservers_and_suspend: what was in flight waits in front,
\* in reverse; the servers are freed, the probes that know them are kept.
Suspend ==
  LET orphan(q) == IF q.who \in Ns THEN Freed ELSE q.who
      parked(q) == [request(orphan(q), q.left) EXCEPT !.ns = None] IN
  /\ Suspends /\ d.ring # <<>>
  /\ Do([d EXCEPT !.ring = <<>>, !.good = 0, !.ns = [s \in Ns |-> nameserver_new],
                  !.req = [r \in Ids |-> IF Pending(r) THEN parked(@[r]) ELSE @[r]],
                  !.waiting = Reverse(d.head) \o @, !.nwaiting = @ + Len(d.head),
                  !.head = <<>>, !.inflight = 0])

evdns_resume(net) == Suspends /\ Do(evdns_requests_pump_waiting_queue(d, net))

\* The loops of evdns_shutdown: all in flight, then all that wait.
RECURSIVE EndAll(_, _, _)
EndAll(x, fail, net) ==
  LET end(r) == request_finished(
                  IF fail THEN reply_callback(x, r, "shutdown") ELSE x, r, net) IN
  IF x.crash # None THEN x
  ELSE IF x.head # <<>> THEN EndAll(end(Head(x.head)), fail, net)
  ELSE IF x.waiting # <<>> THEN EndAll(end(Head(x.waiting)), fail, net)
  ELSE x

\* A resolve that is discarded silently counts as called for its user.
evdns_shutdown(fail, net) ==
  LET x == EndAll(d, fail, net) IN
  Do(IF x.crash # None THEN x
     ELSE [x EXCEPT !.ring = <<>>, !.good = 0, !.ns = [s \in Ns |-> nameserver_new], !.inflight = 0, !.nwaiting = 0,
            !.called = [u \in Users |-> IF ~fail /\ @[u] = 0 THEN 1 ELSE @[u]]])

Results == {"answer", "notexist", "refused", "serverfailed"}

Callbacks(net) ==
  \/ \E s \in Ns, r \in Ids, result \in Results : Reply(s, r, result, net)
  \/ \E r \in Ids : RequestTimeout(r, net)
  \/ \E s \in Ns : Prod(s, net) \/ Writable(s, net)

Calls(net) ==
  \/ \E u \in Users, left \in {0, num_domains} : Resolve(u, left, net)
  \/ evdns_resume(net)
  \/ \E fail \in BOOLEAN : evdns_shutdown(fail, net)

ClientNext ==
        \/ \E net \in Nets : Callbacks(net) \/ Calls(net)
        \/ \E s \in Ns : ReadFails(s) \/ AddServer(s)
        \/ \E u \in Users : Forget(u)
        \/ Suspend

ClientSpec == ClientInit /\ [][ClientNext]_client_vars
-----------------------------------------------------------------------------
Running == d.crash = None

(* A request in flight is never forgotten: its timeout runs, or it is      *)
(* marked to be sent and some socket is watched that will send it.         *)
RequestsAreWatched ==
  Running => \A r \in Range(d.head) :
    \/ d.req[r].timer
    \/ d.req[r].transmit_me /\ \E s \in Range(d.ring) : d.ns[s].write_waiting

(* A server that is down is going to be probed: its timer runs, or a probe *)
(* of it is in flight or waits.                                            *)
DownServersAreProbed ==
  Running => \A s \in Range(d.ring) :
    d.ns[s].state \/ d.ns[s].timer \/ \E r \in Ids : d.req[r] # None /\ d.req[r].who = s

(* Every resolve is called back exactly once, and belongs to exactly one   *)
(* request until then, whatever is retransmitted, reissued, searched on or *)
(* suspended.                                                              *)
CalledBackOnce ==
  Running => \A u \in Users :
    Cardinality({r \in Ids : d.req[r] # None /\ d.req[r].who = u})
      = (IF d.called[u] = 0 THEN 1 ELSE 0)

(* The resolver uses a null or freed pointer or fails an assertion only in *)
(* a call or callback that finds it in limbo: without a nameserver, with   *)
(* requests that wait while none is in flight to make them go, or with a   *)
(* probe of a nameserver that evdns_clear_nameservers_and_suspend freed.   *)
(* A suspension that is over and has left neither is harmless.             *)
OnlyLimboCrashes == d.crash # None => d.limbo

(* evdns.h:288: "Resume normal operation and continue any suspended        *)
(* resolve requests."  Resuming with a nameserver never crashes.           *)
SuspensionIsSafe == d.crash # "freed"

(* evdns.c:2001: "here we need to send a probe to a given nameserver in    *)
(* the hope that it is up now": no probe is sent to another server.        *)
ProbesGoToTheirServer ==
  \A r \in Range(d.head) : d.req[r].who \in Ns => d.req[r].sent \subseteq {d.req[r].who}
-----------------------------------------------------------------------------
(***************************************************************************)
(* The server side of libevent's evdns.c: a port that hands the requests   *)
(* it reads to the application, and keeps replies the socket did not take. *)
(*                                                                         *)
(* Each request holds a reference to its port, the application holds one   *)
(* until it closes the port.  pending_replies is a ring: the request that  *)
(* is alone in it is its own successor, so freeing that request leaves the *)
(* head pointing at it (stale).                                            *)
(***************************************************************************)

CONSTANTS Requests  

VARIABLE port

port_vars == <<port>>

\* req: None, "app" (the application works on it) or "pending".
evdns_add_server_port ==
  [open |-> TRUE, freed |-> FALSE, closing |-> FALSE, refcnt |-> 1, events |-> {"read"},
   pending |-> <<>>, stale |-> FALSE, asserted |-> TRUE,
   req |-> [r \in Requests |-> None]]

PortInit == port = evdns_add_server_port

\* assert(!port->pending_replies)
server_port_free(p) ==
  [p EXCEPT !.freed = TRUE, !.events = {},
            !.asserted = p.pending = <<>> /\ ~p.stale]

server_request_free(p, r) ==
  LET q == [p EXCEPT !.req[r] = None, !.refcnt = @ - 1,
                     !.pending = SelectSeq(@, LAMBDA x : x # r),
                     !.stale = p.pending = <<r>>] IN
  IF q.refcnt = 0 THEN server_port_free(q) ELSE q

\* The first n replies go out or are dropped, the socket takes no more.
RECURSIVE Sends(_, _)
Sends(p, n) ==
  IF n = 0 \/ p.pending = <<>> \/ p.freed THEN p
  ELSE Sends(server_request_free(p, Head(p.pending)), n - 1)

\* The loop would end with an empty ring; a stale head is followed instead,
\* and what happens then is undefined: no action is enabled.
server_port_flush(p, n) ==
  LET q == Sends(p, n) IN
  IF q.freed \/ q.stale \/ q.pending # <<>> THEN q ELSE [q EXCEPT !.events = {"read"}]

Defined == ~port.stale /\ port.asserted
-----------------------------------------------------------------------------
\* server_port_read and request_parse: a request for the application.
Receive(r) ==
  /\ Defined /\ "read" \in port.events
  /\ port.req[r] = None
  /\ port' = [port EXCEPT !.req[r] = "app", !.refcnt = @ + 1]

\* Faulty: a port that is being closed is left alone.
Pend_Closing(p, r) ==
  [p EXCEPT !.req[r] = "pending", !.pending = Append(@, r),
            !.events = IF p.pending = <<>> /\ ~p.closing THEN {"read", "write"} ELSE @]

Pend(p, r) ==
  [p EXCEPT !.req[r] = "pending", !.pending = Append(@, r),
            !.events = IF p.pending # <<>> THEN @
                       ELSE IF p.closing THEN {"write"} ELSE {"read", "write"}]

\* evdns_server_request_respond; a reply that cannot be sent stays with the
\* application, which calls again or drops it.
Respond(r, net, n) ==
  LET p == server_request_free(port, r) IN
  /\ Defined /\ port.req[r] = "app"
  /\ port' = CASE net = "again" -> Pend(port, r)
               [] net = "error" -> port
               [] OTHER -> IF p.freed \/ p.pending = <<>> THEN p
                           ELSE server_port_flush(p, n)

evdns_server_request_drop(r) ==
  /\ Defined /\ port.req[r] = "app"
  /\ port' = server_request_free(port, r)

\* server_port_ready_callback with EV_WRITE.
PortWritable(n) ==
      /\ Defined /\ "write" \in port.events
      /\ port' = server_port_flush(port, n)

evdns_close_server_port ==
  LET p == [port EXCEPT !.refcnt = @ - 1, !.open = FALSE, !.closing = TRUE] IN
  /\ Defined /\ port.open
  /\ port' = IF p.refcnt = 0 THEN server_port_free(p) ELSE p

Again == port.freed /\ port' = evdns_add_server_port

PortNext ==
      \/ \E r \in Requests : Receive(r) \/ evdns_server_request_drop(r)
      \/ \E n \in 0..Cardinality(Requests) :
           \/ PortWritable(n)
           \/ \E r \in Requests, net \in {"ok", "again", "error"} : Respond(r, net, n)
      \/ evdns_close_server_port
      \/ Again

PortSpec == PortInit /\ [][PortNext]_port_vars
-----------------------------------------------------------------------------
(* The port lives exactly as long as somebody holds it: its reference      *)
(* count is the number of its requests, and one for the application that   *)
(* has not closed it; a reply that waits keeps the port writing.  The      *)
(* model follows a port up to the call that leaves its list of pending     *)
(* replies pointing at a freed request or that breaks the assertion of     *)
(* server_port_free, which NothingPendingWhenFreed is about: what runs     *)
(* after that is undefined.                                                *)
PortServesItsRequests ==
  LET held == {r \in Requests : port.req[r] # None} IN
  /\ port.refcnt = Cardinality(held) + (IF port.open THEN 1 ELSE 0)
  /\ port.freed <=> port.refcnt = 0
  /\ ~port.freed /\ port.pending # <<>> => "write" \in port.events

(* server_port_free asserts that no reply is pending (evdns.c:1848,        *)
(* "assert(!port->pending_replies);").                                     *)
NothingPendingWhenFreed == port.asserted
=============================================================================

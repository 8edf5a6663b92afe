---------------------------- MODULE BufferEvent ----------------------------
(***************************************************************************)
(* libevent's bufferevent (evbuffer.c): an input and an output buffer tied *)
(* to the two events of one descriptor.  A high watermark holds reading    *)
(* back: the read event is deleted and a callback on the input buffer adds *)
(* it again once the application has drained enough.                       *)
(*                                                                         *)
(* Only the lengths of the buffers matter here.  The application's         *)
(* callbacks are called last, so what they do is what the application may  *)
(* do at any time.                                                         *)
(***************************************************************************)
EXTENDS Naturals, FiniteSets

CONSTANTS
  MaxLength,  \* bound on the length of a buffer, and on the watermarks
  None

EV_READ == "read"
EV_WRITE == "write"
Sides == {EV_READ, EV_WRITE}

VARIABLE bufev

vars == <<bufev>>

\* ev: what an event waits for: None, "plain" (no timeout) or "timed".
bufferevent_new ==
  [alive |-> TRUE, enabled |-> {EV_WRITE}, length |-> [x \in Sides |-> 0],
   ev |-> [x \in Sides |-> None], timeout |-> [x \in Sides |-> FALSE],
   low |-> 0, high |-> 0, cb |-> FALSE,
   down |-> {}]   \* sides whose error callback ran, or whose fd was replaced

Init == bufev = bufferevent_new

\* event_add without a timeout leaves a timeout that is already set.
bufferevent_add(b, x) ==
  [b EXCEPT !.ev[x] = IF b.timeout[x] THEN "timed" ELSE IF @ = None THEN "plain" ELSE @,
            !.down = @ \ {x}]

event_del(b, x) == [b EXCEPT !.ev[x] = None]

\* Faulty: the callback goes away at the first change of the input.
bufferevent_read_pressure_cb_Once(b) ==
  IF b.high = 0 \/ b.length[EV_READ] < b.high
  THEN IF EV_READ \in b.enabled THEN bufferevent_add([b EXCEPT !.cb = FALSE], EV_READ)
       ELSE [b EXCEPT !.cb = FALSE]
  ELSE [b EXCEPT !.cb = FALSE]

bufferevent_read_pressure_cb(b) ==
  IF b.high = 0 \/ b.length[EV_READ] < b.high
  THEN LET c == [b EXCEPT !.cb = FALSE] IN
       IF EV_READ \in b.enabled THEN bufferevent_add(c, EV_READ) ELSE c
  ELSE b

HoldBack(b) == [event_del(b, EV_READ) EXCEPT !.cb = TRUE]

\* The input buffer changed its length.
Changed(b) == IF b.cb THEN bufferevent_read_pressure_cb(b) ELSE b

Failed(b, x) == [b EXCEPT !.down = @ \cup {x}]

\* The event is not persistent: it is no longer added when its callback runs.
Fired(x) == event_del(bufev, x)

\* Faulty: reading goes on to the end of what is there.
ReadLimit_None(b) == MaxLength

ReadLimit(b) == IF b.high = 0 THEN MaxLength ELSE b.high
-----------------------------------------------------------------------------
\* bufferevent_readcb with n bytes to take; n = 0 is the end of the stream.
bufferevent_readcb(n) ==
  LET b == Fired(EV_READ)
      len == b.length[EV_READ] + n
      c == bufferevent_add(Changed([b EXCEPT !.length[EV_READ] = len]), EV_READ) IN
  /\ bufev.ev[EV_READ] # None
  /\ len <= MaxLength
  /\ bufev' = IF b.high # 0 /\ b.length[EV_READ] >= b.high THEN HoldBack(b)
              ELSE IF n = 0 THEN Failed(b, EV_READ)
              ELSE IF b.low # 0 /\ len < b.low THEN c
              ELSE IF b.high # 0 /\ len >= b.high THEN HoldBack(c)
              ELSE c

\* bufferevent_writecb when n bytes could be written; 0 is the end.
bufferevent_writecb(n) ==
  LET b == Fired(EV_WRITE)
      len == b.length[EV_WRITE]
      c == [b EXCEPT !.length[EV_WRITE] = len - n] IN
  /\ bufev.ev[EV_WRITE] # None
  /\ n <= len
  /\ bufev' = IF len > 0 /\ n = 0 THEN Failed(b, EV_WRITE)
              ELSE IF len > n THEN bufferevent_add(c, EV_WRITE) ELSE c

\* EAGAIN, EINTR and EINPROGRESS: the event is added again.
Again(x) ==
  /\ bufev.ev[x] # None
  /\ x = EV_READ => bufev.high = 0 \/ bufev.length[x] < bufev.high
  /\ x = EV_WRITE => bufev.length[x] > 0
  /\ bufev' = bufferevent_add(Fired(x), x)

\* An error of the descriptor, or the timeout of the event.
Error(x) ==
  /\ bufev.ev[x] # None
  /\ x = EV_READ => bufev.high = 0 \/ bufev.length[x] < bufev.high
  /\ x = EV_WRITE => bufev.length[x] > 0
  /\ bufev' = Failed(Fired(x), x)

Timeout(x) ==
  /\ bufev.ev[x] = "timed"
  /\ bufev' = Failed(Fired(x), x)
-----------------------------------------------------------------------------
bufferevent_write(n) ==
  LET b == [bufev EXCEPT !.length[EV_WRITE] = @ + n] IN
  /\ bufev.alive
  /\ b.length[EV_WRITE] <= MaxLength
  /\ bufev' = IF n > 0 /\ EV_WRITE \in b.enabled THEN bufferevent_add(b, EV_WRITE) ELSE b

\* bufferevent_read, or evbuffer_drain of the input.
bufferevent_read(n) ==
  /\ bufev.alive
  /\ n \in 1..bufev.length[EV_READ]
  /\ bufev' = Changed([bufev EXCEPT !.length[EV_READ] = @ - n])

bufferevent_enable(x) ==
  /\ bufev.alive
  /\ bufev' = [bufferevent_add(bufev, x) EXCEPT !.enabled = @ \cup {x}]

bufferevent_disable(x) ==
  /\ bufev.alive
  /\ bufev' = [event_del(bufev, x) EXCEPT !.enabled = @ \ {x}]

bufferevent_settimeout(tr, tw) ==
  LET b == [bufev EXCEPT !.timeout = [x \in Sides |-> IF x = EV_READ THEN tr ELSE tw]]
      again(c, x) == IF c.ev[x] # None THEN bufferevent_add(c, x) ELSE c IN
  /\ bufev.alive
  /\ bufev' = again(again(b, EV_READ), EV_WRITE)

\* The write watermark only decides when the application is called.
bufferevent_setwatermark(x, low, high) ==
  LET b == IF x = EV_READ THEN [bufev EXCEPT !.low = low, !.high = high]
           ELSE bufev IN
  /\ bufev.alive
  /\ bufev' = bufferevent_read_pressure_cb(b)

\* The caller has to enable the new descriptor.
bufferevent_setfd ==
  /\ bufev.alive
  /\ bufev' = [event_del(event_del(bufev, EV_READ), EV_WRITE) EXCEPT !.down = Sides]

bufferevent_free ==
  /\ bufev.alive
  /\ bufev' = [event_del(event_del(bufev, EV_READ), EV_WRITE) EXCEPT
                 !.alive = FALSE, !.length = [x \in Sides |-> 0]]

New == ~bufev.alive /\ bufev' = bufferevent_new

Callbacks ==
  \/ \E n \in 0..ReadLimit(bufev) - bufev.length[EV_READ] : bufferevent_readcb(n)
  \/ bufev.length[EV_READ] > ReadLimit(bufev) /\ bufferevent_readcb(0)
  \/ \E n \in 0..MaxLength : bufferevent_writecb(n)
  \/ \E x \in Sides : Again(x) \/ Error(x) \/ Timeout(x)

Calls ==
  \/ \E n \in 0..MaxLength : bufferevent_write(n) \/ bufferevent_read(n)
  \/ \E x \in Sides : bufferevent_enable(x) \/ bufferevent_disable(x)
  \/ \E tr, tw \in BOOLEAN : bufferevent_settimeout(tr, tw)
  \/ \E x \in Sides, low, high \in 0..MaxLength : bufferevent_setwatermark(x, low, high)
  \/ bufferevent_setfd
  \/ bufferevent_free
  \/ New

Next == Callbacks \/ Calls

Spec == Init /\ [][Next]_vars
-----------------------------------------------------------------------------
(* Back pressure never loses the connection: as long as reading is enabled *)
(* and no error was reported, the read event is added whenever the input   *)
(* is below its high watermark, or the callback is set that will add it;   *)
(* and output that waits has its write event added (evbuffer.c: the        *)
(* pressure callback, readcb, writecb, setwatermark, enable).              *)
WaitingIsServed ==
  bufev.alive =>
    /\ EV_READ \in bufev.enabled \ bufev.down =>
         bufev.ev[EV_READ] # None \/ (bufev.cb /\ bufev.length[EV_READ] >= bufev.high)
    /\ EV_WRITE \in bufev.enabled \ bufev.down =>
         bufev.ev[EV_WRITE] # None \/ bufev.length[EV_WRITE] = 0

UpToTheMark ==
  bufev'.length[EV_READ] > bufev.length[EV_READ] =>
    bufev.high = 0 \/ bufev'.length[EV_READ] <= bufev.high

(* Reading stops at the high watermark: a step that adds input never takes *)
(* it past the mark (howmuch in bufferevent_readcb).                       *)
NeverPastTheMark == [][UpToTheMark]_vars
=============================================================================

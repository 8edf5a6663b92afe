-------------------------------- MODULE Rpc ---------------------------------
(***************************************************************************)
(* libevent's RPC layer (evrpc.c).  A client keeps a pool of connections   *)
(* and a queue of calls; a call goes out on a connection that has nothing  *)
(* to do, and may time out.  A server hands requests to the application,   *)
(* which completes them later.                                             *)
(*                                                                         *)
(* The HTTP connection is modelled by what evrpc.c relies on: it answers a *)
(* request, or fails it, once.  hook is what the hooks of the pool say.    *)
(*                                                                         *)
(* Three machines: the calls, the registered RPCs, the tagged encoding.    *)
(***************************************************************************)
EXTENDS Sequences, FiniteSets, SequencesExt, Integers

CONSTANTS
  Calls,         \* contexts of calls
  Connections,
  Timeouts,      \* values of pool->timeout > 0
  Requests,      \* requests to the server
  None

VARIABLES
  pool,    \* the client
  server   \* what each request to the server is waiting for

pool_vars == <<pool, server>>

\* call: None, "queued", "sent"; called: callbacks of the current call; left: a
\* timeout is pending whose call or connection was freed; fired: it has fired,
\* and what the process does then is undefined.
evrpc_pool_new(timeout, left) ==
  [requests |-> <<>>, connections |-> <<>>, timeout |-> timeout,
   busy |-> [c \in Connections |-> None], timer |-> {},
   call |-> [x \in Calls |-> None], called |-> [x \in Calls |-> 0],
   left |-> left, fired |-> FALSE]

\* The request of a call that was freed, for ever first on its connection.
Lost == "lost"

PoolInit == /\ pool \in {evrpc_pool_new(t, FALSE) : t \in Timeouts}
            /\ server = [r \in Requests |-> None]
-----------------------------------------------------------------------------
(* The client.                                                             *)

\* The callback of the call, which is freed then.
Finish(p, x) == [p EXCEPT !.call[x] = None, !.called[x] = @ + 1]

Idle(p) == SelectSeq(p.connections, LAMBDA c : p.busy[c] = None)

\* A call that cannot be started is called back at once.  A connect that fails
\* at once leaves the request in the queue of the connection, and the timeout.
evrpc_schedule_request(p, c, x, hook, starts) ==
  IF ~hook THEN Finish(p, x)
  ELSE IF ~starts THEN Finish([p EXCEPT !.busy[c] = Lost, !.left = @ \/ p.timeout], x)
  ELSE [p EXCEPT !.timer = IF p.timeout THEN @ \cup {x} ELSE @,
                 !.busy[c] = x, !.call[x] = "sent"]

\* Faulty: any connection will do.
evrpc_pool_find_connection_Any(p) == IF p.connections = <<>> THEN None ELSE p.connections[1]

evrpc_pool_find_connection(p) == IF Idle(p) = <<>> THEN None ELSE Idle(p)[1]

evrpc_pool_schedule(p, hook, starts) ==
  LET c == evrpc_pool_find_connection(p) IN
  IF p.requests = <<>> \/ c = None THEN p
  ELSE evrpc_schedule_request([p EXCEPT !.requests = Tail(@)], c, Head(p.requests),
                              hook, starts)

\* evrpc_reply_done: event_del, callback, and the next call of the queue.
evrpc_reply_done(p, x, hook, starts) ==
  evrpc_pool_schedule(Finish([p EXCEPT !.timer = @ \ {x}], x), hook, starts)

evrpc_make_request(x, hook, starts) ==
  /\ pool.connections # <<>> /\ pool.call[x] = None
  /\ pool' = evrpc_pool_schedule(
               [pool EXCEPT !.requests = Append(@, x), !.call[x] = "queued",
                            !.called[x] = 0], hook, starts)
  /\ UNCHANGED server

\* A connection that is added takes one call that waits.
evrpc_pool_add_connection(c, hook, starts) ==
  LET p == [pool EXCEPT !.connections = Append(@, c)] IN
  /\ c \notin Range(pool.connections)
  /\ pool' = IF p.requests = <<>> THEN p
             ELSE evrpc_schedule_request([p EXCEPT !.requests = Tail(@)], c,
                                         Head(p.requests), hook, starts)
  /\ UNCHANGED server

\* The HTTP layer takes the request off the connection and calls back, with
\* the answer, or without one when the connection fails.
Answered(c, hook, starts) ==
  LET x == pool.busy[c] IN
  /\ x \in Calls
  /\ pool' = evrpc_reply_done([pool EXCEPT !.busy[c] = None], x, hook, starts)
  /\ UNCHANGED server

\* evrpc_request_timeout fails the connection the call is on.
Timeout(x, hook, starts) ==
  LET c == CHOOSE k \in Connections : pool.busy[k] = x IN
  /\ x \in pool.timer
  /\ pool' = evrpc_reply_done([pool EXCEPT !.busy[c] = None], x, hook, starts)
  /\ UNCHANGED server

\* evrpc_pool_free: calls that wait are freed without a callback, those on a
\* connection lose it and keep their timeout.
PoolFree ==
  /\ pool.connections # <<>>
  /\ pool' = evrpc_pool_new(pool.timeout, pool.left \/ pool.timer # {})
  /\ UNCHANGED server

\* evrpc_request_timeout of a call, or with a connection, that was freed.
LeftTimeout == pool.left /\ pool' = [pool EXCEPT !.fired = TRUE] /\ UNCHANGED server
-----------------------------------------------------------------------------
(* The server.  server[r]: "http" (to be handled), "app" (with the         *)
(* application), then how often it was answered.                           *)

Arrive(r) == /\ server[r] \in {None, "once"}
             /\ server' = [server EXCEPT ![r] = "http"]
             /\ UNCHANGED pool

\* evrpc_request_cb: not a POST, empty, refused by a hook or not well formed:
\* an error is sent; else the application gets it.
evrpc_request_cb(r, sound) ==
  /\ server[r] = "http"
  /\ server' = [server EXCEPT ![r] = IF sound THEN "app" ELSE "once"]
  /\ UNCHANGED pool

\* The reply, or the error of an incomplete one or of a hook.
evrpc_request_done(r) ==
  /\ server[r] = "app"
  /\ server' = [server EXCEPT ![r] = "once"]
  /\ UNCHANGED pool

Client(hook, starts) ==
  \/ \E x \in Calls : evrpc_make_request(x, hook, starts) \/ Timeout(x, hook, starts)
  \/ \E c \in Connections :
       evrpc_pool_add_connection(c, hook, starts) \/ Answered(c, hook, starts)

Server(r) == Arrive(r) \/ evrpc_request_done(r) \/ \E sound \in BOOLEAN : evrpc_request_cb(r, sound)

PoolNext ==
      /\ ~pool.fired
      /\ \/ \E hook, starts \in BOOLEAN : Client(hook, starts)
         \/ PoolFree \/ LeftTimeout
         \/ \E r \in Requests : Server(r)

PoolSpec == PoolInit /\ [][PoolNext]_pool_vars
-----------------------------------------------------------------------------
(* A call is on at most one connection, a connection carries at most one   *)
(* call, and each call is called back once: no answer, timeout or refusal  *)
(* reaches a call that is already finished.  A pool that is freed drops    *)
(* its calls without a callback.  All this until a timeout fires that      *)
(* evrpc.c does not delete: that of a call whose connection could not be   *)
(* made (542-559), or that was on a connection of a pool that was freed    *)
(* (409-435).                                                              *)
CallsAreServedOnce ==
  ~pool.fired => \A x \in Calls :
    /\ Cardinality({c \in Connections : pool.busy[c] = x})
         = (IF pool.call[x] = "sent" THEN 1 ELSE 0)
    /\ pool.called[x] = 1 => pool.call[x] = None
    /\ pool.called[x] < 2
    /\ (x \in Range(pool.requests)) = (pool.call[x] = "queued")
    /\ x \in pool.timer => pool.call[x] = "sent"

(* evrpc.c:576: "if no connection is available, we queue the request on    *)
(* the pool, the next time a connection is empty, the rpc will be send on  *)
(* that": no call waits while a connection is idle.                        *)
NoneWaitsForAnIdleConnection == pool.requests # <<>> => Idle(pool) = <<>>
-----------------------------------------------------------------------------
(* The server's side of evrpc.c that outlives a request: the registered RPCs, *)
(* each with a callback of the HTTP server under a URI made of its name, and  *)
(* the hooks that filter requests and replies.  Rpc models the requests       *)
(* themselves and the client.                                                 *)

CONSTANTS
  Names,       \* names of RPCs
  Rpcs,        \* struct evrpc's
  Hooks,       \* struct evrpc_hook's
  MaxPassed    \* bound: hooks a request may pass

VARIABLES
  rpc,         \* registered_rpcs: [id, uri]
  callbacks,   \* the callbacks of the HTTP server: [what, arg]
  hooks,       \* hooks[type]: input_hooks and output_hooks
  pending,     \* pending[r]: the RPC of a request the application has
  passed,      \* passed[r]: the hooks that saw the request
  state        \* "up", "freed", or "aborted" by an assertion

registry_vars == <<rpc, callbacks, hooks, pending, passed, state>>

HookTypes == {"INPUT", "OUTPUT"}

evrpc_construct_uri(name) == <<"/.rpc.", name>>

evhttp_set_cb(cbs, uri, arg) == Append(cbs, [what |-> uri, arg |-> arg])

(* The first callback of that URI is removed, if there is one.                *)
evhttp_del_cb(cbs, uri) ==
  LET at == SelectInSeq(cbs, LAMBDA cb : cb.what = uri)
  IN  IF at = 0 THEN [cbs |-> cbs, ret |-> -1] ELSE [cbs |-> RemoveAt(cbs, at), ret |-> 0]

(* The state of the server that evrpc_unregister_rpc changes.                 *)
RegistryServer == [rpc |-> rpc, callbacks |-> callbacks, ok |-> TRUE, ret |-> 0]

evrpc_unregister_rpc_KeepsCallback(v, name) ==
  LET at == SelectInSeq(v.rpc, LAMBDA e : e.uri = name)
  IN  IF at = 0 THEN [v EXCEPT !.ret = -1]
      ELSE [v EXCEPT !.rpc = RemoveAt(@, at), !.ret = 0]
evrpc_unregister_rpc(v, name) ==
  LET at == SelectInSeq(v.rpc, LAMBDA e : e.uri = name)
      del == evhttp_del_cb(v.callbacks, evrpc_construct_uri(name))
  IN  IF at = 0 THEN [v EXCEPT !.ret = -1]
      ELSE [rpc |-> RemoveAt(v.rpc, at), callbacks |-> del.cbs, ok |-> del.ret = 0, ret |-> 0]

(******************************** Operations *********************************)

evrpc_init ==
  /\ rpc = <<>> /\ callbacks = <<>>
  /\ hooks = [t \in HookTypes |-> <<>>]
  /\ pending = [r \in Requests |-> None]
  /\ passed = [r \in Requests |-> <<>>]
  /\ state = "up"

evrpc_register_rpc(id, name) ==
  /\ state = "up" /\ \A k \in DOMAIN rpc : rpc[k].id # id
  /\ rpc' = Append(rpc, [id |-> id, uri |-> name])
  /\ callbacks' = evhttp_set_cb(callbacks, evrpc_construct_uri(name), id)
  /\ UNCHANGED <<hooks, pending, passed, state>>

Unregister(name) ==
  /\ state = "up"
  /\ LET v == evrpc_unregister_rpc(RegistryServer, name)
     IN  rpc' = v.rpc /\ callbacks' = v.callbacks /\ state' = IF v.ok THEN state ELSE "aborted"
  /\ UNCHANGED <<hooks, pending, passed>>

evrpc_add_hook(type, hook) ==
  /\ state = "up" /\ \A t \in HookTypes : hook \notin Range(hooks[t])
  /\ hooks' = [hooks EXCEPT ![type] = Append(@, hook)]
  /\ UNCHANGED <<rpc, callbacks, pending, passed, state>>

evrpc_remove_hook(type, hook) ==
  /\ state = "up" /\ hook \in Range(hooks[type])
  /\ hooks' = [hooks EXCEPT ![type] = SelectSeq(@, LAMBDA h : h # hook)]
  /\ UNCHANGED <<rpc, callbacks, pending, passed, state>>

(* The hooks of a list one after the other, up to the one that fails.         *)
evrpc_process_hooks(type, failing) ==
  LET at == SelectInSeq(hooks[type], LAMBDA h : h = failing)
  IN  [ok |-> at = 0, ran |-> IF at = 0 THEN hooks[type] ELSE SubSeq(hooks[type], 1, at)]

(* A request is dispatched to the first callback of its URI; a hook may turn  *)
(* it away, else the application has it.                                      *)
evrpc_request_cb_hooks(r, name, failing) ==
        LET at == SelectInSeq(callbacks, LAMBDA cb : cb.what = evrpc_construct_uri(name))
            run == evrpc_process_hooks("INPUT", failing)
        IN  /\ state = "up" /\ at # 0 /\ pending[r] = None /\ passed[r] = <<>>
            /\ pending' = [pending EXCEPT ![r] = IF run.ok THEN callbacks[at].arg ELSE None]
            /\ passed' = [passed EXCEPT ![r] = run.ran]
            /\ UNCHANGED <<rpc, callbacks, hooks, state>>

(* The application completes it: reply_complete, the output hooks and the     *)
(* reply all go through the RPC, which must still be there.                   *)
evrpc_request_done_hooks(r, failing) ==
        /\ state = "up" /\ pending[r] # None
        /\ \E k \in DOMAIN rpc : rpc[k].id = pending[r]
        /\ pending' = [pending EXCEPT ![r] = None]
        /\ passed' = [passed EXCEPT ![r] =
             IF Len(@) + Len(hooks["OUTPUT"]) <= MaxPassed
             THEN @ \o evrpc_process_hooks("OUTPUT", failing).ran ELSE @]
        /\ UNCHANGED <<rpc, callbacks, hooks, state>>

(* evrpc_free: every RPC is unregistered inside assert(), which takes the 0   *)
(* of success for a failure.                                                  *)
evrpc_free ==
  /\ state = "up" /\ \A r \in Requests : pending[r] = None
  /\ IF rpc = <<>>
     THEN state' = "freed" /\ hooks' = [t \in HookTypes |-> <<>>] /\ UNCHANGED <<rpc, callbacks>>
     ELSE LET v == evrpc_unregister_rpc(RegistryServer, rpc[1].uri)
          IN  /\ rpc' = v.rpc /\ callbacks' = v.callbacks
              /\ state' = IF v.ret # 0 THEN state ELSE "aborted"
              /\ UNCHANGED hooks
  /\ UNCHANGED <<pending, passed>>

RegistryInit == evrpc_init

RegistryNext ==
          \/ \E name \in Names : Unregister(name) \/ \E id \in Rpcs : evrpc_register_rpc(id, name)
          \/ \E type \in HookTypes, hook \in Hooks : evrpc_add_hook(type, hook) \/ evrpc_remove_hook(type, hook)
          \/ \E r \in Requests, failing \in Hooks \cup {None} :
               \/ \E name \in Names : evrpc_request_cb_hooks(r, name, failing)
               \/ evrpc_request_done_hooks(r, failing)
          \/ evrpc_free

RegistrySpec == RegistryInit /\ [][RegistryNext]_registry_vars

(******************************** Properties *********************************)

(* The HTTP server never calls into an RPC that was freed: for each name, its *)
(* callbacks are the registered RPCs of that name in the order they were      *)
(* registered, also when a name is registered twice and unregistered once.    *)
CallbacksAreRegistered ==
  \A name \in Names :
    LET cbs == SelectSeq(callbacks, LAMBDA cb : cb.what = evrpc_construct_uri(name))
        own == SelectSeq(rpc, LAMBDA e : e.uri = name)
    IN  /\ Len(cbs) = Len(own)
        /\ \A k \in DOMAIN cbs : cbs[k].arg = own[k].id

(* evrpc.c:88 asserts that unregistering an RPC succeeds while the base is    *)
(* freed.                                                                     *)
FreeingSucceeds == state # "aborted"
-----------------------------------------------------------------------------
(***************************************************************************)
(* libevent's tagged encoding (event_tagging.c), which evrpc.c sends: a    *)
(* tag of 7 bits to a byte, a length of 4 bits to a nibble, a payload.     *)
(* Items are marshalled into a buffer and unmarshalled, in order, with the *)
(* tag and the kind the reader expects, or skipped.                         *)
(***************************************************************************)

CONSTANTS
  Tags,      \* tags
  Numbers,   \* integers and parts of timevals
  Strings,   \* payloads: sequences of bytes
  MaxItems

VARIABLES
  items,     \* what was marshalled and not yet read
  buf,       \* the evbuffer
  read       \* what the last read returned

tag_vars == <<items, buf, read>>

Fail == [ok |-> FALSE]
Drop(q, n) == SubSeq(q, n + 1, Len(q))

\* The nibbles of a number, the lowest first; none for 0.
Nibbles[n \in Nat] == IF n = 0 THEN <<>> ELSE <<n % 16>> \o Nibbles[n \div 16]

\* Faulty: the count is the number of nibbles.
encode_int_Count(n) ==
  LET d == Nibbles[n]
      q == <<Len(d)>> \o (IF d = <<>> THEN <<0>> ELSE d) \o <<0>>
  IN [i \in 1..Len(q) \div 2 |-> 16 * q[2 * i - 1] + q[2 * i]]

\* The high nibble of the first byte counts the nibbles less one; they follow
\* from its low nibble on, high nibble first.
encode_int(n) ==
  LET d == Nibbles[n]
      q == <<IF Len(d) > 0 THEN Len(d) - 1 ELSE 0>> \o (IF d = <<>> THEN <<0>> ELSE d) \o <<0>>
  IN [i \in 1..((Len(q) - 1) + 1) \div 2 |-> 16 * q[2 * i - 1] + q[2 * i]]

\* The value and the bytes it took.
decode_int_internal(q) ==
  LET count == q[1] \div 16 + 1
      nibble(k) == IF k % 2 = 1 THEN q[k \div 2 + 1] % 16 ELSE q[k \div 2 + 1] \div 16
      value[k \in 0..count] ==      \* of the nibbles from k on
        IF k = count THEN 0 ELSE nibble(k + 1) + 16 * value[k + 1]
  IN IF q = <<>> THEN Fail
     ELSE IF count > 8 \/ count \div 2 + 1 > Len(q) THEN Fail
     ELSE [ok |-> TRUE, value |-> value[0], len |-> count \div 2 + 1]

evtag_encode_tag[tag \in Nat] ==
  IF tag < 128 THEN <<tag>> ELSE <<128 + (tag % 128)>> \o evtag_encode_tag[tag \div 128]

decode_tag_internal(q) ==
  LET ends == {i \in DOMAIN q : q[i] < 128}
      n == CHOOSE i \in ends : \A j \in ends : i <= j
      value[i \in 1..n + 1] == IF i > n THEN 0 ELSE (q[i] % 128) + 128 * value[i + 1]
  IN IF ends = {} THEN Fail ELSE [ok |-> TRUE, value |-> value[1], len |-> n]

\* The payload of an item by its kind.
Payload(it) ==
  CASE it.kind = "int" -> encode_int(it.value)
    [] it.kind = "timeval" -> encode_int(it.value[1]) \o encode_int(it.value[2])
    [] it.kind = "string" -> it.value

evtag_marshal(it) ==
  evtag_encode_tag[it.tag] \o encode_int(Len(Payload(it))) \o Payload(it)

\* Tag and length, not drained: evtag_peek_length, evtag_payload_length.
Peek(q) ==
  LET t == decode_tag_internal(q)
      l == decode_int_internal(Drop(q, t.len))
  IN IF ~t.ok THEN Fail
     ELSE IF ~l.ok THEN Fail
     ELSE [ok |-> TRUE, tag |-> t.value, payload |-> l.value, total |-> l.value + l.len + t.len]

\* What is left of the buffer when the header has been drained, and failed.
AfterHeader(q) ==
  LET t == decode_tag_internal(q)
      l == decode_int_internal(Drop(q, t.len))
  IN IF ~t.ok THEN q ELSE IF ~l.ok THEN Drop(q, t.len) ELSE Drop(q, t.len + l.len)

\* evtag_unmarshal: tag and payload, and the rest of the buffer.
evtag_unmarshal(q) ==
  LET p == Peek(q) IN
  IF ~p.ok THEN [ok |-> FALSE, rest |-> AfterHeader(q)]
  ELSE IF Len(AfterHeader(q)) < p.payload THEN [ok |-> FALSE, rest |-> AfterHeader(q)]
  ELSE [ok |-> TRUE, tag |-> p.tag, rest |-> Drop(q, p.total),
        data |-> SubSeq(AfterHeader(q), 1, p.payload)]

Decoded(kind, data) ==
  LET a == decode_int_internal(data)
      b == decode_int_internal(Drop(data, a.len))
  IN CASE kind = "string" -> [ok |-> TRUE, value |-> data]
       [] kind = "int" -> IF a.ok THEN [ok |-> TRUE, value |-> a.value] ELSE Fail
       [] kind = "timeval" ->
            IF ~a.ok THEN Fail ELSE IF ~b.ok THEN Fail
            ELSE [ok |-> TRUE, value |-> <<a.value, b.value>>]

\* evtag_unmarshal_int, _fixed, _string, _timeval: evtag_unmarshal_int looks at
\* the tag before it drains the rest.
UnmarshalKind(q, need_tag, kind) ==
  LET u == evtag_unmarshal(q)
      t == decode_tag_internal(q)
  IN IF kind = "int" /\ t.ok /\ t.value # need_tag
       THEN [ok |-> FALSE, rest |-> Drop(q, t.len)]
     ELSE IF ~u.ok THEN u
     ELSE IF u.tag # need_tag \/ ~Decoded(kind, u.data).ok
       THEN [ok |-> FALSE, rest |-> u.rest]
     ELSE [ok |-> TRUE, value |-> Decoded(kind, u.data).value, rest |-> u.rest]

Items == [kind : {"int"}, tag : Tags, value : Numbers]
           \cup [kind : {"timeval"}, tag : Tags, value : Numbers \X Numbers]
           \cup [kind : {"string"}, tag : Tags, value : Strings]

Nothing == [ok |-> TRUE, value |-> <<>>, want |-> <<>>]

TagInit == items = <<>> /\ buf = <<>> /\ read = Nothing

Marshal(it) ==
  /\ Len(items) < MaxItems /\ (items = <<>> => buf = <<>>)
  /\ items' = Append(items, it)
  /\ buf' = buf \o evtag_marshal(it)
  /\ read' = Nothing

\* The reader asks for the kind and the tag of the item.
Unmarshal ==
  LET u == UnmarshalKind(buf, Head(items).tag, Head(items).kind) IN
  /\ items # <<>>
  /\ read' = [ok |-> u.ok, want |-> Head(items).value,
              value |-> IF u.ok THEN u.value ELSE <<>>]
  /\ buf' = u.rest
  /\ items' = Tail(items)

evtag_consume ==
  LET p == Peek(buf) IN
  /\ items # <<>> /\ p.ok
  /\ buf' = Drop(AfterHeader(buf), p.payload)
  /\ items' = Tail(items)
  /\ read' = Nothing

TagNext == (\E it \in Items : Marshal(it)) \/ Unmarshal \/ evtag_consume

TagSpec == TagInit /\ [][TagNext]_tag_vars

(* What was marshalled is what unmarshalling returns, whatever the widths  *)
(* of tag and length, and every item read or skipped leaves the buffer at  *)
(* the next one: the buffer is always the encoding of what is left.        *)
ItemsComeBack ==
  /\ buf = FlattenSeq([i \in DOMAIN items |-> evtag_marshal(items[i])])
  /\ read.ok /\ read.value = read.want
=============================================================================

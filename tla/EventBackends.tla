--------------------------- MODULE EventBackends ---------------------------
(***************************************************************************)
(* The seven ways libevent 1.4.13 waits for file descriptors: epoll, poll, *)
(* select, /dev/poll, Solaris event ports, kqueue and Winsock select.      *)
(* event_base_new takes the first one that works; each keeps its own       *)
(* tables of who waits for what, and a kernel object it mirrors them in.   *)
(* event_add and event_del call its add and del, event_base_loop its       *)
(* dispatch, and all of them owe the loop the same thing: exactly the      *)
(* inserted events are watched.                                            *)
(*                                                                         *)
(* A behaviour picks one backend. Array growth (realloc to the double) and *)
(* running out of memory are left out: the tables are as large as needed.  *)
(* At most one event waits for a direction of a descriptor, the rule the   *)
(* tables (one read event, one write event per descriptor) impose.         *)
(*                                                                         *)
(* The second machine is who handles a signal (signal.c): adding the first *)
(* event for a signal installs evsignal_handler and saves the handler the  *)
(* process had in sh_old, an array that grows to the highest signal        *)
(* number; deleting the last one, or freeing the base, puts it back.  What *)
(* a signal does once it is caught is part of EventLoop.                   *)
(***************************************************************************)
EXTENDS Naturals, Sequences, FiniteSets, SequencesExt

CONSTANTS Events,          \* the events of the application
          Fds,             \* file descriptors: consecutive naturals from 0
          EvFd, EvDirs,    \* ev_fd and ev_events & (EV_READ|EV_WRITE)
          Persist,         \* the events set with EV_PERSIST
          Backends,        \* the backends a behaviour may use
          None,            \* the NULL event
          MaxChanges,      \* room in the change list of /dev/poll
          EVENTS_PER_GETN, \* events one port_getn returns
          MaxQueued        \* bound: kqueue changes queued between two waits

CONSTANTS SignalEvents,    \* signal events
          Sig,             \* Sig[e]: EVENT_SIGNAL(e)
          Signals,
          Uncatchable,     \* signals for which sigaction fails
          Handlers,        \* handlers the application may install itself
          NULL

VARIABLES backend,   \* base->evsel
          t,         \* base->evbase: the tables of the backend
          inserted,  \* events with EVLIST_INSERTED
          active,    \* events with EVLIST_ACTIVE
          stray      \* activated by the last dispatch without being ready

VARIABLES base,      \* [evsigevents, sh_old, sh_old_max, ev_signal_added], or NULL
          handler,   \* handler[s]: the handler of the process
          wanted     \* wanted[s]: the handler the application installed last

vars == <<backend, t, inserted, active, stray>>

Dirs == {"r", "w"}
Ready == Fds \X Dirs
Want(e) == {<<EvFd[e], d>> : d \in EvDirs[e]}
NoEvents == [f \in Fds |-> None]

\* The table entry of a direction is set to x for the directions of e.
Enter(tab, e, d, x) == IF d \in EvDirs[e] THEN [tab EXCEPT ![EvFd[e]] = x] ELSE tab

\* Registered directions of descriptor f in the tables rd and wr.
Mask(rd, wr, f) == (IF rd[f] # None THEN {"r"} ELSE {}) \cup (IF wr[f] # None THEN {"w"} ELSE {})
Entry(tabs, p) == IF p[2] = "r" THEN tabs.rd[p[1]] ELSE tabs.wr[p[1]]

\* The (descriptor, direction) pairs of p that have an event in the tables.
Fire(tabs, p) == {<<Entry(tabs, q), q[2]>> : q \in {r \in p : Entry(tabs, r) # None}}

----------------------------------------------------------------------------
\* epoll: one entry per descriptor, changed with ADD, MOD and DEL.
epoll_init == [rd |-> NoEvents, wr |-> NoEvents, kern |-> [f \in Fds |-> {}]]

epoll_add(s, e) ==
    LET f == EvFd[e]
        old == Mask(s.rd, s.wr, f)
        op == IF old = {} THEN "ADD" ELSE "MOD"
        works == (op = "ADD") <=> (s.kern[f] = {})     \* EEXIST or ENOENT otherwise
    IN  [ok |-> works,
         s |-> IF works THEN [rd |-> Enter(s.rd, e, "r", e), wr |-> Enter(s.wr, e, "w", e),
                              kern |-> [s.kern EXCEPT ![f] = old \cup EvDirs[e]]]
                        ELSE s]

epoll_del(s, e) ==
    LET f == EvFd[e]
        keepW == EvDirs[e] = {"r"} /\ s.wr[f] # None
        keepR == EvDirs[e] = {"w"} /\ s.rd[f] # None
    IN  [rd |-> IF keepR THEN s.rd ELSE [s.rd EXCEPT ![f] = None],
         wr |-> IF keepW THEN s.wr ELSE [s.wr EXCEPT ![f] = None],
         kern |-> [s.kern EXCEPT ![f] = IF keepW THEN {"w"} ELSE IF keepR THEN {"r"} ELSE {}]]

epoll_dispatch(s, ready) ==
    {[s |-> s, rep |-> Fire(s, {p \in ready : p[2] \in s.kern[p[1]]})]}

epoll_watches(s) == Fire(s, {p \in Ready : p[2] \in s.kern[p[1]]})

----------------------------------------------------------------------------
\* poll: a dense array of pollfds, found through idxplus1_by_fd; a deleted
\* entry is filled with the last one.
poll_init == [set |-> << >>, idx |-> [f \in Fds |-> 0]]

poll_add(s, e) ==
    LET f == EvFd[e]
        new == s.idx[f] = 0
        i == IF new THEN Len(s.set) + 1 ELSE s.idx[f]
        set == IF new THEN Append(s.set, [fd |-> f, events |-> {}, r |-> None, w |-> None]) ELSE s.set
    IN  [ok |-> TRUE,
         s |-> [set |-> [set EXCEPT ![i].events = @ \cup EvDirs[e],
                                    ![i].r = IF "r" \in EvDirs[e] THEN e ELSE @,
                                    ![i].w = IF "w" \in EvDirs[e] THEN e ELSE @],
                idx |-> [s.idx EXCEPT ![f] = i]]]

\* Faulty: the entry goes although the other direction is still wanted.
poll_del_Both(s, e) ==
    LET i == s.idx[EvFd[e]]
        n == Len(s.set)
        idx == [s.idx EXCEPT ![EvFd[e]] = 0]
    IN  CASE i = 0 -> s
          [] i # 0 /\ i = n -> [set |-> Front(s.set), idx |-> idx]
          [] OTHER -> [set |-> Front([s.set EXCEPT ![i] = s.set[n]]),
                       idx |-> [idx EXCEPT ![s.set[n].fd] = i]]

poll_del(s, e) ==
    LET i == s.idx[EvFd[e]]
        set == [s.set EXCEPT ![i].events = @ \ EvDirs[e],
                             ![i].r = IF "r" \in EvDirs[e] THEN None ELSE @,
                             ![i].w = IF "w" \in EvDirs[e] THEN None ELSE @]
        n == Len(set)
        idx == [s.idx EXCEPT ![EvFd[e]] = 0]
    IN  CASE i = 0 -> s
          [] i # 0 /\ set[i].events # {} -> [s EXCEPT !.set = set]
          [] i # 0 /\ set[i].events = {} /\ i = n -> [set |-> Front(set), idx |-> idx]
          [] OTHER -> [set |-> Front([set EXCEPT ![i] = set[n]]),
                       idx |-> [idx EXCEPT ![set[n].fd] = i]]

PollFire(s, p) ==
    UNION {{<<s.set[i].r, "r">> : q \in p \cap {<<s.set[i].fd, "r">>}}
            \cup {<<s.set[i].w, "w">> : q \in p \cap {<<s.set[i].fd, "w">>}} : i \in DOMAIN s.set}
        \ ({None} \X Dirs)

poll_watches(s) == PollFire(s, UNION {{s.set[i].fd} \X s.set[i].events : i \in DOMAIN s.set})

poll_dispatch(s, ready) ==
    {[s |-> s, rep |-> PollFire(s, {p \in ready : \E i \in DOMAIN s.set :
                                        s.set[i].fd = p[1] /\ p[2] \in s.set[i].events})]}

----------------------------------------------------------------------------
\* select: two bit sets up to the highest descriptor seen, event_fds.
select_init == [rd |-> NoEvents, wr |-> NoEvents, in |-> {}, top |-> 0]

select_add(s, e) ==
    [ok |-> TRUE,
     s |-> [rd |-> Enter(s.rd, e, "r", e), wr |-> Enter(s.wr, e, "w", e), in |-> s.in \cup Want(e),
            top |-> IF s.top < EvFd[e] THEN EvFd[e] ELSE s.top]]

select_del(s, e) ==
    IF s.top < EvFd[e] THEN s
    ELSE [s EXCEPT !.rd = Enter(@, e, "r", None), !.wr = Enter(@, e, "w", None), !.in = @ \ Want(e)]

select_watches(s) == Fire(s, {p \in s.in : p[1] <= s.top})
select_dispatch(s, ready) == {[s |-> s, rep |-> Fire(s, {p \in ready \cap s.in : p[1] <= s.top})]}

----------------------------------------------------------------------------
\* /dev/poll: changes are queued, written when the queue is full and before
\* every wait; POLLREMOVE forgets both directions, other masks are ORed in.
devpoll_init == [rd |-> NoEvents, wr |-> NoEvents, kern |-> [f \in Fds |-> {}], changes |-> << >>]

devpoll_commit(s) ==
    [s EXCEPT !.changes = << >>,
              !.kern = FoldLeft(LAMBDA k, c : [k EXCEPT ![c[1]] = IF c[2] = {} THEN {} ELSE @ \cup c[2]],
                                s.kern, s.changes)]

\* The mask {} stands for POLLREMOVE.
devpoll_queue(s, f, mask) ==
    LET room == IF Len(s.changes) >= MaxChanges THEN devpoll_commit(s) ELSE s
    IN  [room EXCEPT !.changes = Append(@, <<f, mask>>)]

devpoll_add(s, e) ==
    LET f == EvFd[e]
        taken == \/ "r" \in EvDirs[e] /\ s.rd[f] \notin {None, e}
                 \/ "w" \in EvDirs[e] /\ s.wr[f] \notin {None, e}
    IN  [ok |-> ~taken,
         s |-> IF taken THEN s
               ELSE [devpoll_queue(s, f, EvDirs[e]) EXCEPT !.rd = Enter(@, e, "r", e),
                                                           !.wr = Enter(@, e, "w", e)]]

devpoll_del(s, e) ==
    LET f == EvFd[e]
        keepW == EvDirs[e] = {"r"} /\ s.wr[f] # None
        keepR == EvDirs[e] = {"w"} /\ s.rd[f] # None
        gone == devpoll_queue(s, f, {})
        rest == IF keepW THEN devpoll_queue(gone, f, {"w"})
                ELSE IF keepR THEN devpoll_queue(gone, f, {"r"}) ELSE gone
    IN  [rest EXCEPT !.rd = IF keepR THEN @ ELSE [@ EXCEPT ![f] = None],
                     !.wr = IF keepW THEN @ ELSE [@ EXCEPT ![f] = None]]

devpoll_watches(s) == Fire(s, {p \in Ready : p[2] \in devpoll_commit(s).kern[p[1]]})

\* Events that are not persistent are deleted before they are activated.
devpoll_dispatch(s, ready) ==
    LET c == devpoll_commit(s)
        rep == Fire(c, {p \in ready : p[2] \in c.kern[p[1]]})
        once == SetToSeq({r[1] : r \in rep} \ Persist)
    IN  {[s |-> FoldLeft(devpoll_del, c, once), rep |-> rep]}

----------------------------------------------------------------------------
\* Event ports: an association is forgotten when it fires; the descriptors
\* that fired wait in ed_pending and are associated again before the next wait.
evport_init == [rd |-> NoEvents, wr |-> NoEvents, assoc |-> [f \in Fds |-> {}],
                pending |-> [i \in 1..EVENTS_PER_GETN |-> None]]

reassociate(s, f) ==
    IF Mask(s.rd, s.wr, f) # {} THEN [s EXCEPT !.assoc[f] = Mask(s.rd, s.wr, f)] ELSE s

evport_add(s, e) ==
    [ok |-> TRUE,
     s |-> reassociate([s EXCEPT !.rd = Enter(@, e, "r", e), !.wr = Enter(@, e, "w", e)], EvFd[e])]

evport_del(s, e) ==
    LET f == EvFd[e]
        slots == {i \in DOMAIN s.pending : s.pending[i] = f}
        first == CHOOSE i \in slots : \A j \in slots : i <= j
        cleared == [s EXCEPT !.rd = Enter(@, e, "r", None), !.wr = Enter(@, e, "w", None)]
        empty == Mask(cleared.rd, cleared.wr, f) = {}
    IN  CASE slots = {} /\ empty -> [cleared EXCEPT !.assoc[f] = {}]      \* port_dissociate
          [] slots = {} /\ ~empty -> reassociate(cleared, f)
          [] slots # {} /\ empty -> [cleared EXCEPT !.pending[first] = None]
          [] OTHER -> cleared

\* What the start of evport_dispatch does with ed_pending.
Reassociated(s) ==
    LET due == {i \in DOMAIN s.pending : s.pending[i] # None /\ Mask(s.rd, s.wr, s.pending[i]) # {}}
    IN  [FoldLeft(reassociate, s, SetToSeq({s.pending[i] : i \in due}))
            EXCEPT !.pending = [i \in DOMAIN @ |-> IF i \in due THEN None ELSE @[i]]]

evport_watches(s) == LET a == Reassociated(s) IN Fire(a, {p \in Ready : p[2] \in a.assoc[p[1]]})

\* port_getn returns at most EVENTS_PER_GETN of the ready descriptors, in any order.
evport_dispatch(s, ready) ==
    LET a == Reassociated(s)
        hit == {f \in Fds : \E d \in a.assoc[f] : <<f, d>> \in ready}
        n == IF Cardinality(hit) < EVENTS_PER_GETN THEN Cardinality(hit) ELSE EVENTS_PER_GETN
    IN  {[s |-> [a EXCEPT !.assoc = [f \in Fds |-> IF f \in ToSet(got) THEN {} ELSE @[f]],
                          !.pending = [i \in DOMAIN @ |-> IF i <= n THEN got[i] ELSE @[i]]],
          rep |-> Fire(a, {p \in ready : p[1] \in ToSet(got) /\ p[2] \in a.assoc[p[1]]})] :
            got \in {q \in [1..n -> hit] : IsInjective(q)}}

----------------------------------------------------------------------------
\* kqueue: filters are changed through a list handed to the next kevent; an
\* event that is not persistent is EV_ONESHOT and leaves the kernel by itself.
kq_init(ink) == [kern |-> {}, changes |-> << >>, ink |-> ink]

\* The changes of an event: the read filter first, then the write filter.
Changes(e, op) ==
    [i \in 1..Cardinality(EvDirs[e]) |->
        [op |-> op, fd |-> EvFd[e], ev |-> e,
         dir |-> IF i = 1 /\ "r" \in EvDirs[e] THEN "r" ELSE "w"]]

kq_add(s, e) ==
    [ok |-> TRUE, s |-> [s EXCEPT !.changes = @ \o Changes(e, "ADD"), !.ink = @ \cup {e}]]

kq_del(s, e) ==
    IF e \notin s.ink THEN s      \* EVLIST_X_KQINKERNEL
    ELSE [s EXCEPT !.changes = @ \o Changes(e, "DELETE"), !.ink = @ \ {e}]

\* The filters after kevent has applied the changes; a failed delete is ENOENT.
Filters(s) ==
    FoldLeft(LAMBDA k, c : {x \in k : x[1] # <<c.fd, c.dir>>}
                              \cup (IF c.op = "ADD" THEN {<<<<c.fd, c.dir>>, c.ev>>} ELSE {}),
             s.kern, s.changes)

kq_watches(s) == {<<x[2], x[1][2]>> : x \in Filters(s)}

kq_dispatch(s, ready) ==
    LET hit == {x \in Filters(s) : x[1] \in ready}
        once == {x \in hit : x[2] \notin Persist}
    IN  {[s |-> [kern |-> Filters(s) \ once, changes |-> << >>, ink |-> s.ink \ {x[2] : x \in once}],
          rep |-> {<<x[2], x[1][2]>> : x \in hit}]}

----------------------------------------------------------------------------
\* Winsock select: arrays of sockets, and the place of each socket in them.
win32_init == [rd |-> NoEvents, wr |-> NoEvents,
               set |-> [d \in Dirs |-> << >>], pos |-> [d \in Dirs |-> [f \in Fds |-> 0]]]

do_fd_set(s, f, d) ==
    IF s.pos[d][f] > 0 THEN s
    ELSE [s EXCEPT !.set[d] = Append(@, f), !.pos[d][f] = Len(s.set[d]) + 1]

do_fd_clear(s, f, d) ==
    LET i == s.pos[d][f]
        n == Len(s.set[d])
        last2 == s.set[d][n]
        off == [s EXCEPT !.pos[d][f] = 0]
    IN  IF i = 0 THEN s
        ELSE IF i = n THEN [off EXCEPT !.set[d] = Front(@)]
        ELSE [off EXCEPT !.set[d] = Front([@ EXCEPT ![i] = last2]), !.pos[d][last2] = i]

win32_insert(s, e) ==
    LET put(x, d) == IF d \in EvDirs[e] THEN do_fd_set(x, EvFd[e], d) ELSE x
        both == put(put(s, "r"), "w")
    IN  [ok |-> TRUE, s |-> [both EXCEPT !.rd = Enter(@, e, "r", e), !.wr = Enter(@, e, "w", e)]]

win32_del(s, e) ==
    LET f == EvFd[e]
        r == IF s.rd[f] = e THEN [do_fd_clear(s, f, "r") EXCEPT !.rd[f] = None] ELSE s
    IN  IF r.wr[f] = e THEN [do_fd_clear(r, f, "w") EXCEPT !.wr[f] = None] ELSE r

win32_watches(s) == Fire(s, UNION {ToSet(s.set[d]) \X {d} : d \in Dirs})

\* The indices the loop over writeset_out visits: it starts anywhere and wraps
\* at the size of exset_out (line 412), not at its own.
WriteVisits(start, count, exCount) ==
    LET i[n \in 0..count] == IF n = 0 THEN start
                             ELSE IF i[n - 1] + 1 >= exCount THEN 0 ELSE i[n - 1] + 1
    IN  {i[n] : n \in 1..count}

\* An index past writeset_out reads what select left there: any socket or none.
win32_dispatch(s, ready) ==
    LET out(d) == SelectSeq(s.set[d], LAMBDA f : <<f, d>> \in ready)
        w == out("w")
        n == Len(w)
        reads(ex) == (ToSet(out("r")) \cup ex) \X {"r"}
        writes(start, ex, junk) ==
            LET visits == WriteVisits(start, n, Cardinality(ex))
            IN  {<<w[i + 1], "w">> : i \in {j \in visits : j < n}}
                    \cup (IF \E i \in visits : i >= n THEN junk ELSE {})
    IN  {[s |-> s, rep |-> Fire(s, reads(ex) \cup writes(start, ex, junk))] :
            ex \in SUBSET ToSet(s.set["r"]),
            start \in 0..(IF n = 0 THEN 0 ELSE n - 1),
            junk \in {{}} \cup {{<<f, "w">>} : f \in Fds}}

----------------------------------------------------------------------------
init(b, ink) ==
    CASE b = "epoll" -> epoll_init [] b = "poll" -> poll_init [] b = "select" -> select_init
      [] b = "devpoll" -> devpoll_init [] b = "evport" -> evport_init
      [] b = "kqueue" -> kq_init(ink) [] b = "win32" -> win32_init

add(s, e) ==
    CASE backend = "epoll" -> epoll_add(s, e) [] backend = "poll" -> poll_add(s, e)
      [] backend = "select" -> select_add(s, e) [] backend = "devpoll" -> devpoll_add(s, e)
      [] backend = "evport" -> evport_add(s, e) [] backend = "kqueue" -> kq_add(s, e)
      [] backend = "win32" -> win32_insert(s, e)

del(s, e) ==
    CASE backend = "epoll" -> epoll_del(s, e) [] backend = "poll" -> poll_del(s, e)
      [] backend = "select" -> select_del(s, e) [] backend = "devpoll" -> devpoll_del(s, e)
      [] backend = "evport" -> evport_del(s, e) [] backend = "kqueue" -> kq_del(s, e)
      [] backend = "win32" -> win32_del(s, e)

dispatch(s, ready) ==
    CASE backend = "epoll" -> epoll_dispatch(s, ready) [] backend = "poll" -> poll_dispatch(s, ready)
      [] backend = "select" -> select_dispatch(s, ready) [] backend = "devpoll" -> devpoll_dispatch(s, ready)
      [] backend = "evport" -> evport_dispatch(s, ready) [] backend = "kqueue" -> kq_dispatch(s, ready)
      [] backend = "win32" -> win32_dispatch(s, ready)

watches(s) ==
    CASE backend = "epoll" -> epoll_watches(s) [] backend = "poll" -> poll_watches(s)
      [] backend = "select" -> select_watches(s) [] backend = "devpoll" -> devpoll_watches(s)
      [] backend = "evport" -> evport_watches(s) [] backend = "kqueue" -> kq_watches(s)
      [] backend = "win32" -> win32_watches(s)

Init ==
    /\ backend \in Backends
    /\ t = init(backend, {})
    /\ inserted = {} /\ active = {}
    /\ stray = {}

\* event_add: an event that is inserted or active is not given to the backend.
event_add(e) ==
    /\ e \notin inserted \cup active
    /\ backend = "kqueue" => Len(t.changes) < MaxQueued
    /\ \A o \in inserted : Want(o) \cap Want(e) = {}
    /\ LET r == add(t, e)
       IN  t' = r.s /\ inserted' = IF r.ok THEN inserted \cup {e} ELSE inserted
    /\ UNCHANGED <<backend, active, stray>>

\* event_del: off the active queue, off the backend.
event_del(e) ==
    /\ e \in inserted \cup active
    /\ active' = active \ {e} /\ inserted' = inserted \ {e}
    /\ t' = IF e \in inserted THEN del(t, e) ELSE t
    /\ UNCHANGED <<backend, stray>>

\* timeout_process: the event is deleted, then activated.
Timeout(e) ==
    /\ e \in inserted
    /\ inserted' = inserted \ {e} /\ active' = active \cup {e}
    /\ t' = del(t, e)
    /\ UNCHANGED <<backend, stray>>

\* event_process_active takes e: a persistent event stays with the backend.
Process(e) ==
    /\ e \in active
    /\ active' = active \ {e}
    /\ IF e \in inserted \ Persist THEN t' = del(t, e) /\ inserted' = inserted \ {e}
                                   ELSE UNCHANGED <<t, inserted>>
    /\ UNCHANGED <<backend, stray>>

Dispatch ==
    \E ready \in SUBSET UNION {Want(e) : e \in Events} : \E r \in dispatch(t, ready) :
        /\ t' = r.s
        /\ stray' = {x \in r.rep : x[2] = "w" /\ <<EvFd[x[1]], "w">> \notin ready}
        /\ active' = active \cup {x[1] : x \in r.rep}
        /\ inserted' = IF backend = "devpoll" THEN inserted \ ({x[1] : x \in r.rep} \ Persist) ELSE inserted
        /\ UNCHANGED backend

\* event_reinit after a fork: a new kernel object, every inserted event added.
event_reinit ==
    /\ backend \in {"epoll", "devpoll", "evport", "kqueue"}
    /\ t' = FoldLeft(LAMBDA s, e : add(s, e).s,
                     init(backend, IF backend = "kqueue" THEN t.ink ELSE {}), SetToSeq(inserted))
    /\ UNCHANGED <<backend, inserted, active, stray>>

Next ==
    \/ \E e \in Events : event_add(e) \/ event_del(e) \/ Timeout(e) \/ Process(e)
    \/ Dispatch
    \/ event_reinit

Spec == Init /\ [][Next]_vars

----------------------------------------------------------------------------
Regs(s) == UNION {{e} \X EvDirs[e] : e \in s}

\* What kqueue may keep of an event with two one-shot filters: the first that
\* fires takes its EVLIST_X_KQINKERNEL, and kq_del leaves the other alone.
LeftBehind ==
    IF backend # "kqueue" THEN {}
    ELSE Regs({e \in Events \ (Persist \cup t.ink) : EvDirs[e] = Dirs})

(***************************************************************************)
(* What the next wait of a backend watches for is exactly what the events  *)
(* inserted in the base want; an event that is waiting for its callback    *)
(* may already be off (EV_ONESHOT), never on when it was deleted.  One     *)
(* thing is excepted: kqueue may go on watching one direction of an event  *)
(* for both that is not persistent, after the other one has fired.         *)
(***************************************************************************)
WatchesInserted ==
    LET w == watches(t)
    IN  /\ w \subseteq Regs(inserted) \cup LeftBehind
        /\ Regs(inserted \ active) \subseteq w

(***************************************************************************)
(* event.3 promises the callback "when the event specified in event_set()  *)
(* occurs": a dispatch activates for writing only events whose descriptor  *)
(* was writable.  Winsock's select is excepted: its loop wraps at the size *)
(* of another array.                                                       *)
(***************************************************************************)
WritesAreReady == backend = "win32" \/ stray = {}

----------------------------------------------------------------------------
\* Who handles a signal.
signal_vars == <<base, handler, wanted>>

evsignal_handler == "evsignal_handler"

(* A saved handler that was freed but is still in the array.                  *)
Dangling == "freed"

evsignal_init ==
  [evsigevents |-> [s \in Signals |-> {}], sh_old |-> [s \in {} |-> NULL],
   sh_old_max |-> 0, ev_signal_added |-> FALSE]

Grown(b, s) ==
  IF s < b.sh_old_max THEN b
  ELSE [b EXCEPT !.sh_old_max = s + 1,
                 !.sh_old = [i \in 0 .. s |-> IF i < b.sh_old_max THEN @[i] ELSE NULL]]

(* Returns the new base, the new handlers and whether sigaction succeeded.    *)
_evsignal_set_handler(b, h, s) ==
  LET g == Grown(b, s)
  IN  IF s \in Uncatchable
      THEN [base |-> [g EXCEPT !.sh_old[s] = Dangling], handler |-> h, ok |-> FALSE]
      ELSE [base |-> [g EXCEPT !.sh_old[s] = h[s]],
            handler |-> [h EXCEPT ![s] = evsignal_handler], ok |-> TRUE]

_evsignal_restore_handler(b, h, s) ==
  [base |-> [b EXCEPT !.sh_old[s] = NULL],
   handler |-> IF s \in Uncatchable THEN h ELSE [h EXCEPT ![s] = b.sh_old[s]]]

evsignal_add_Saves(ev) ==
  LET s == Sig[ev]
      r == _evsignal_set_handler(base, handler, s)
  IN  /\ base # NULL /\ ev \notin base.evsigevents[s]
      /\ base' = IF r.ok THEN [r.base EXCEPT !.evsigevents[s] = @ \cup {ev}, !.ev_signal_added = TRUE]
                 ELSE r.base
      /\ handler' = r.handler
      /\ UNCHANGED wanted
evsignal_add(ev) ==
  LET s == Sig[ev]
      first == base.evsigevents[s] = {}
      r == _evsignal_set_handler(base, handler, s)
  IN  /\ base # NULL /\ ev \notin base.evsigevents[s]
      /\ base' = IF ~first THEN [base EXCEPT !.evsigevents[s] = @ \cup {ev}]
                 ELSE IF r.ok THEN [r.base EXCEPT !.evsigevents[s] = {ev}, !.ev_signal_added = TRUE]
                 ELSE r.base
      /\ handler' = IF first THEN r.handler ELSE handler
      /\ UNCHANGED wanted

evsignal_del(ev) ==
  LET s == Sig[ev]
      b == [base EXCEPT !.evsigevents[s] = @ \ {ev}]
      r == _evsignal_restore_handler(b, handler, s)
      last == b.evsigevents[s] = {}
  IN  /\ base # NULL /\ ev \in base.evsigevents[s]
      /\ base' = IF last THEN r.base ELSE b
      /\ handler' = IF last THEN r.handler ELSE handler
      /\ UNCHANGED wanted

(* Freeing the base puts back every handler that is still saved.  One whose   *)
(* memory was freed when sigaction failed is read again: undefined, not       *)
(* followed here.                                                             *)
evsignal_dealloc ==
  LET saved == {i \in DOMAIN base.sh_old : base.sh_old[i] # NULL}
  IN  /\ base # NULL
      /\ \A i \in saved : base.sh_old[i] # Dangling
      /\ base' = NULL
      /\ handler' = [s \in Signals |-> IF s \in saved THEN base.sh_old[s] ELSE handler[s]]
      /\ UNCHANGED wanted

event_base_new ==
  /\ base = NULL
  /\ base' = evsignal_init
  /\ UNCHANGED <<handler, wanted>>

(* The application sets a handler itself, for a signal it has no event for.   *)
sigaction(s) ==
  /\ s \notin Uncatchable
  /\ base # NULL => base.evsigevents[s] = {}
  /\ \E h \in Handlers : /\ handler' = [handler EXCEPT ![s] = h]
                         /\ wanted' = [wanted EXCEPT ![s] = h]
  /\ UNCHANGED base

SignalInit ==
  /\ base = NULL
  /\ handler \in [Signals -> {CHOOSE h \in Handlers : TRUE}]
  /\ wanted = handler

SignalNext == \/ \E ev \in SignalEvents : evsignal_add(ev) \/ evsignal_del(ev)
        \/ evsignal_dealloc \/ event_base_new
        \/ \E s \in Signals : sigaction(s)

SignalSpec == SignalInit /\ [][SignalNext]_vars

(* The loop handles exactly the signals it has events for; every other signal *)
(* has the handler the application gave it last, in whatever order events are *)
(* added and deleted, bases freed and made, and the array grown.              *)
HandlersComeBack ==
  \A s \in Signals \ Uncatchable :
    IF base # NULL /\ base.evsigevents[s] # {}
    THEN handler[s] = evsignal_handler ELSE handler[s] = wanted[s]
=============================================================================

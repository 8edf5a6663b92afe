------------------------------ MODULE DnsNames ------------------------------
(* The search through domains of evdns.c: one lookup of the application may   *)
(* become several requests, the name alone and the name with each domain of   *)
(* the list appended.  The list and ndots are a search_state that requests    *)
(* share with the resolver: evdns_search_clear gives the resolver a new one   *)
(* while requests go on with the old, evdns_search_add and ndots_set change   *)
(* the one in use.  How a request travels is the subject of DnsRequests.      *)
(*                                                                            *)
(* A name is its number of dots; the name asked for is Raw or the domain that *)
(* was appended.                                                              *)
(*                                                                            *)
(* Two machines: the search through domains, and the packets.                 *)
EXTENDS Integers, Sequences, SequencesExt, FiniteSetsExt

CONSTANTS
  Lookups,    \* lookups of the application
  Dots,       \* numbers of dots of the names it looks up
  Domains,    \* domains that can be added
  Files,      \* resolv.conf files: sequences of lines
  Hostname,   \* the domain of the host's own name, or Raw if it has none
  States,     \* the search states that can exist at a time
  MaxDomains, \* bound: length of a list
  MaxChanges, \* bound: changes of the configuration
  Raw,        \* the name without a domain
  None

VARIABLES
  global,     \* global_search_state, or None
  state,      \* state[s]: [refcount, ndots, domains], or Freed
  lookup,     \* lookup[l]: its request
  changes     \* how often the configuration was changed

search_vars == <<global, state, lookup, changes>>

FreedState == [refcount |-> 0, ndots |-> 0, domains |-> <<>>]

search_state_new == [refcount |-> 1, ndots |-> 1, domains |-> <<>>]

(* What the configuration functions work on.                                  *)
Conf == [global |-> global, state |-> state]

num_domains(s) == Len(state[s].domains)

(***************************** The search list *******************************)

search_state_decref(st, s) ==
  IF s = None THEN st
  ELSE [st EXCEPT ![s] = IF @.refcount = 1 THEN FreedState ELSE [@ EXCEPT !.refcount = @ - 1]]

Fresh(st) == CHOOSE s \in States : st[s] = FreedState

search_postfix_clear(c) ==
  LET st == search_state_decref(c.state, c.global)
  IN  [global |-> Fresh(st), state |-> [st EXCEPT ![Fresh(st)] = search_state_new]]

(* The state of the resolver, made if there is none.                          *)
Ensured(c) ==
  IF c.global # None THEN c
  ELSE [global |-> Fresh(c.state), state |-> [c.state EXCEPT ![Fresh(c.state)] = search_state_new]]

(* A domain becomes the first of the list.                                    *)
search_postfix_add(c, domain) ==
  LET e == Ensured(c) IN [e EXCEPT !.state[e.global].domains = <<domain>> \o @]

search_reverse(c) == [c EXCEPT !.state[c.global].domains = Reverse(@)]

ndots_set(c, n) == LET e == Ensured(c) IN [e EXCEPT !.state[e.global].ndots = n]

search_set_from_hostname(c) ==
  IF Hostname = Raw THEN search_postfix_clear(c)
  ELSE search_postfix_add(search_postfix_clear(c), Hostname)

(* resolv_conf_parse_line: `domain` and `search` start a new list, `options`  *)
(* sets what it names; a line is [word, domains, ndots].                      *)
search_line_Backwards(c, domains) ==
  FoldLeft(search_postfix_add, search_postfix_clear(c), domains)
search_line(c, domains) ==
  search_reverse(FoldLeft(search_postfix_add, search_postfix_clear(c), domains))

resolv_conf_parse_line(c, line) ==
  CASE line.word = "domain"  -> search_postfix_add(search_postfix_clear(c), line.domains[1])
    [] line.word = "search"  -> search_line(c, line.domains)
    [] line.word = "options" -> ndots_set(c, line.ndots)
    [] OTHER                 -> c

evdns_resolv_conf_parse(c, file) ==
  LET read == FoldLeft(resolv_conf_parse_line, c, file)
  IN  IF file = <<>> \/ read.global = None \/ read.state[read.global].domains = <<>>
      THEN search_set_from_hostname(read) ELSE read

(******************************* Requests ************************************)

(* tried: the names asked for so far; plan: the ones the list called for when *)
(* the lookup began; touched: the list was changed under it.                  *)
NoLookup == [dots |-> 0, state |-> None, search_index |-> 0, tried |-> <<>>,
             plan |-> <<>>, touched |-> FALSE, result |-> "none"]

Plan(dots, s) ==
  IF s = None THEN <<Raw>>
  ELSE IF dots >= state[s].ndots THEN <<Raw>> \o state[s].domains
  ELSE Append(state[s].domains, Raw)

(* search_make_new: the name with the n-th domain, counted from 0.            *)
search_make_new(s, n) == state[s].domains[n + 1]

search_request_new(l, dots, nosearch) ==
  /\ lookup[l].result = "none"
  /\ LET searching == ~nosearch /\ global # None /\ num_domains(global) > 0
         first == searching /\ dots < state[global].ndots
     IN  /\ lookup' = [lookup EXCEPT ![l] =
                [dots |-> dots, state |-> IF searching THEN global ELSE None,
                 search_index |-> IF first THEN 0 ELSE -1,
                 tried |-> <<IF first THEN search_make_new(global, 0) ELSE Raw>>,
                 plan |-> Plan(dots, IF searching THEN global ELSE None),
                 touched |-> FALSE, result |-> "asked"]]
         /\ state' = IF searching THEN [state EXCEPT ![global].refcount = @ + 1] ELSE state
  /\ UNCHANGED <<global, changes>>

(* The name was found: the callback gets the answer and the request ends.     *)
Found(l) ==
  /\ lookup[l].result = "asked"
  /\ lookup' = [lookup EXCEPT ![l].result = "found", ![l].state = None]
  /\ state' = search_state_decref(state, lookup[l].state)
  /\ UNCHANGED <<global, changes>>

(* It does not exist: search_try_next, which asks for the next domain, or at  *)
(* the end for the name alone if it did not begin with it, or gives up.  The  *)
(* request that is replaced drops its reference after the new one took its.   *)
TryNext_NoRaw(l) ==
  LET r == lookup[l]
      index == r.search_index + 1
      more == r.state # None /\ index < num_domains(r.state)
  IN  IF more THEN [r EXCEPT !.search_index = index, !.tried = Append(@, search_make_new(r.state, index))]
      ELSE [r EXCEPT !.result = "failed", !.state = None]
TryNext(l) ==
  LET r == lookup[l]
      index == r.search_index + 1
      more == r.state # None /\ index < num_domains(r.state)
      raw == r.state # None /\ ~more /\ r.dots < state[r.state].ndots
  IN  IF more THEN [r EXCEPT !.search_index = index, !.tried = Append(@, search_make_new(r.state, index))]
      ELSE IF raw THEN [r EXCEPT !.state = None, !.tried = Append(@, Raw)]
      ELSE [r EXCEPT !.result = "failed", !.state = None]

NotFound(l) ==
  /\ lookup[l].result = "asked"
  /\ lookup' = [lookup EXCEPT ![l] = TryNext(l)]
  /\ state' = IF TryNext(l).state = None THEN search_state_decref(state, lookup[l].state) ELSE state
  /\ UNCHANGED <<global, changes>>

(***************************** Configuration *********************************)

(* A new configuration; lookups that use a state whose contents changed are   *)
(* touched.                                                                   *)
Configure(c) ==
  /\ changes < MaxChanges
  /\ changes' = changes + 1
  /\ global' = c.global /\ state' = c.state
  /\ lookup' = [l \in Lookups |->
       LET s == lookup[l].state
       IN  IF s # None /\ (state[s].domains # c.state[s].domains \/ state[s].ndots # c.state[s].ndots)
           THEN [lookup[l] EXCEPT !.touched = TRUE] ELSE lookup[l]]

evdns_search_clear == Configure(search_postfix_clear(Conf))
evdns_search_add == \E domain \in Domains :
  /\ global # None => num_domains(global) < MaxDomains
  /\ Configure(search_postfix_add(Conf, domain))
evdns_search_ndots_set == \E n \in Dots : Configure(ndots_set(Conf, n))
ParseFile == \E file \in Files : Configure(evdns_resolv_conf_parse(Conf, file))

SearchInit ==
        /\ global = None
        /\ state = [s \in States |-> FreedState]
        /\ lookup = [l \in Lookups |-> NoLookup]
        /\ changes = 0

SearchNext ==
        \/ evdns_search_clear \/ evdns_search_add \/ evdns_search_ndots_set \/ ParseFile
        \/ \E l \in Lookups : \/ \E dots \in Dots, nosearch \in BOOLEAN : search_request_new(l, dots, nosearch)
                              \/ Found(l) \/ NotFound(l)

SearchSpec == SearchInit /\ [][SearchNext]_search_vars

(****************************** Properties ***********************************)

(* A lookup asks for the names its search list called for when it began, in   *)
(* their order and each once: the name alone first if it has ndots dots or    *)
(* more, last otherwise.  It fails only after all of them, also when the      *)
(* application clears the list or reads another file in between.  (A lookup   *)
(* whose very list is added to may repeat a domain, and one whose ndots is    *)
(* changed may ask for the plain name twice or never.)                        *)
SearchFollowsItsList ==
  \A l \in Lookups : (lookup[l].result # "none" /\ ~lookup[l].touched) =>
    /\ IsPrefix(lookup[l].tried, lookup[l].plan)
    /\ lookup[l].result = "failed" => lookup[l].tried = lookup[l].plan

(* What a file says holds after it is read: the domains of the last `search`  *)
(* or `domain` line in the order of the file.                                 *)
FileOrderIsKept ==
  \A file \in Files :
    LET lines == {i \in DOMAIN file : file[i].word \in {"search", "domain"}}
        last == CHOOSE i \in lines : \A j \in lines : j <= i
        c == evdns_resolv_conf_parse(Conf, file)
    IN  lines # {} => c.state[c.global].domains = file[last].domains

(* A search state lives as long as the resolver or a request of a lookup uses *)
(* it, and no longer.                                                         *)
StatesAreCounted ==
  \A s \in States :
    state[s].refcount = Cardinality({l \in Lookups : lookup[l].state = s})
                        + (IF global = s THEN 1 ELSE 0)
-----------------------------------------------------------------------------
(***************************************************************************)
(* The packets of evdns.c: a server formats a response with compressed     *)
(* names, the resolver parses it.  A packet is a sequence of bytes.        *)
(*                                                                         *)
(* A name is a sequence of labels, a label a non-empty sequence of bytes.  *)
(* An answer is a record [name, type, data]; data is a sequence of         *)
(* addresses ("A"), or the name it stands for ("PTR").                     *)
(***************************************************************************)

CONSTANTS
  Labels,      \* the labels of the model
  MaxName,     \* bound on the labels of a name
  Addresses,   \* addresses, as sequences of 4 bytes
  MaxAnswers,
  MAX_LABELS,  \* entries of the table of names
  MAX_ADDRS,
  Limit        \* 512: a longer response is truncated

DomainNames == UNION {[1..n -> Labels] : n \in 0..MaxName}
Header == 12
TypeCode == [A |-> 1, PTR |-> 12]

Answers ==
  [name : DomainNames, type : {"A"}, data : UNION {[1..n -> Addresses] : n \in 0..2}]
    \cup [name : DomainNames, type : {"PTR"}, data : DomainNames]

VARIABLES
  question,   \* the name and the type that is asked for
  answers,    \* the answers the application added
  packet,     \* the formatted response
  parsed      \* what the resolver makes of it

packet_vars == <<question, answers, packet, parsed>>

U16(n) == <<n \div 256, n % 256>>
Get16(p, j) == p[j + 1] * 256 + p[j + 2]
-----------------------------------------------------------------------------
(* Names in a packet.                                                      *)

\* The position a name was written at, 0 if it was not.
dnslabel_table_get_pos(table, name) ==
  LET i == {k \in DOMAIN table : table[k].name = name} IN
  IF i = {} THEN 0 ELSE table[Min(i)].pos

\* Faulty: the place remembered is the one behind the length of the label.
dnslabel_table_add_Behind(table, name, pos) ==
  IF Len(table) = MAX_LABELS THEN table ELSE Append(table, [name |-> name, pos |-> pos + 1])

dnslabel_table_add(table, name, pos) ==
  IF Len(table) = MAX_LABELS THEN table ELSE Append(table, [name |-> name, pos |-> pos])

\* A buffer with its table.  A name that was written before, from any label
\* on, is written as a pointer to that place.
RECURSIVE dnsname_to_labels(_, _)
dnsname_to_labels(b, name) ==
  LET ref == dnslabel_table_get_pos(b.table, name)
      known == dnslabel_table_add(b.table, name, Len(b.buf))
      label == Head(name) IN
  IF ref > 0 THEN [b EXCEPT !.buf = @ \o <<192 + ref \div 256, ref % 256>>]
  ELSE IF name = <<>> THEN [buf |-> Append(b.buf, 0), table |-> known]
  ELSE LET c == [buf |-> Append(b.buf, Len(label)) \o label, table |-> known] IN
       IF Len(name) = 1 THEN [c EXCEPT !.buf = Append(@, 0)]
       ELSE dnsname_to_labels(c, Tail(name))

\* From position j (0 is the first byte): the name, the position behind it,
\* and whether the packet was sound.  jumps counts the pointers followed.
RECURSIVE name_parse(_, _, _, _, _)
name_parse(p, j, jumps, end, name) ==
  IF j >= Len(p) THEN [ok |-> FALSE, name |-> name, idx |-> 0]
  ELSE LET n == p[j + 1] IN
    IF n = 0 THEN [ok |-> TRUE, name |-> name, idx |-> IF end = 0 THEN j + 1 ELSE end]
    ELSE IF n >= 64
    THEN IF j + 2 > Len(p) \/ jumps >= Len(p) THEN [ok |-> FALSE, name |-> name, idx |-> 0]
         ELSE name_parse(p, (n % 64) * 256 + p[j + 2], jumps + 1,
                         IF end = 0 THEN j + 2 ELSE end, name)
    ELSE IF j + 1 + n > Len(p) THEN [ok |-> FALSE, name |-> name, idx |-> 0]
    ELSE name_parse(p, j + 1 + n, jumps, end, Append(name, SubSeq(p, j + 2, j + 1 + n)))

ParseName(p, j) == name_parse(p, j, 0, 0, <<>>)
-----------------------------------------------------------------------------
(* evdns_server_request_format_response                                    *)

Item(b, a) ==
  LET c == dnsname_to_labels(b, a.name)
      head == c.buf \o U16(TypeCode[a.type]) \o U16(1) \o <<0, 0, 0, 10>>
      \* the length is filled in when the name is written
      d == dnsname_to_labels([c EXCEPT !.buf = head \o <<0, 0>>], a.data)
      len == Len(d.buf) - Len(head) - 2
      data == FlattenSeq(a.data) IN
  IF a.type = "PTR"
  THEN [d EXCEPT !.buf = head \o U16(len) \o SubSeq(@, Len(head) + 3, Len(@))]
  ELSE [c EXCEPT !.buf = head \o U16(Len(data)) \o data]

\* A response of more than Limit bytes is cut there, with the truncated bit.
evdns_server_request_format_response(q, as) ==
  LET empty == [i \in 1..Header |->
                  CASE i = 3 -> 128 [] i = 6 -> 1 [] i = 8 -> Len(as) [] OTHER -> 0]
      asked == dnsname_to_labels([buf |-> empty, table |-> <<>>], q.name)
      b == FoldLeft(Item, [asked EXCEPT !.buf = @ \o U16(TypeCode[q.type]) \o U16(1)], as) IN
  IF Len(b.buf) > Limit THEN [SubSeq(b.buf, 1, Limit) EXCEPT ![3] = @ + 2] ELSE b.buf
-----------------------------------------------------------------------------
(* reply_parse                                                             *)

Unparsed == [err |-> "unparsed", have |-> FALSE, data |-> <<>>]
Nothing == [err |-> "unknown", have |-> FALSE, data |-> <<>>]

\* The answers from position j on, left of them to go.
RECURSIVE ParseAnswers(_, _, _, _, _)
ParseAnswers(p, j, left, type, reply) ==
  LET n == ParseName(p, j)
      k == n.idx
      at == k + 10
      len == Get16(p, k + 8)
      copied == Min({MAX_ADDRS - Len(reply.data), len \div 4})
      addrs == [i \in 1..copied |-> SubSeq(p, at + 4 * i - 3, at + 4 * i)]
      taken == [err |-> "none", have |-> TRUE, data |-> reply.data \o addrs] IN
  IF left = 0 THEN reply
  ELSE IF ~n.ok \/ at > Len(p) THEN Nothing
  ELSE IF Get16(p, k) # TypeCode[type] THEN ParseAnswers(p, at + len, left - 1, type, reply)
  ELSE IF type = "PTR"
  THEN LET m == ParseName(p, at) IN
       IF m.ok THEN [err |-> "none", have |-> TRUE, data |-> m.name] ELSE Nothing
  ELSE IF len % 4 # 0 \/ at + 4 * copied > Len(p) THEN Nothing
  ELSE IF Len(taken.data) = MAX_ADDRS THEN taken
  ELSE ParseAnswers(p, at + 4 * copied, left - 1, type, taken)

\* The response repeats the question, so its name is the one asked for.
reply_parse(p, q) ==
  LET n == ParseName(p, Header) IN
  IF p[3] % 4 >= 2 THEN [Nothing EXCEPT !.err = "truncated"]
  ELSE IF ~n.ok \/ n.idx + 4 > Len(p) THEN Nothing
  ELSE LET r == ParseAnswers(p, n.idx + 4, p[8], q.type, [Nothing EXCEPT !.err = "none"]) IN
       IF r.have THEN r ELSE Nothing
-----------------------------------------------------------------------------
PacketInit ==
        /\ question \in [name : DomainNames, type : {"A", "PTR"}]
        /\ answers = <<>>
        /\ packet = <<>>
        /\ parsed = Unparsed

\* evdns_server_request_add_reply
AddReply(a) ==
  /\ packet = <<>> /\ Len(answers) < MaxAnswers
  /\ answers' = Append(answers, a)
  /\ UNCHANGED <<question, packet, parsed>>

Respond ==
  /\ packet = <<>>
  /\ packet' = evdns_server_request_format_response(question, answers)
  /\ UNCHANGED <<question, answers, parsed>>

Receive ==
  /\ packet # <<>> /\ parsed = Unparsed
  /\ parsed' = reply_parse(packet, question)
  /\ UNCHANGED <<question, answers, packet>>

PacketNext == (\E a \in Answers : AddReply(a)) \/ Respond \/ Receive

PacketSpec == PacketInit /\ [][PacketNext]_packet_vars
-----------------------------------------------------------------------------
(* The resolver finds in a response exactly the answers of the type it     *)
(* asked for, in their order, whatever names they were compressed with:    *)
(* the first MAX_ADDRS addresses, or the first name; an error when there   *)
(* is none, and the truncated error when the response was too long.        *)
ResponseIsUnderstood ==
  LET asked == SelectSeq(answers, LAMBDA a : a.type = question.type)
      all == FlattenSeq([i \in DOMAIN asked |-> asked[i].data])
      found == IF question.type = "PTR" THEN asked[1].data
               ELSE SubSeq(all, 1, Min({MAX_ADDRS, Len(all)})) IN
  parsed # Unparsed =>
    IF packet[3] % 4 >= 2 THEN parsed.err = "truncated" /\ Len(packet) = Limit
    ELSE IF asked = <<>> THEN parsed = Nothing
    ELSE parsed.err = "none" /\ parsed.data = found
=============================================================================

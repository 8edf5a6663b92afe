------------------------------ MODULE PtValues ------------------------------
(* The strings of ptypes: values to their users, shared buffers with a        *)
(* reference count underneath, copied when one of the holders writes.  Each   *)
(* thread works on strings of its own; only the buffers behind them are       *)
(* shared, so the counts change under a thread between the moment it reads    *)
(* one and the moment it acts on it.  An operation is therefore two steps,    *)
(* the test of the count and the rest, which touches a shared buffer only     *)
(* through its atomic count.                                                  *)
(*                                                                            *)
(* ins() of a string into itself is left out: it keeps a pointer into the     *)
(* buffer that its own setlength() may move, which concat() checks for.       *)
(*                                                                            *)
(* Two machines: the strings, and the dates.                                  *)
EXTENDS Integers, Sequences, FiniteSets, FiniteSetTheorems, TLAPS

CONSTANTS
  Threads,   \* the threads
  Strings,   \* the strings
  Owner,     \* Owner[s]: the thread whose string s is
  Chars,     \* characters
  MaxLength, \* bound: length of a string
  Garbage    \* what a freshly allocated character holds

VARIABLES
  data,      \* data[s]: the buffer of s, 0 for emptystr
  buf,       \* buf[b]: [refcount, text], or Freed
  op,        \* op[t]: what thread t is in the middle of, or Idle
  want       \* want[s]: the value s should have

string_vars == <<data, buf, op, want>>

Buffers == 1 .. Cardinality(Strings) + Cardinality(Threads)
Freed == [refcount |-> 0, text |-> <<>>]
Idle  == [kind |-> "idle"]

(* What an operation works on: the buffers and the data pointer of its string.*)
State(s) == [data |-> data[s], buf |-> buf]

Text(st) == IF st.data = 0 THEN <<>> ELSE st.buf[st.data].text
length(st) == Len(Text(st))

FreeBuffer(st) == CHOOSE b \in Buffers : st.buf[b] = Freed

(***************************** Allocation ************************************)

_alloc(st, numchars) ==
  LET b == FreeBuffer(st)
  IN  [data |-> b,
       buf |-> [st.buf EXCEPT ![b] = [refcount |-> 1,
                                      text |-> [i \in 1 .. numchars |-> Garbage]]]]

_realloc(st, numchars) ==
  [st EXCEPT !.buf[st.data].text =
     [i \in 1 .. numchars |-> IF i \in DOMAIN @ THEN @[i] ELSE Garbage]]

(* pdecrement, and the buffer is freed at zero.                               *)
Dropped(b, buffers) ==
  [buffers EXCEPT ![b] = IF @.refcount = 1 THEN Freed
                         ELSE [refcount |-> @.refcount - 1, text |-> @.text]]

initialize(st, text) ==
  IF text = <<>> THEN [st EXCEPT !.data = 0]
  ELSE LET n == _alloc(st, Len(text)) IN [n EXCEPT !.buf[n.data].text = text]

finalize(st) ==
  IF st.data = 0 THEN st ELSE [data |-> 0, buf |-> Dropped(st.data, st.buf)]

(* memmove of text over the string from position at on.                       *)
Write(st, at, text) ==
  [st EXCEPT !.buf[st.data].text =
     [i \in DOMAIN @ |-> IF i - at \in DOMAIN text THEN text[i - at] ELSE @[i]]]

(* A new buffer of that length with the beginning of the old one, which loses *)
(* this reference, and its last one if the other holders are gone by now.     *)
CopyOut_Leaks(st, newlen) ==
  LET n == _alloc(st, newlen)
      old == Text(st)
      c == Write(n, 0, SubSeq(old, 1, IF newlen < Len(old) THEN newlen ELSE Len(old)))
  IN  [c EXCEPT !.buf[st.data].refcount = @ - 1]
CopyOut(st, newlen) ==
  LET n == _alloc(st, newlen)
      old == Text(st)
      c == Write(n, 0, SubSeq(old, 1, IF newlen < Len(old) THEN newlen ELSE Len(old)))
  IN  [c EXCEPT !.buf = Dropped(st.data, @)]

(* shared is what the refcount > 1 test said when it was made.                *)
unique(st, shared) ==
  IF length(st) > 0 /\ shared THEN CopyOut(st, length(st)) ELSE st

setlength(st, newlen, shared) ==
  IF newlen = 0 THEN finalize(st)
  ELSE IF length(st) = 0 THEN _alloc(st, newlen)
  ELSE IF newlen = length(st) THEN unique(st, shared)
  ELSE IF shared THEN CopyOut(st, newlen)
  ELSE _realloc(st, newlen)

(***************************** Operations ************************************)

(* assign(const char*, int): the buffer is reused if it is nobody else's.     *)
assign_Reuses(st, text, shared) ==
  IF st.data # 0 /\ text # <<>> THEN Write(_realloc(st, Len(text)), 0, text)
  ELSE initialize(finalize(st), text)
assign(st, text, shared) ==
  IF st.data # 0 /\ text # <<>> /\ ~shared THEN Write(_realloc(st, Len(text)), 0, text)
  ELSE initialize(finalize(st), text)

(* concat: the text may be the string's own buffer, read after it has grown.  *)
concat(st, text, own, shared) ==
  LET oldlen == length(st)
      grown == setlength(st, oldlen + Len(text), shared)
  IN  IF oldlen = 0 THEN assign(st, text, shared)
      ELSE IF text = <<>> THEN st
      ELSE Write(grown, oldlen, IF own THEN SubSeq(Text(grown), 1, Len(text)) ELSE text)

ins(st, text, at, shared) ==
  LET curlen == length(st)
      grown == setlength(st, curlen + Len(text), shared)
      tail == SubSeq(Text(grown), at + 1, curlen)
  IN  IF text = <<>> THEN st
      ELSE IF curlen = 0 THEN assign(st, text, shared)
      ELSE Write(Write(grown, at + Len(text), tail), at, text)

(* del of cnt characters: the rest moves down, then the length shrinks; the   *)
(* string is nobody else's by then.                                           *)
del(st, from, cnt, shared) ==
  LET l == length(st)
      rest == SubSeq(Text(st), from + cnt + 1, l)
      u == unique(st, shared)
  IN  IF cnt < l - from THEN setlength(Write(u, from, rest), l - cnt, FALSE)
      ELSE setlength(st, from, shared)

(* copy(s, from, cnt) into a new string: the whole of s is shared.            *)
CopyText(text, from, cnt) ==
  SubSeq(text, from + 1, IF from + cnt < Len(text) THEN from + cnt ELSE Len(text))

(* c put at position i of text.                                               *)
InsertAt(text, i, c) == SubSeq(text, 1, i - 1) \o <<c>> \o SubSeq(text, i, Len(text))

(******************************** Threads ************************************)

StringInit ==
        \E b \in UNION {[1..n -> Chars] : n \in 1..MaxLength} :
          /\ data = [s \in Strings |-> 1]
          /\ buf = [i \in Buffers |-> IF i = 1 THEN [refcount |-> Cardinality(Strings), text |-> b]
                                      ELSE Freed]
          /\ op = [t \in Threads |-> Idle]
          /\ want = [s \in Strings |-> b]

Becomes(s, st) == data' = [data EXCEPT ![s] = st.data] /\ buf' = st.buf

(* The test of the count, or none: an unshared string stays unshared, since   *)
(* only its own thread could copy it.                                         *)
Begin(t, s) ==
  /\ op[t] = Idle /\ Owner[s] = t
  /\ op' = [op EXCEPT ![t] = [kind |-> "write", s |-> s,
                              shared |-> data[s] # 0 /\ buf[data[s]].refcount > 1]]
  /\ UNCHANGED <<data, buf, want>>

(* The rest of an operation that writes.                                      *)
Finish(t) ==
  /\ op[t].kind = "write"
  /\ LET s == op[t].s
         shared == op[t].shared
         st == State(s)
     IN  \/ \E c \in Chars : Becomes(s, assign(st, <<c>>, shared)) /\ want' = [want EXCEPT ![s] = <<c>>]
         \/ \E c \in Chars :
              /\ Len(want[s]) < MaxLength
              /\ Becomes(s, concat(st, <<c>>, FALSE, shared))
              /\ want' = [want EXCEPT ![s] = Append(@, c)]
         \/ \E s1 \in Strings :
              /\ Owner[s1] = t /\ Len(want[s]) + Len(want[s1]) <= MaxLength
              /\ data[s] # 0
              /\ Becomes(s, concat(st, Text(State(s1)), data[s1] = data[s], shared))
              /\ want' = [want EXCEPT ![s] = @ \o want[s1]]
         \/ \E c \in Chars, at \in 0 .. Len(want[s]) :
              /\ Len(want[s]) < MaxLength
              /\ Becomes(s, ins(st, <<c>>, at, shared))
              /\ want' = [want EXCEPT ![s] = InsertAt(@, at + 1, c)]
         \/ \E from \in 0 .. Len(want[s]) - 1, cnt \in 1 .. MaxLength :
              /\ Becomes(s, del(st, from, cnt, shared))
              /\ want' = [want EXCEPT ![s] = SubSeq(@, 1, from) \o SubSeq(@, from + cnt + 1, Len(@))]
  /\ op' = [op EXCEPT ![t] = Idle]

(* s = s1 between strings of one thread: finalize, then initialize, which is  *)
(* one more reference; nothing if they share their buffer already.            *)
AssignString(t, s, s1) ==
  /\ op[t] = Idle /\ Owner[s] = t /\ Owner[s1] = t
  /\ data[s] # data[s1]
  /\ LET st == finalize(State(s))
     IN  Becomes(s, [data |-> data[s1],
                     buf |-> IF data[s1] = 0 THEN st.buf
                             ELSE [st.buf EXCEPT ![data[s1]].refcount = @ + 1]])
  /\ want' = [want EXCEPT ![s] = want[s1]]
  /\ UNCHANGED op

(* s = copy(s1, from, cnt) of a part.                                         *)
Copy(t, s, s1) ==
  /\ op[t] = Idle /\ Owner[s] = t /\ Owner[s1] = t /\ s # s1
  /\ \E from, cnt \in 0 .. MaxLength :
       LET part == CopyText(want[s1], from, cnt)
       IN  /\ part # want[s1]
           /\ Becomes(s, initialize(finalize(State(s)), CopyText(Text(State(s1)), from, cnt)))
           /\ want' = [want EXCEPT ![s] = part]
  /\ UNCHANGED op

StringNext == \E t \in Threads :
        \/ Finish(t)
        \/ \E s \in Strings : Begin(t, s) \/ \E s1 \in Strings : AssignString(t, s, s1) \/ Copy(t, s, s1)

StringSpec == StringInit /\ [][StringNext]_string_vars

(****************************** Properties ***********************************)

(* Strings behave as values although their buffers are shared between         *)
(* threads: a write to one string never shows in another, and a buffer lives  *)
(* exactly as long as some string holds it.                                   *)
StringsAreValues ==
  /\ \A s \in Strings : Text(State(s)) = want[s]
  /\ \A b \in Buffers : buf[b].refcount = Cardinality({s \in Strings : data[s] = b})
  /\ \A b \in Buffers : buf[b].refcount = 0 => buf[b] = Freed

-----------------------------------------------------------------------------
(* Dates and times of ptypes (ptime.cxx).  A datetime counts milliseconds     *)
(* from 1 January of the year 1; here it is the pair [days, msecs] that the   *)
(* code takes apart with / and % before it does anything else.  The model     *)
(* turns a calendar day by day, as one would by hand, beside the datetime.    *)

CONSTANTS
  Years,      \* years in which the calendar starts
  MaxDays,    \* bound: days it is turned on
  Msecs       \* times of a day

VARIABLES
  dt,         \* the datetime: [days, msecs]
  today,      \* the calendar: [year, month, day, yday, wday]
  turned      \* how many days it was turned

time_vars == <<dt, today, turned>>

_msecsmax == 86400000
_daysmax == 3652059
_datetimemax == _daysmax
invdatetime == [days |-> 0, msecs |-> -1]

mkdt(days, msecs) == [days |-> days, msecs |-> msecs]
isvalid(d) == d.days >= 0 /\ d.msecs >= 0 /\ d.days < _datetimemax

(********************************** Dates ************************************)

isleapyear(year) == year > 0 /\ year % 4 = 0 /\ (year % 100 # 0 \/ year % 400 = 0)

daysinmonth(year, month) ==
  IF month < 1 \/ month > 12 THEN 0
  ELSE <<31, 28, 31, 30, 31, 30, 31, 31, 30, 31, 30, 31>>[month]
       + (IF month = 2 /\ isleapyear(year) THEN 1 ELSE 0)

(* The days of a year up to the end of a month.                               *)
daysinyear(year, month) ==
  IF month < 1 \/ month > 12 THEN 0
  ELSE <<31, 59, 90, 120, 151, 181, 212, 243, 273, 304, 334, 365>>[month]
       + (IF month > 1 /\ isleapyear(year) THEN 1 ELSE 0)

dayofweek(d) == (d.days + 1) % 7

isdatevalid(year, month, day) ==
  /\ year >= 1 /\ year <= 9999 /\ month >= 1 /\ month <= 12
  /\ day >= 1 /\ day <= daysinmonth(year, month)

encodedate(year, month, day) ==
  LET y == year - 1
  IN  IF ~isdatevalid(year, month, day) THEN invdatetime
      ELSE mkdt(day + daysinyear(year, month - 1) + y * 365
                + ((y \div 4) - (y \div 100) + (y \div 400)) - 1, 0)

d1   == 365
d4   == d1 * 4 + 1
d100 == d4 * 25 - 1
d400 == d100 * 4 + 1

(* The number of whole periods in d days and the days left: the last day of   *)
(* the longest period belongs to the fourth.                                  *)
Periods_Plain(d, period) == [t |-> d \div period, d |-> d % period]
Periods(d, period) ==
  LET t == d \div period
  IN  IF t = 4 THEN [t |-> 3, d |-> (d % period) + period] ELSE [t |-> t, d |-> d % period]

decodedate(date) ==
  LET c400 == date.days % d400
      c100 == Periods(c400, d100)
      c4   == c100.d % d4
      c1   == Periods(c4, d1)
      year == (date.days \div d400) * 400 + 1 + c100.t * 100 + (c100.d \div d4) * 4 + c1.t
      approximate == c1.d \div 29
      month == IF c1.d < daysinyear(year, approximate) THEN approximate - 1 ELSE approximate
  IN  IF date.days < 0 \/ date.days >= _daysmax THEN [year |-> 0, month |-> 0, day |-> 0]
      ELSE [year |-> year, month |-> month + 1, day |-> c1.d - daysinyear(year, month) + 1]

(********************************** Times ************************************)

istimevalid(hour, min, sec, msec) ==
  /\ hour >= 0 /\ hour < 24 /\ min >= 0 /\ min < 60
  /\ sec >= 0 /\ sec < 60 /\ msec >= 0 /\ msec < 1000

encodetime(hour, min, sec, msec) ==
  LET res == mkdt(0, hour * 3600000 + min * 60000 + sec * 1000 + msec)
  IN  IF isvalid(res) THEN res ELSE invdatetime

decodetime(t) ==
  LET m == t.msecs
  IN  IF ~isvalid(t) THEN [hour |-> 0, min |-> 0, sec |-> 0, msec |-> 0]
      ELSE [hour |-> m \div 3600000, min |-> (m % 3600000) \div 60000,
            sec |-> (m % 60000) \div 1000, msec |-> m % 1000]

(* dttotm: month and year as struct tm has them; nothing for an invalid date. *)
dttotm(d) ==
  LET date == decodedate(d)
  IN  IF date.year = 0 \/ ~isvalid(d) THEN <<>>
      ELSE [tm_year |-> date.year - 1900, tm_mon |-> date.month - 1, tm_mday |-> date.day,
            tm_yday |-> daysinyear(date.year, date.month - 1) + date.day - 1,
            tm_wday |-> dayofweek(d)]

(* now(true): the seconds since 1970 with the days before them.               *)
now(tv_sec, tv_usec) ==
  mkdt((tv_sec \div 86400) + 719162, (tv_sec % 86400) * 1000 + (tv_usec \div 1000))

(******************************* The calendar ********************************)

TimeInit ==
      \E y \in Years :
        /\ dt = encodedate(y, 1, 1)
        /\ today = [year |-> y, month |-> 1, day |-> 1, yday |-> 0, wday |-> dayofweek(dt)]
        /\ turned = 0

(* The next day: a calendar knows the lengths of the months, nothing more.    *)
NextDay ==
  /\ turned < MaxDays /\ ~(today.year = 9999 /\ today.month = 12 /\ today.day = 31)
  /\ turned' = turned + 1
  /\ dt' = [dt EXCEPT !.days = @ + 1]
  /\ today' =
       LET year == today.year
           month == today.month
           wday == (today.wday + 1) % 7
       IN  IF today.day < daysinmonth(year, month)
           THEN [year |-> year, month |-> month, day |-> today.day + 1,
                 yday |-> today.yday + 1, wday |-> wday]
           ELSE IF month < 12
           THEN [year |-> year, month |-> month + 1, day |-> 1,
                 yday |-> today.yday + 1, wday |-> wday]
           ELSE [year |-> year + 1, month |-> 1, day |-> 1, yday |-> 0, wday |-> wday]

SetTime ==
  /\ turned = 0
  /\ \E m \in Msecs : dt' = [dt EXCEPT !.msecs = m]
  /\ UNCHANGED <<today, turned>>

TimeNext == NextDay \/ SetTime

TimeSpec == TimeInit /\ [][TimeNext]_time_vars

(******************************** Properties *********************************)

(* A datetime is the date on the calendar, also on the last days of leap      *)
(* years, of centuries and of four centuries, and on the last day of 9999;    *)
(* encoding the date gives the datetime back, and so does encoding its time.  *)
(* The second 0 of Unix is midnight of 1 January 1970.                        *)
DatesAreRight ==
  /\ decodedate(dt) = [year |-> today.year, month |-> today.month, day |-> today.day]
  /\ encodedate(today.year, today.month, today.day) = [dt EXCEPT !.msecs = 0]
  /\ dttotm(dt).tm_yday = today.yday /\ dttotm(dt).tm_wday = today.wday
  /\ isvalid(dt) /\ now(0, 0) = encodedate(1970, 1, 1)
  /\ LET t == decodetime(dt)
     IN  /\ istimevalid(t.hour, t.min, t.sec, t.msec)
         /\ encodetime(t.hour, t.min, t.sec, t.msec).msecs = dt.msecs
-----------------------------------------------------------------------------
(* The proof that dates are right on every day of the 9999 years.  A year is *)
(* 400 a + 100 b + 4 c + e years after the first one; its days are counted   *)
(* and taken apart again along these parts.                                  *)

TimeAssumption ==
  /\ \A y \in Years : y \in Int /\ 1 <= y /\ y <= 9999
  /\ \A ms \in Msecs : ms \in Int /\ 0 <= ms /\ ms < _msecsmax

\* The days before the first of a year, and before a day of its year.
DaysBefore(y) ==
  (y - 1) * 365 + (((y - 1) \div 4) - ((y - 1) \div 100) + ((y - 1) \div 400))
DayOfYear(y, m, d) == daysinyear(y, m - 1) + d - 1

\* The year is 400 a + 100 b + 4 c + e years after the first one.
InParts(y, a, b, c, e) ==
  /\ y \in Int /\ a \in Int /\ b \in Int /\ c \in Int /\ e \in Int
  /\ y = 400 * a + 100 * b + 4 * c + e + 1 /\ y <= 9999
  /\ 0 <= a /\ a <= 24 /\ 0 <= b /\ b <= 3 /\ 0 <= c /\ c <= 24 /\ 0 <= e /\ e <= 3

\* The tables, month by month.
LEMMA DaysUpTo ==
  ASSUME NEW y, NEW l, l = IF isleapyear(y) THEN 1 ELSE 0
  PROVE  /\ daysinyear(y, 0) = 0 /\ daysinyear(y, 1) = 31 /\ daysinyear(y, 2) = 59 + l
         /\ daysinyear(y, 3) = 90 + l /\ daysinyear(y, 4) = 120 + l
         /\ daysinyear(y, 5) = 151 + l /\ daysinyear(y, 6) = 181 + l
         /\ daysinyear(y, 7) = 212 + l /\ daysinyear(y, 8) = 243 + l
         /\ daysinyear(y, 9) = 273 + l /\ daysinyear(y, 10) = 304 + l
         /\ daysinyear(y, 11) = 334 + l /\ daysinyear(y, 12) = 365 + l
  BY SMT DEF daysinyear

LEMMA MonthLengths ==
  ASSUME NEW y, NEW l, l = IF isleapyear(y) THEN 1 ELSE 0
  PROVE  /\ daysinmonth(y, 1) = 31 /\ daysinmonth(y, 2) = 28 + l /\ daysinmonth(y, 3) = 31
         /\ daysinmonth(y, 4) = 30 /\ daysinmonth(y, 5) = 31 /\ daysinmonth(y, 6) = 30
         /\ daysinmonth(y, 7) = 31 /\ daysinmonth(y, 8) = 31 /\ daysinmonth(y, 9) = 30
         /\ daysinmonth(y, 10) = 31 /\ daysinmonth(y, 11) = 30 /\ daysinmonth(y, 12) = 31
  BY SMT DEF daysinmonth

\* A month of the calendar.
IsMonth(m) == m \in Int /\ 1 <= m /\ m <= 12

LEMMA TwelveMonths ==
  ASSUME NEW m, IsMonth(m)
  PROVE  \/ m = 1 \/ m = 2 \/ m = 3 \/ m = 4 \/ m = 5 \/ m = 6
         \/ m = 7 \/ m = 8 \/ m = 9 \/ m = 10 \/ m = 11 \/ m = 12
  BY SMT DEF IsMonth

\* The months fill the year.
LEMMA MonthsFillTheYear ==
  ASSUME NEW y, NEW m, IsMonth(m)
  PROVE  /\ daysinyear(y, m) = daysinyear(y, m - 1) + daysinmonth(y, m)
         /\ daysinmonth(y, m) \in Int /\ daysinmonth(y, m) >= 28
         /\ daysinyear(y, m - 1) \in Int /\ daysinyear(y, m - 1) >= 0
         /\ daysinyear(y, m) \in Int /\ daysinyear(y, m) <= 366
         /\ daysinyear(y, m) = 366 => isleapyear(y)
<1>1. PICK l : l = IF isleapyear(y) THEN 1 ELSE 0
  OBVIOUS
<1>2. /\ daysinyear(y, 0) = 0 /\ daysinyear(y, 1) = 31 /\ daysinyear(y, 2) = 59 + l
      /\ daysinyear(y, 3) = 90 + l /\ daysinyear(y, 4) = 120 + l
      /\ daysinyear(y, 5) = 151 + l /\ daysinyear(y, 6) = 181 + l
      /\ daysinyear(y, 7) = 212 + l /\ daysinyear(y, 8) = 243 + l
      /\ daysinyear(y, 9) = 273 + l /\ daysinyear(y, 10) = 304 + l
      /\ daysinyear(y, 11) = 334 + l /\ daysinyear(y, 12) = 365 + l
  BY <1>1, DaysUpTo, SMT
<1>3. /\ daysinmonth(y, 1) = 31 /\ daysinmonth(y, 2) = 28 + l /\ daysinmonth(y, 3) = 31
      /\ daysinmonth(y, 4) = 30 /\ daysinmonth(y, 5) = 31 /\ daysinmonth(y, 6) = 30
      /\ daysinmonth(y, 7) = 31 /\ daysinmonth(y, 8) = 31 /\ daysinmonth(y, 9) = 30
      /\ daysinmonth(y, 10) = 31 /\ daysinmonth(y, 11) = 30 /\ daysinmonth(y, 12) = 31
  BY <1>1, MonthLengths, SMT
<1>4. (l = 0 \/ l = 1) /\ (l = 1 => isleapyear(y))
  BY <1>1, SMT
<1> QED
  BY <1>2, <1>3, <1>4, TwelveMonths, SMT

\* What a year is made of.
LEMMA Parts ==
  ASSUME NEW y \in Int, 1 <= y, y <= 9999
  PROVE  \E a, b, c, e : InParts(y, a, b, c, e)
<1> DEFINE n == y - 1
           a == n \div 400
           r == n % 400
           b == r \div 100
           s == r % 100
           c == s \div 4
           e == s % 4
<1>1. n \in Int /\ 0 <= n /\ n <= 9998 /\ y = n + 1
  BY SMT
<1> HIDE DEF n
<1>2. a \in Int /\ r \in Int /\ 0 <= a /\ a <= 24 /\ 0 <= r /\ r <= 399 /\ n = 400 * a + r
  BY <1>1, SMT
<1> HIDE DEF a, r
<1>3. b \in Int /\ s \in Int /\ 0 <= b /\ b <= 3 /\ 0 <= s /\ s <= 99 /\ r = 100 * b + s
  BY <1>2, SMT
<1> HIDE DEF b, s
<1>4. c \in Int /\ e \in Int /\ 0 <= c /\ c <= 24 /\ 0 <= e /\ e <= 3 /\ s = 4 * c + e
  BY <1>3, SMT
<1> HIDE DEF c, e
<1>5. InParts(y, a, b, c, e)
  BY <1>1, <1>2, <1>3, <1>4, SMT DEF InParts
<1> QED
  BY <1>5

\* The days before a year, and whether it is a leap year.
LEMMA PartsOfYear ==
  ASSUME NEW y, NEW a, NEW b, NEW c, NEW e, InParts(y, a, b, c, e)
  PROVE  /\ DaysBefore(y) = 146097 * a + 36524 * b + 1461 * c + 365 * e
         /\ isleapyear(y) <=> e = 3 /\ (c # 24 \/ b = 3)
<1>1. /\ (y - 1) \div 4 = 100 * a + 25 * b + c /\ (y - 1) \div 100 = 4 * a + b
      /\ (y - 1) \div 400 = a
  BY SMT DEF InParts
<1>2. DaysBefore(y) = 146097 * a + 36524 * b + 1461 * c + 365 * e
  BY <1>1, SMT DEF DaysBefore, InParts
<1>3. y % 4 = 0 <=> e = 3
  BY SMT DEF InParts
<1>4. y % 100 = 0 <=> e = 3 /\ c = 24
  BY SMT DEF InParts
<1>5. y % 400 = 0 <=> e = 3 /\ c = 24 /\ b = 3
  BY SMT DEF InParts
<1> QED
  BY <1>2, <1>3, <1>4, <1>5, SMT DEF isleapyear, InParts

\* The day is the one numbered yd, from 0, of a year in parts.
DayInParts(days, y, a, b, c, e, yd) ==
  /\ days \in Int /\ yd \in Int
  /\ InParts(y, a, b, c, e) /\ days = DaysBefore(y) + yd
  /\ 0 <= yd /\ yd <= 365 /\ (yd = 365 => isleapyear(y))

\* What decodedate makes of a day: the parts of its year and its number in it.
TakenApart(days, a, b, c, e, yd) ==
  /\ days \div d400 = a
  /\ Periods(days % d400, d100) = [t |-> b, d |-> 1461 * c + 365 * e + yd]
  /\ (1461 * c + 365 * e + yd) \div d4 = c
  /\ (1461 * c + 365 * e + yd) % d4 = 365 * e + yd
  /\ Periods(365 * e + yd, d1) = [t |-> e, d |-> yd]
  /\ 0 <= days /\ days < _daysmax

\* The day numbered yd from 0 of a year is taken apart into the parts of the
\* year and yd: the last day of the fourth century, and of a leap year, is the
\* one for which Periods corrects the quotient.
LEMMA DaysInParts ==
  ASSUME NEW y, NEW a, NEW b, NEW c, NEW e, NEW yd, NEW days,
         DayInParts(days, y, a, b, c, e, yd)
  PROVE  TakenApart(days, a, b, c, e, yd)
<1> USE DEF DayInParts, InParts
<1> y \in Int /\ a \in Int /\ b \in Int /\ c \in Int /\ e \in Int /\ days \in Int /\ yd \in Int
  OBVIOUS
<1>0. /\ InParts(y, a, b, c, e) /\ days = DaysBefore(y) + yd
      /\ 0 <= yd /\ yd <= 365 /\ (yd = 365 => isleapyear(y))
  OBVIOUS
<1> HIDE DEF DayInParts, InParts
<1>1. d400 = 146097 /\ d100 = 36524 /\ d4 = 1461 /\ d1 = 365
  BY SMT DEF d400, d100, d4, d1
<1>2. /\ days = 146097 * a + 36524 * b + 1461 * c + 365 * e + yd
      /\ yd = 365 => e = 3 /\ (c # 24 \/ b = 3)
  <2>1. /\ DaysBefore(y) = 146097 * a + 36524 * b + 1461 * c + 365 * e
        /\ isleapyear(y) <=> e = 3 /\ (c # 24 \/ b = 3)
    BY <1>0, PartsOfYear, SMT
  <2> QED
    BY <1>0, <2>1, SMT
<1> DEFINE rest == 1461 * c + 365 * e + yd
           r400 == 36524 * b + rest
<1>3. /\ rest \in Int /\ 0 <= rest /\ rest <= 36524 /\ (rest = 36524 => b = 3)
  BY <1>0, <1>2, SMT DEF InParts
<1>4. days \div 146097 = a /\ days % 146097 = r400
  BY <1>0, <1>2, <1>3, SMT DEF InParts
<1>5. rest \div 1461 = c /\ rest % 1461 = 365 * e + yd
  BY <1>0, <1>2, SMT DEF InParts
<1>6. 0 <= days /\ days < _daysmax
  <2>1. 36524 * b + 1461 * c + 365 * e + yd <= 146096
    BY <1>0, <1>2, SMT DEF InParts
  <2>2. a = 24 /\ b = 3 /\ c = 24 => e < 3
    BY <1>0, SMT DEF InParts
  <2> QED
    BY <1>0, <1>2, <2>1, <2>2, SMT DEF InParts, _daysmax
<1>7. Periods(365 * e + yd, 365) = [t |-> e, d |-> yd]
  <2>1. CASE yd = 365
    <3>1. (365 * e + yd) \div 365 = 4 /\ (365 * e + yd) % 365 = 0 /\ e = 3
      BY <1>0, <1>2, <2>1, SMT
    <3> QED
      BY <2>1, <3>1, SMT DEF Periods
  <2>2. CASE yd < 365
    <3>1. (365 * e + yd) \div 365 = e /\ (365 * e + yd) % 365 = yd /\ e # 4
      BY <1>0, <2>2, SMT DEF InParts
    <3> QED
      BY <3>1, SMT DEF Periods
  <2> QED
    BY <1>0, <2>1, <2>2, SMT
<1> HIDE DEF rest
<1>8. Periods(r400, 36524) = [t |-> b, d |-> rest]
  <2>1. CASE rest = 36524
    <3>1. r400 \div 36524 = 4 /\ r400 % 36524 = 0 /\ b = 3
      BY <1>3, <2>1, SMT
    <3> HIDE DEF r400
    <3> QED
      BY <2>1, <3>1, SMT DEF Periods
  <2>2. CASE rest < 36524
    <3>1. r400 \div 36524 = b /\ r400 % 36524 = rest /\ b # 4
      BY <1>0, <1>3, <2>2, SMT DEF InParts
    <3> HIDE DEF r400
    <3> QED
      BY <3>1, SMT DEF Periods
  <2> QED
    BY <1>3, <2>1, <2>2, SMT
<1> QED
  <2>1. Periods(days % d400, d100) = [t |-> b, d |-> rest]
    BY <1>1, <1>4, <1>8
  <2>2. Periods(365 * e + yd, d1) = [t |-> e, d |-> yd]
    BY <1>1, <1>7
  <2>3. days \div d400 = a /\ rest \div d4 = c /\ rest % d4 = 365 * e + yd
    BY <1>1, <1>4, <1>5
  <2> QED
    BY <1>6, <2>1, <2>2, <2>3 DEF rest, TakenApart

\* decodedate finds the month of the day numbered yd: dividing by 29 gives the
\* month or the one before it.
LEMMA MonthIsFound ==
  ASSUME NEW y, NEW m, IsMonth(m), NEW yd \in Int,
         daysinyear(y, m - 1) \in Int, daysinyear(y, m) \in Int,
         daysinyear(y, m - 1) <= yd, yd < daysinyear(y, m)
  PROVE  (IF yd < daysinyear(y, yd \div 29) THEN (yd \div 29) - 1 ELSE yd \div 29) = m - 1
<1> DEFINE q == yd \div 29
<1>1. PICK l : l = IF isleapyear(y) THEN 1 ELSE 0
  OBVIOUS
<1>2. l = 0 \/ l = 1
  BY <1>1, SMT
<1>3. m - 1 <= q /\ q <= m /\ q \in Int
  <2>1. /\ daysinyear(y, 0) = 0 /\ daysinyear(y, 1) = 31 /\ daysinyear(y, 2) = 59 + l
        /\ daysinyear(y, 3) = 90 + l /\ daysinyear(y, 4) = 120 + l
        /\ daysinyear(y, 5) = 151 + l /\ daysinyear(y, 6) = 181 + l
        /\ daysinyear(y, 7) = 212 + l /\ daysinyear(y, 8) = 243 + l
        /\ daysinyear(y, 9) = 273 + l /\ daysinyear(y, 10) = 304 + l
        /\ daysinyear(y, 11) = 334 + l /\ daysinyear(y, 12) = 365 + l
    BY <1>1, DaysUpTo, SMT
  <2> QED
    BY <1>2, <2>1, TwelveMonths, SMT
<1> HIDE DEF q
<1>4. (IF yd < daysinyear(y, q) THEN q - 1 ELSE q) = m - 1
  <2>1. CASE q = m
    BY <2>1, SMT DEF IsMonth
  <2>2. CASE q = m - 1
    BY <2>2, SMT DEF IsMonth
  <2> QED
    BY <1>3, <2>1, <2>2, SMT DEF IsMonth
<1> QED
  BY <1>4 DEF q

\* The date of a day is the one it was encoded from.
LEMMA DateIsDecoded ==
  ASSUME NEW y \in Int, 1 <= y, y <= 9999, NEW m, IsMonth(m),
         NEW d \in Int, 1 <= d, d <= daysinmonth(y, m), NEW date,
         date.days = DaysBefore(y) + DayOfYear(y, m, d)
  PROVE  /\ decodedate(date) = [year |-> y, month |-> m, day |-> d]
         /\ date.days \in Int /\ 0 <= date.days /\ date.days < _daysmax
<1> DEFINE yd == DayOfYear(y, m, d)
           days == date.days
<1>1. /\ daysinyear(y, m) = daysinyear(y, m - 1) + daysinmonth(y, m)
      /\ daysinyear(y, m - 1) \in Int /\ 0 <= daysinyear(y, m - 1)
      /\ daysinmonth(y, m) \in Int
      /\ daysinyear(y, m) <= 366 /\ (daysinyear(y, m) = 366 => isleapyear(y))
  BY MonthsFillTheYear, SMT
<1>2. /\ yd \in Int /\ 0 <= yd /\ yd <= 365 /\ (yd = 365 => isleapyear(y))
      /\ daysinyear(y, m - 1) <= yd /\ yd < daysinyear(y, m)
      /\ yd - daysinyear(y, m - 1) + 1 = d
  BY <1>1, SMT DEF DayOfYear
<1> HIDE DEF yd
<1>3. PICK a, b, c, e : InParts(y, a, b, c, e)
  BY Parts
<1>4. DaysBefore(y) \in Int
  BY SMT DEF DaysBefore
<1>5. days = DaysBefore(y) + yd /\ days \in Int
  BY <1>2, <1>4, SMT DEF yd
<1> HIDE DEF days
<1> DEFINE rest == 1461 * c + 365 * e + yd
<1>6. /\ days \div d400 = a
      /\ Periods(days % d400, d100) = [t |-> b, d |-> rest]
      /\ rest \div d4 = c /\ rest % d4 = 365 * e + yd
      /\ Periods(365 * e + yd, d1) = [t |-> e, d |-> yd]
      /\ 0 <= days /\ days < _daysmax
  <2>1. TakenApart(days, a, b, c, e, yd)
    <3>1. DayInParts(days, y, a, b, c, e, yd)
      BY <1>2, <1>3, <1>5, SMT DEF DayInParts
    <3> QED
      BY <3>1, DaysInParts, SMT
  <2> QED
    BY <2>1 DEF TakenApart
<1> HIDE DEF rest
<1> DEFINE c100 == Periods(days % d400, d100)
           c1 == Periods(c100.d % d4, d1)
           year == (days \div d400) * 400 + 1 + c100.t * 100 + (c100.d \div d4) * 4 + c1.t
           month == IF c1.d < daysinyear(year, c1.d \div 29) THEN (c1.d \div 29) - 1
                    ELSE c1.d \div 29
<1>7. decodedate(date) =
        IF days < 0 \/ days >= _daysmax THEN [year |-> 0, month |-> 0, day |-> 0]
        ELSE [year |-> year, month |-> month + 1,
              day |-> c1.d - daysinyear(year, month) + 1]
  BY DEF decodedate, days
<1>8. c100.t = b /\ c100.d = rest
  BY <1>6
<1> HIDE DEF c100
<1>9. c1.t = e /\ c1.d = yd
  BY <1>6, <1>8
<1> HIDE DEF c1
<1>10. year = y
  BY <1>3, <1>6, <1>8, <1>9, SMT DEF InParts
<1> HIDE DEF year
<1>11. month = m - 1
  BY <1>1, <1>2, <1>9, <1>10, MonthIsFound
<1> HIDE DEF month
<1>12. decodedate(date) = [year |-> y, month |-> m, day |-> d]
  BY <1>2, <1>5, <1>6, <1>7, <1>9, <1>10, <1>11, SMT DEF _daysmax, IsMonth
<1> QED
  BY <1>5, <1>6, <1>12 DEF days

\* encodedate counts the days before the date.
LEMMA DateIsEncoded ==
  ASSUME NEW y \in Int, 1 <= y, y <= 9999, NEW m, IsMonth(m),
         NEW d \in Int, 1 <= d, d <= daysinmonth(y, m)
  PROVE  encodedate(y, m, d) =
           [days |-> DaysBefore(y) + DayOfYear(y, m, d), msecs |-> 0]
<1>1. daysinmonth(y, m) \in Int /\ daysinyear(y, m - 1) \in Int
  BY MonthsFillTheYear, SMT
<1>2. isdatevalid(y, m, d)
  BY <1>1, SMT DEF isdatevalid, IsMonth
<1> DEFINE q == (((y - 1) \div 4) - ((y - 1) \div 100) + ((y - 1) \div 400))
<1>3. q \in Int /\ DaysBefore(y) = (y - 1) * 365 + q
  BY SMT DEF DaysBefore
<1>4. encodedate(y, m, d) =
        [days |-> d + daysinyear(y, m - 1) + (y - 1) * 365 + q - 1, msecs |-> 0]
  BY <1>2 DEF encodedate, mkdt
<1> HIDE DEF q
<1> QED
  BY <1>1, <1>3, <1>4, SMT DEF DayOfYear

\* A leap year has one day more.
LEMMA NextYear ==
  ASSUME NEW y \in Int, 1 <= y, y <= 9998
  PROVE  DaysBefore(y + 1) = DaysBefore(y) + daysinyear(y, 12)
<1>1. daysinyear(y, 12) = 365 + (IF isleapyear(y) THEN 1 ELSE 0)
  BY DaysUpTo, SMT
<1>2. PICK a, b, c, e : InParts(y, a, b, c, e)
  BY Parts, SMT
<1>3. /\ DaysBefore(y) = 146097 * a + 36524 * b + 1461 * c + 365 * e
      /\ isleapyear(y) <=> e = 3 /\ (c # 24 \/ b = 3)
  BY <1>2, PartsOfYear
<1>4. /\ y \div 4 = 100 * a + 25 * b + c + (IF e = 3 THEN 1 ELSE 0)
      /\ y \div 100 = 4 * a + b + (IF e = 3 /\ c = 24 THEN 1 ELSE 0)
      /\ y \div 400 = a + (IF e = 3 /\ c = 24 /\ b = 3 THEN 1 ELSE 0)
  BY <1>2, SMT DEF InParts
<1>5. DaysBefore(y + 1) = y * 365 + ((y \div 4) - (y \div 100) + (y \div 400))
  BY SMT DEF DaysBefore
<1> QED
  BY <1>1, <1>2, <1>3, <1>4, <1>5, SMT DEF InParts

\* The time of a day is taken apart and put together again.
LEMMA TimeIsDecoded ==
  ASSUME NEW ms \in Int, 0 <= ms, ms < _msecsmax, NEW date, date.msecs = ms, isvalid(date)
  PROVE  LET t == decodetime(date)
         IN  /\ istimevalid(t.hour, t.min, t.sec, t.msec)
             /\ encodetime(t.hour, t.min, t.sec, t.msec).msecs = ms
<1> DEFINE h == ms \div 3600000
           mi == (ms % 3600000) \div 60000
           s == (ms % 60000) \div 1000
           k == ms % 1000
<1>1. /\ h \in Int /\ 0 <= h /\ h <= 23 /\ mi \in Int /\ 0 <= mi /\ mi <= 59
      /\ s \in Int /\ 0 <= s /\ s <= 59 /\ k \in Int /\ 0 <= k /\ k <= 999
  BY SMT DEF _msecsmax
<1>2. h * 3600000 + mi * 60000 + s * 1000 + k = ms
  BY SMT
<1>3. decodetime(date) = [hour |-> h, min |-> mi, sec |-> s, msec |-> k]
  BY DEF decodetime
<1> HIDE DEF h, mi, s, k
<1>4. istimevalid(h, mi, s, k)
  BY <1>1, SMT DEF istimevalid
<1>5. encodetime(h, mi, s, k).msecs = ms
  <2>1. isvalid(mkdt(0, ms))
    BY SMT DEF isvalid, mkdt, _datetimemax, _daysmax
  <2>2. encodetime(h, mi, s, k) = mkdt(0, ms)
    BY <1>2, <2>1 DEF encodetime
  <2> QED
    BY <2>2 DEF mkdt
<1> QED
  BY <1>3, <1>4, <1>5

\* A date of the calendar, and the days before it.
OnCalendar(y, m, d) ==
  /\ y \in Int /\ 1 <= y /\ y <= 9999 /\ IsMonth(m)
  /\ d \in Int /\ 1 <= d /\ d <= daysinmonth(y, m)
DayNumber(y, m, d) == DaysBefore(y) + DayOfYear(y, m, d)

\* What the calendar shows on a date.
Shown(y, m, d) ==
  [year |-> y, month |-> m, day |-> d, yday |-> DayOfYear(y, m, d),
   wday |-> (DayNumber(y, m, d) + 1) % 7]

\* The inductive invariant: the calendar shows a date, and the datetime counts
\* the days before it.
CalendarIsKept ==
  \E y, m, d, ms :
    /\ OnCalendar(y, m, d) /\ ms \in Int /\ 0 <= ms /\ ms < _msecsmax
    /\ today = Shown(y, m, d) /\ dt = [days |-> DayNumber(y, m, d), msecs |-> ms]

LEMMA NumbersAreInts ==
  ASSUME NEW y, NEW m, NEW d, OnCalendar(y, m, d)
  PROVE  /\ daysinyear(y, m - 1) \in Int /\ daysinmonth(y, m) \in Int
         /\ daysinmonth(y, m) >= 28
         /\ daysinyear(y, m) = daysinyear(y, m - 1) + daysinmonth(y, m)
         /\ DaysBefore(y) \in Int /\ DayOfYear(y, m, d) \in Int
         /\ DayNumber(y, m, d) \in Int
<1>1. y \in Int /\ d \in Int
  BY SMT DEF OnCalendar
<1>2. /\ daysinyear(y, m - 1) \in Int /\ daysinmonth(y, m) \in Int
      /\ daysinmonth(y, m) >= 28
      /\ daysinyear(y, m) = daysinyear(y, m - 1) + daysinmonth(y, m)
  BY MonthsFillTheYear, SMT DEF OnCalendar
<1>3. DaysBefore(y) \in Int
  BY <1>1, SMT DEF DaysBefore
<1>4. DayOfYear(y, m, d) \in Int
  BY <1>1, <1>2, SMT DEF DayOfYear
<1> QED
  BY <1>2, <1>3, <1>4, SMT DEF DayNumber

\* The date after a date, as NextDay finds it, has the next number.
LEMMA NextDate ==
  ASSUME NEW y, NEW m, NEW d, OnCalendar(y, m, d)
  PROVE  /\ d < daysinmonth(y, m) =>
              /\ OnCalendar(y, m, d + 1)
              /\ DayOfYear(y, m, d + 1) = DayOfYear(y, m, d) + 1
              /\ DayNumber(y, m, d + 1) = DayNumber(y, m, d) + 1
         /\ ~(d < daysinmonth(y, m)) /\ m < 12 =>
              /\ OnCalendar(y, m + 1, 1)
              /\ DayOfYear(y, m + 1, 1) = DayOfYear(y, m, d) + 1
              /\ DayNumber(y, m + 1, 1) = DayNumber(y, m, d) + 1
         /\ ~(d < daysinmonth(y, m)) /\ ~(m < 12) /\ ~(y = 9999 /\ m = 12 /\ d = 31) =>
              /\ OnCalendar(y + 1, 1, 1)
              /\ DayOfYear(y + 1, 1, 1) = 0
              /\ DayNumber(y + 1, 1, 1) = DayNumber(y, m, d) + 1
<1>1. /\ daysinyear(y, m - 1) \in Int /\ daysinmonth(y, m) \in Int
      /\ daysinyear(y, m) = daysinyear(y, m - 1) + daysinmonth(y, m)
      /\ DaysBefore(y) \in Int /\ DayOfYear(y, m, d) \in Int
  BY NumbersAreInts
<1>2. ASSUME d < daysinmonth(y, m)
      PROVE  /\ OnCalendar(y, m, d + 1)
             /\ DayOfYear(y, m, d + 1) = DayOfYear(y, m, d) + 1
             /\ DayNumber(y, m, d + 1) = DayNumber(y, m, d) + 1
  <2>1. DayOfYear(y, m, d + 1) = DayOfYear(y, m, d) + 1
    BY <1>1, SMT DEF DayOfYear, OnCalendar
  <2>2. OnCalendar(y, m, d + 1)
    BY <1>1, <1>2, SMT DEF OnCalendar
  <2> QED
    BY <1>1, <2>1, <2>2, SMT DEF DayNumber
<1>3. ASSUME ~(d < daysinmonth(y, m)), m < 12
      PROVE  /\ OnCalendar(y, m + 1, 1)
             /\ DayOfYear(y, m + 1, 1) = DayOfYear(y, m, d) + 1
             /\ DayNumber(y, m + 1, 1) = DayNumber(y, m, d) + 1
  <2>1. (m + 1) - 1 = m /\ IsMonth(m + 1)
    BY <1>3, SMT DEF OnCalendar, IsMonth
  <2>2. DayOfYear(y, m + 1, 1) = daysinyear(y, m) + 1 - 1
    BY <2>1 DEF DayOfYear
  <2>3. DayOfYear(y, m + 1, 1) = DayOfYear(y, m, d) + 1
    BY <1>1, <1>3, <2>2, SMT DEF DayOfYear, OnCalendar
  <2>4. daysinmonth(y, m + 1) \in Int /\ 1 <= daysinmonth(y, m + 1)
    BY <2>1, MonthsFillTheYear, SMT
  <2>5. OnCalendar(y, m + 1, 1)
    BY <2>1, <2>4, SMT DEF OnCalendar
  <2> QED
    BY <1>1, <2>3, <2>5, SMT DEF DayNumber
<1>4. ASSUME ~(d < daysinmonth(y, m)), ~(m < 12), ~(y = 9999 /\ m = 12 /\ d = 31)
      PROVE  /\ OnCalendar(y + 1, 1, 1)
             /\ DayOfYear(y + 1, 1, 1) = 0
             /\ DayNumber(y + 1, 1, 1) = DayNumber(y, m, d) + 1
  <2>1. m = 12 /\ daysinmonth(y, 12) = 31 /\ daysinmonth(y + 1, 1) = 31
    BY <1>4, MonthLengths, SMT DEF OnCalendar, IsMonth
  <2>2. d = 31 /\ y \in Int /\ 1 <= y /\ y <= 9998
    BY <1>1, <1>4, <2>1, SMT DEF OnCalendar
  <2>3. DaysBefore(y + 1) = DaysBefore(y) + daysinyear(y, 12)
    BY <2>2, NextYear, SMT
  <2>4. daysinyear(y + 1, 0) = 0
    BY DaysUpTo, SMT
  <2>5. DayOfYear(y + 1, 1, 1) = 0
    BY <2>4, SMT DEF DayOfYear
  <2>6. DayOfYear(y, m, d) + 1 = daysinyear(y, 12)
    BY <1>1, <2>1, <2>2, SMT DEF DayOfYear
  <2>7. OnCalendar(y + 1, 1, 1)
    BY <2>1, <2>2, SMT DEF OnCalendar, IsMonth
  <2> QED
    BY <1>1, <2>3, <2>5, <2>6, <2>7, SMT DEF DayNumber
<1> QED
  BY <1>2, <1>3, <1>4, SMT

LEMMA CalendarStarts ==
  ASSUME TimeAssumption, TimeInit
  PROVE  CalendarIsKept
<1>1. PICK y \in Years :
        /\ dt = encodedate(y, 1, 1)
        /\ today = [year |-> y, month |-> 1, day |-> 1, yday |-> 0, wday |-> dayofweek(dt)]
  BY DEF TimeInit
<1>2. y \in Int /\ 1 <= y /\ y <= 9999
  BY SMT DEF TimeAssumption
<1>3. daysinmonth(y, 1) = 31 /\ daysinyear(y, 0) = 0
  BY MonthLengths, DaysUpTo, SMT
<1>4. OnCalendar(y, 1, 1)
  BY <1>2, <1>3, SMT DEF OnCalendar, IsMonth
<1>5. DayOfYear(y, 1, 1) = 0
  BY <1>3, SMT DEF DayOfYear
<1>6. dt = [days |-> DayNumber(y, 1, 1), msecs |-> 0]
  BY <1>1, <1>2, <1>3, <1>4, DateIsEncoded, SMT DEF DayNumber, OnCalendar
<1>7. today = Shown(y, 1, 1)
  BY <1>1, <1>5, <1>6 DEF Shown, dayofweek
<1>8. 0 \in Int /\ 0 <= 0 /\ 0 < _msecsmax
  BY SMT DEF _msecsmax
<1> QED
  BY <1>4, <1>6, <1>7, <1>8, Zenon DEF CalendarIsKept

\* One day on, the calendar shows the next date.
LEMMA NextDayKeeps ==
  ASSUME CalendarIsKept, NextDay
  PROVE  CalendarIsKept'
<1>1. PICK y, m, d, ms :
        /\ OnCalendar(y, m, d) /\ ms \in Int /\ 0 <= ms /\ ms < _msecsmax
        /\ today = Shown(y, m, d) /\ dt = [days |-> DayNumber(y, m, d), msecs |-> ms]
  BY Zenon DEF CalendarIsKept
<1>2. PICK n \in Int : n = DayNumber(y, m, d)
  BY <1>1, NumbersAreInts
<1>3. PICK yd : yd = DayOfYear(y, m, d)
  OBVIOUS
<1>4. today = [year |-> y, month |-> m, day |-> d, yday |-> yd, wday |-> (n + 1) % 7]
  BY <1>1, <1>2, <1>3 DEF Shown
<1>5. dt' = [days |-> n + 1, msecs |-> ms]
  BY <1>1, <1>2 DEF NextDay
<1>6. (((n + 1) % 7) + 1) % 7 = (n + 1 + 1) % 7
  BY SMT
<1>7. /\ today.year = y /\ today.month = m /\ today.day = d /\ today.yday = yd
      /\ today.wday = (n + 1) % 7
  BY <1>4
<1>8. ~(y = 9999 /\ m = 12 /\ d = 31)
  BY <1>7, SMT DEF NextDay
<1> DEFINE w == (n + 1 + 1) % 7
<1>9. today' = IF d < daysinmonth(y, m)
               THEN [year |-> y, month |-> m, day |-> d + 1, yday |-> yd + 1, wday |-> w]
               ELSE IF m < 12
               THEN [year |-> y, month |-> m + 1, day |-> 1, yday |-> yd + 1, wday |-> w]
               ELSE [year |-> y + 1, month |-> 1, day |-> 1, yday |-> 0, wday |-> w]
  <2>1. (today.wday + 1) % 7 = w
    BY <1>6, <1>7
  <2> HIDE DEF w
  <2> QED
    BY <1>7, <2>1, SMT DEF NextDay
<1> HIDE DEF w
<1>10. SUFFICES \E y1, m1, d1_ : /\ OnCalendar(y1, m1, d1_) /\ today' = Shown(y1, m1, d1_)
                                /\ n + 1 = DayNumber(y1, m1, d1_)
  BY <1>1, <1>5, <1>10 DEF CalendarIsKept
<1>11. CASE d < daysinmonth(y, m)
  <2>1. today' = [year |-> y, month |-> m, day |-> d + 1, yday |-> yd + 1,
                  wday |-> w]
    BY <1>11, <1>9
  <2>2. /\ OnCalendar(y, m, d + 1) /\ DayOfYear(y, m, d + 1) = yd + 1
        /\ DayNumber(y, m, d + 1) = n + 1
    BY <1>1, <1>2, <1>3, <1>11, NextDate
  <2> QED
    BY <2>1, <2>2 DEF Shown, w
<1>12. CASE ~(d < daysinmonth(y, m)) /\ m < 12
  <2>1. today' = [year |-> y, month |-> m + 1, day |-> 1, yday |-> yd + 1,
                  wday |-> w]
    BY <1>12, <1>9
  <2>2. /\ OnCalendar(y, m + 1, 1) /\ DayOfYear(y, m + 1, 1) = yd + 1
        /\ DayNumber(y, m + 1, 1) = n + 1
    BY <1>1, <1>2, <1>3, <1>12, NextDate
  <2> QED
    BY <2>1, <2>2 DEF Shown, w
<1>13. CASE ~(d < daysinmonth(y, m)) /\ ~(m < 12)
  <2>1. today' = [year |-> y + 1, month |-> 1, day |-> 1, yday |-> 0,
                  wday |-> w]
    BY <1>13, <1>9
  <2>2. /\ OnCalendar(y + 1, 1, 1) /\ DayOfYear(y + 1, 1, 1) = 0
        /\ DayNumber(y + 1, 1, 1) = n + 1
    BY <1>1, <1>2, <1>8, <1>13, NextDate
  <2> QED
    BY <2>1, <2>2 DEF Shown, w
<1> QED
  BY <1>11, <1>12, <1>13, Zenon

LEMMA SetTimeKeeps ==
  ASSUME TimeAssumption, CalendarIsKept, SetTime
  PROVE  CalendarIsKept'
<1>1. PICK y, m, d, ms :
        /\ OnCalendar(y, m, d) /\ ms \in Int /\ 0 <= ms /\ ms < _msecsmax
        /\ today = Shown(y, m, d) /\ dt = [days |-> DayNumber(y, m, d), msecs |-> ms]
  BY Zenon DEF CalendarIsKept
<1>2. PICK ms1 \in Msecs : dt' = [dt EXCEPT !.msecs = ms1]
  BY Zenon DEF SetTime
<1>3. ms1 \in Int /\ 0 <= ms1 /\ ms1 < _msecsmax
  BY SMT DEF TimeAssumption
<1>4. dt' = [days |-> DayNumber(y, m, d), msecs |-> ms1]
  BY <1>1, <1>2
<1>5. today' = Shown(y, m, d)
  BY <1>1 DEF SetTime
<1> QED
  BY <1>1, <1>3, <1>4, <1>5, Zenon DEF CalendarIsKept

LEMMA CalendarGivesDates ==
  ASSUME CalendarIsKept
  PROVE  DatesAreRight
<1>1. PICK y, m, d, ms :
        /\ OnCalendar(y, m, d) /\ ms \in Int /\ 0 <= ms /\ ms < _msecsmax
        /\ today = Shown(y, m, d) /\ dt = [days |-> DayNumber(y, m, d), msecs |-> ms]
  BY Zenon DEF CalendarIsKept
<1>2. /\ today.year = y /\ today.month = m /\ today.day = d
      /\ today.yday = DayOfYear(y, m, d) /\ today.wday = (DayNumber(y, m, d) + 1) % 7
      /\ dt.days = DayNumber(y, m, d) /\ dt.msecs = ms
  BY <1>1 DEF Shown
<1>3. /\ decodedate(dt) = [year |-> y, month |-> m, day |-> d]
      /\ dt.days \in Int /\ 0 <= dt.days /\ dt.days < _daysmax
  <2>1. dt.days = DaysBefore(y) + DayOfYear(y, m, d)
    BY <1>2 DEF DayNumber
  <2> QED
    BY <1>1, <2>1, DateIsDecoded DEF OnCalendar
<1>4. encodedate(y, m, d) = [dt EXCEPT !.msecs = 0]
  <2>1. encodedate(y, m, d) = [days |-> DayNumber(y, m, d), msecs |-> 0]
    BY <1>1, DateIsEncoded DEF OnCalendar, DayNumber
  <2> QED
    BY <1>1, <2>1
<1>5. isvalid(dt)
  BY <1>1, <1>2, <1>3, SMT DEF isvalid, _datetimemax, _daysmax
<1>6. dttotm(dt).tm_yday = today.yday /\ dttotm(dt).tm_wday = today.wday
  <2>1. decodedate(dt).year # 0
    BY <1>1, <1>3, SMT DEF OnCalendar
  <2> QED
    BY <1>2, <1>3, <1>5, <2>1 DEF dttotm, DayOfYear, dayofweek
<1>7. now(0, 0) = encodedate(1970, 1, 1)
  <2>1. daysinmonth(1970, 1) = 31 /\ daysinyear(1970, 0) = 0
    BY MonthLengths, DaysUpTo, SMT
  <2>2. encodedate(1970, 1, 1) =
          [days |-> DaysBefore(1970) + DayOfYear(1970, 1, 1), msecs |-> 0]
    BY <2>1, DateIsEncoded, SMT DEF IsMonth
  <2>3. DaysBefore(1970) = 719162
    BY SMT DEF DaysBefore
  <2>4. DayOfYear(1970, 1, 1) = 0
    BY <2>1, SMT DEF DayOfYear
  <2> QED
    BY <2>2, <2>3, <2>4, SMT DEF now, mkdt
<1>8. LET t == decodetime(dt)
      IN  /\ istimevalid(t.hour, t.min, t.sec, t.msec)
          /\ encodetime(t.hour, t.min, t.sec, t.msec).msecs = dt.msecs
  BY <1>1, <1>2, <1>5, TimeIsDecoded
<1>9. /\ decodedate(dt) = [year |-> today.year, month |-> today.month, day |-> today.day]
      /\ encodedate(today.year, today.month, today.day) = [dt EXCEPT !.msecs = 0]
  BY <1>2, <1>3, <1>4
<1> QED
  BY <1>5, <1>6, <1>7, <1>8, <1>9, SMT DEF DatesAreRight

(* On every day from the first of any year to the last of 9999, and at every *)
(* time of day, decodedate, encodedate, dttotm, decodetime and encodetime    *)
(* agree with a calendar that only knows the lengths of the months.          *)
THEOREM DatesAreAlwaysRight ==
  ASSUME TimeAssumption
  PROVE  TimeSpec => []DatesAreRight
<1>1. TimeInit => CalendarIsKept
  BY CalendarStarts
<1>2. CalendarIsKept /\ [TimeNext]_time_vars => CalendarIsKept'
  <2>1. ASSUME CalendarIsKept, UNCHANGED time_vars
        PROVE  CalendarIsKept'
    BY <2>1, Zenon DEF CalendarIsKept, time_vars
  <2> QED
    BY <2>1, NextDayKeeps, SetTimeKeeps, Zenon DEF TimeNext
<1>3. CalendarIsKept => DatesAreRight
  BY CalendarGivesDates
<1> QED
  BY <1>1, <1>2, <1>3, PTL DEF TimeSpec
-----------------------------------------------------------------------------
(* The proof that strings are values.  A string that a thread is about to  *)
(* write to, and whose count said that it was not shared, is still the     *)
(* only one of its buffer; one whose count said that it was shared may be  *)
(* the only one by now, and its old buffer is freed then.                  *)

StringAssumption ==
  /\ IsFiniteSet(Strings) /\ Strings # {} /\ IsFiniteSet(Threads) /\ Threads # {}
  /\ MaxLength \in Nat

Holders(b) == {s \in Strings : data[s] = b}

Texts == Seq(Chars \cup {Garbage})
Stores == [Buffers -> [refcount : Nat, text : Texts]]

Typed ==
  /\ data \in [Strings -> Buffers \cup {0}]
  /\ buf \in Stores
  /\ want \in [Strings -> Seq(Chars)]
  /\ op \in [Threads -> {Idle} \cup [kind : {"write"}, s : Strings, shared : BOOLEAN]]

Counted ==
  \A b \in Buffers : /\ buf[b].refcount = Cardinality(Holders(b))
                     /\ Holders(b) = {} => buf[b] = Freed

Valued ==
  \A s \in Strings : IF data[s] = 0 THEN want[s] = <<>>
                     ELSE want[s] # <<>> /\ buf[data[s]].text = want[s]

\* A thread writes to a string of its own, and knows when it holds it alone.
Tested ==
  \A t \in Threads :
    op[t] # Idle => /\ Owner[op[t].s] = t
                    /\ ~op[t].shared /\ data[op[t].s] # 0 =>
                         Holders(data[op[t].s]) = {op[t].s}

StringInv == Typed /\ Counted /\ Valued /\ Tested

\* The buffers when s has let go of its own.
Left(s) == IF data[s] = 0 THEN buf ELSE Dropped(data[s], buf)

\* There is always a buffer that nobody holds.
LEMMA SomeBufferIsFree ==
  ASSUME StringAssumption, StringInv
  PROVE  \E b \in Buffers : Holders(b) = {} /\ buf[b] = Freed
<1> SUFFICES ASSUME \A b \in Buffers : Holders(b) # {} PROVE FALSE
  BY Zenon DEF StringInv, Counted
<1> DEFINE f == [b \in Buffers |-> CHOOSE s \in Strings : data[s] = b]
           n == Cardinality(Strings) + Cardinality(Threads)
<1>1. ASSUME NEW b \in Buffers PROVE f[b] \in Strings /\ data[f[b]] = b
  <2>1. \E s \in Strings : data[s] = b
    BY DEF Holders
  <2> QED
    BY <2>1, Zenon
<1>2. f \in [Buffers -> Strings]
  BY <1>1
<1>3. /\ Cardinality(Strings) \in Nat /\ Cardinality(Threads) \in Nat
      /\ Cardinality(Threads) # 0 /\ IsFiniteSet(Strings)
  BY FS_CardinalityType, FS_EmptySet DEF StringAssumption
<1>4. n \in Nat /\ Cardinality(Strings) < n
  BY <1>3
<1>5. Buffers = 1..n
  BY DEF Buffers
<1> HIDE DEF f, n
<1>6. IsFiniteSet(Buffers) /\ Cardinality(Buffers) = n
  BY <1>4, <1>5, FS_Interval
<1>7. \E x, y \in Buffers : x # y /\ f[x] = f[y]
  BY <1>2, <1>3, <1>4, <1>6, FS_PigeonHole
<1> QED
  BY <1>1, <1>7, Zenon

\* What is left keeps its counts and its texts.
LEMMA LeftIsCounted ==
  ASSUME StringAssumption, StringInv, NEW s \in Strings
  PROVE  /\ Left(s) \in Stores
         /\ \A b \in Buffers :
              /\ Left(s)[b].refcount = Cardinality(Holders(b) \ {s})
              /\ Holders(b) \ {s} = {} => Left(s)[b] = Freed
              /\ Holders(b) \ {s} # {} => Left(s)[b].text = buf[b].text
<1>1. /\ data[s] \in Buffers \cup {0} /\ buf \in Stores
      /\ \A b \in Buffers : buf[b].refcount \in Nat /\ buf[b].text \in Texts
      /\ \A b \in Buffers : /\ buf[b].refcount = Cardinality(Holders(b))
                            /\ Holders(b) = {} => buf[b] = Freed
  BY DEF StringInv, Typed, Counted, Stores
<1>2. \A b \in Buffers : b # 0
  BY DEF Buffers
<1>3. \A b \in Buffers : IsFiniteSet(Holders(b))
  BY FS_Subset DEF StringAssumption, Holders
<1>4. CASE data[s] = 0
  <2>1. Left(s) = buf
    BY <1>4 DEF Left
  <2>2. \A b \in Buffers : Holders(b) \ {s} = Holders(b)
    BY <1>2, <1>4 DEF Holders
  <2> QED
    BY <1>1, <2>1, <2>2, Zenon
<1>5. CASE data[s] # 0
  <2> DEFINE d == data[s]
             gone == IF buf[d].refcount = 1 THEN Freed
                     ELSE [refcount |-> buf[d].refcount - 1, text |-> buf[d].text]
  <2>1. d \in Buffers /\ s \in Holders(d)
    BY <1>1, <1>5 DEF Holders
  <2>2. Left(s) = [buf EXCEPT ![d] = gone]
    BY <1>5 DEF Left, Dropped
  <2>3. /\ Cardinality(Holders(d)) \in Nat /\ IsFiniteSet(Holders(d) \ {s})
        /\ Cardinality(Holders(d) \ {s}) = Cardinality(Holders(d)) - 1
        /\ Cardinality(Holders(d) \ {s}) \in Nat
    BY <1>3, <2>1, FS_RemoveElement, FS_CardinalityType
  <2>4. Cardinality(Holders(d) \ {s}) = 0 <=> Holders(d) \ {s} = {}
    BY <2>3, FS_EmptySet
  <2>5. buf[d].refcount = Cardinality(Holders(d)) /\ buf[d] \in [refcount : Nat, text : Texts]
    BY <1>1, <2>1 DEF Stores
  <2>6. gone \in [refcount : Nat, text : Texts]
    <3>1. Freed \in [refcount : Nat, text : Texts]
      BY DEF Freed, Texts
    <3> QED
      BY <2>3, <2>5, <3>1
  <2>7. /\ gone.refcount = Cardinality(Holders(d) \ {s})
        /\ Holders(d) \ {s} = {} => gone = Freed
        /\ Holders(d) \ {s} # {} => gone.text = buf[d].text
    BY <2>3, <2>4, <2>5 DEF Freed
  <2> HIDE DEF gone
  <2>8. /\ Left(s) \in Stores /\ Left(s)[d] = gone
        /\ \A b \in Buffers : b # d => Left(s)[b] = buf[b]
    BY <1>1, <2>1, <2>2, <2>6 DEF Stores
  <2>9. \A b \in Buffers : b # d => Holders(b) \ {s} = Holders(b)
    BY DEF Holders
  <2> QED
    BY <1>1, <2>7, <2>8, <2>9, Zenon
<1> QED
  BY <1>4, <1>5, Zenon

\* R is the string s alone with a buffer that holds X.
Holds(s, R, X) ==
  /\ R \in [data : Buffers, buf : Stores] /\ X \in Texts /\ X # <<>>
  /\ Left(s)[R.data] = Freed
  /\ R.buf = [Left(s) EXCEPT ![R.data] = [refcount |-> 1, text |-> X]]

\* A string alone in its buffer holds it already.
LEMMA AloneHolds ==
  ASSUME StringAssumption, StringInv, NEW s \in Strings, data[s] # 0, Holders(data[s]) = {s}
  PROVE  Holds(s, State(s), want[s])
<1> DEFINE d == data[s]
<1>1. d \in Buffers /\ buf \in Stores /\ Left(s) \in Stores
  BY LeftIsCounted DEF StringInv, Typed
<1>2. buf[d].refcount = 1 /\ buf[d].text = want[s] /\ want[s] # <<>>
  <2>1. Cardinality({s}) = 1
    BY FS_Singleton, Zenon
  <2> QED
    BY <1>1, <2>1, Zenon DEF StringInv, Counted, Valued
<1>3. buf[d] \in [refcount : Nat, text : Texts]
  BY <1>1 DEF Stores
<1>4. buf[d] = [refcount |-> 1, text |-> want[s]] /\ want[s] \in Texts
  BY <1>2, <1>3
<1>5. Left(s) = [buf EXCEPT ![d] = Freed]
  BY <1>2 DEF Left, Dropped
<1>6. buf = [Left(s) EXCEPT ![d] = [refcount |-> 1, text |-> want[s]]] /\ Left(s)[d] = Freed
  BY <1>1, <1>4, <1>5, Zenon DEF Stores
<1>7. State(s) = [data |-> d, buf |-> buf]
  BY DEF State
<1> QED
  BY <1>1, <1>2, <1>4, <1>6, <1>7 DEF Holds

\* _alloc: a fresh buffer, of which no character is written.
LEMMA AllocHolds ==
  ASSUME StringAssumption, StringInv, NEW s \in Strings, NEW STATE n, n \in Nat, n # 0,
         NEW STATE st, st.buf = Left(s)
  PROVE  Holds(s, _alloc(st, n), [i \in 1..n |-> Garbage])
<1> DEFINE b == FreeBuffer(st)
           X == [i \in 1..n |-> Garbage]
<1>1. Left(s) \in Stores
  BY LeftIsCounted
<1>2. \E c \in Buffers : Left(s)[c] = Freed
  <2>1. PICK c \in Buffers : Holders(c) = {}
    BY SomeBufferIsFree, Zenon
  <2>2. Holders(c) \ {s} = {}
    BY <2>1
  <2> QED
    BY <2>2, LeftIsCounted, Zenon
<1>3. b \in Buffers /\ Left(s)[b] = Freed
  BY <1>2, Zenon DEF FreeBuffer
<1> HIDE DEF b
<1>4. X \in Texts /\ X # <<>>
  <2>1. X \in Texts /\ Len(X) = n
    BY DEF Texts
  <2> QED
    BY <2>1
<1> HIDE DEF X
<1>5. _alloc(st, n) = [data |-> b, buf |-> [Left(s) EXCEPT ![b] = [refcount |-> 1, text |-> X]]]
  BY DEF _alloc, b, X
<1>6. [Left(s) EXCEPT ![b] = [refcount |-> 1, text |-> X]] \in Stores
  BY <1>1, <1>3, <1>4 DEF Stores
<1>7. Holds(s, _alloc(st, n), X)
  BY <1>3, <1>4, <1>5, <1>6 DEF Holds
<1> QED
  BY <1>7 DEF X

\* A text in a buffer of another length, the new characters undefined, and
\* over which another text was written.
Resized(X, n) == [i \in 1..n |-> IF i \in DOMAIN X THEN X[i] ELSE Garbage]
Written(X, at, text) ==
  [i \in DOMAIN X |-> IF i - at \in DOMAIN text THEN text[i - at] ELSE X[i]]

\* What holding a buffer says of it.
LEMMA HeldText ==
  ASSUME StringAssumption, StringInv, NEW s \in Strings, NEW STATE R, NEW STATE X, Holds(s, R, X)
  PROVE  /\ R = [data |-> R.data, buf |-> R.buf] /\ R.data \in Buffers /\ R.buf \in Stores
         /\ R.buf[R.data] = [refcount |-> 1, text |-> X] /\ Text(R) = X
         /\ R.buf[R.data].text = X /\ X \in Texts /\ X # <<>>
         /\ R.buf = [Left(s) EXCEPT ![R.data] = [refcount |-> 1, text |-> X]]
         /\ Left(s) \in Stores /\ Left(s)[R.data] = Freed
<1>1. R \in [data : Buffers, buf : Stores] /\ Left(s) \in Stores
  BY LeftIsCounted DEF Holds
<1>2. R.data \in Buffers /\ R.data # 0
  BY <1>1 DEF Buffers
<1>3. R.buf[R.data] = [refcount |-> 1, text |-> X]
  BY <1>1, <1>2 DEF Holds, Stores
<1>4. R.buf[R.data].text = X
  BY <1>3
<1>5. /\ X \in Texts /\ X # <<>> /\ Left(s)[R.data] = Freed
      /\ R.buf = [Left(s) EXCEPT ![R.data] = [refcount |-> 1, text |-> X]]
  BY Zenon DEF Holds
<1>6. R = [data |-> R.data, buf |-> R.buf] /\ R.buf \in Stores
  BY <1>1
<1>7. Text(R) = X
  BY <1>2, <1>4 DEF Text
<1> QED
  BY <1>1, <1>2, <1>3, <1>4, <1>5, <1>6, <1>7, Zenon, ZenonT(30)

\* Any other text can take its place.
LEMMA TextReplaced ==
  ASSUME StringAssumption, StringInv, NEW s \in Strings, NEW STATE R, NEW STATE X, Holds(s, R, X),
         NEW STATE Y, Y \in Texts, Y # <<>>
  PROVE  Holds(s, [R EXCEPT !.buf[R.data].text = Y], Y)
<1> DEFINE r == R.data
           Q == [R EXCEPT !.buf[R.data].text = Y]
           new == [refcount |-> 1, text |-> Y]
<1>1. /\ R = [data |-> r, buf |-> R.buf] /\ r \in Buffers /\ R.buf \in Stores
      /\ R.buf[r] = [refcount |-> 1, text |-> X] /\ Left(s) \in Stores
      /\ R.buf = [Left(s) EXCEPT ![r] = [refcount |-> 1, text |-> X]] /\ Left(s)[r] = Freed
  BY HeldText, Zenon, ZenonT(30)
<1>2. Q = [R EXCEPT !.buf = [R.buf EXCEPT ![r] = [R.buf[r] EXCEPT !.text = Y]]]
  OBVIOUS
<1>3. [R.buf[r] EXCEPT !.text = Y] = new
  BY <1>1
<1>4. [R.buf EXCEPT ![r] = new] = [Left(s) EXCEPT ![r] = new]
  BY <1>1, Zenon DEF Stores
<1>5. [Left(s) EXCEPT ![r] = new] \in Stores
  BY <1>1 DEF Stores
<1>6. Q = [data |-> r, buf |-> [Left(s) EXCEPT ![r] = new]]
  BY <1>1, <1>2, <1>3, <1>4
<1> HIDE DEF Q
<1>7. Holds(s, Q, Y)
  BY <1>1, <1>5, <1>6 DEF Holds
<1> QED
  BY <1>7 DEF Q

\* _realloc keeps what fits.
LEMMA ReallocHolds ==
  ASSUME StringAssumption, StringInv, NEW s \in Strings, NEW STATE R, NEW STATE X, Holds(s, R, X),
         NEW STATE n, n \in Nat, n # 0
  PROVE  Holds(s, _realloc(R, n), Resized(X, n))
<1>1. X \in Texts /\ R.buf[R.data].text = X
  BY HeldText, Zenon
<1>2. Resized(X, n) \in Texts /\ Len(Resized(X, n)) = n
  BY <1>1 DEF Resized, Texts
<1>3. Resized(X, n) # <<>>
  BY <1>2
<1>4. _realloc(R, n) = [R EXCEPT !.buf[R.data].text = Resized(X, n)]
  BY <1>1 DEF _realloc, Resized
<1> QED
  BY <1>2, <1>3, <1>4, TextReplaced

\* Writing into the buffer changes no length.
LEMMA WriteHolds ==
  ASSUME StringAssumption, StringInv, NEW s \in Strings, NEW STATE R, NEW STATE X, Holds(s, R, X),
         NEW STATE at, at \in Nat, NEW STATE text, text \in Texts
  PROVE  /\ Holds(s, Write(R, at, text), Written(X, at, text))
         /\ Len(Written(X, at, text)) = Len(X)
         /\ Written(X, at, text) \in Texts
<1>1. X \in Texts /\ X # <<>> /\ R.buf[R.data].text = X
  BY HeldText, Zenon
<1>2. Written(X, at, text) \in Texts /\ Len(Written(X, at, text)) = Len(X)
  <2>1. DOMAIN X = 1..Len(X) /\ Len(X) \in Nat
    BY <1>1 DEF Texts
  <2>2. \A i \in 1..Len(X) : X[i] \in Chars \cup {Garbage}
    BY <1>1 DEF Texts
  <2>3. \A i \in DOMAIN text : text[i] \in Chars \cup {Garbage}
    BY DEF Texts
  <2>4. \A i \in 1..Len(X) : Written(X, at, text)[i] \in Chars \cup {Garbage}
    BY <2>1, <2>2, <2>3, Zenon DEF Written
  <2>5. Written(X, at, text) \in [1..Len(X) -> Chars \cup {Garbage}]
    BY <2>1, <2>4, Zenon DEF Written
  <2> QED
    BY <2>1, <2>5 DEF Texts
<1>3. Written(X, at, text) # <<>>
  <2>1. Len(X) # 0
    BY <1>1 DEF Texts
  <2> QED
    BY <1>2, <2>1
<1>4. Write(R, at, text) = [R EXCEPT !.buf[R.data].text = Written(X, at, text)]
  BY <1>1 DEF Write, Written
<1> QED
  BY <1>2, <1>3, <1>4, TextReplaced

\* A part of a sequence has the elements at its places.
LEMMA PartProperties ==
  ASSUME NEW S, NEW q, NEW m \in Int, NEW n \in Int, \A i \in m..n : q[i] \in S
  PROVE  /\ SubSeq(q, m, n) \in Seq(S)
         /\ Len(SubSeq(q, m, n)) = IF m <= n THEN n - m + 1 ELSE 0
         /\ \A i \in 1..n - m + 1 : SubSeq(q, m, n)[i] = q[m + i - 1]
<1>1. SubSeq(q, m, n) \in Seq(S)
  BY SMT
<1>2. /\ Len(SubSeq(q, m, n)) = IF m <= n THEN n - m + 1 ELSE 0
      /\ \A i \in 1..n - m + 1 : SubSeq(q, m, n)[i] = q[m + i - 1]
  BY SMT
<1> QED
  BY <1>1, <1>2

\* The first n characters of the string, copied into a buffer of that length.
LEMMA CopyHolds ==
  ASSUME StringAssumption, StringInv, NEW s \in Strings, data[s] # 0,
         NEW STATE n, n \in Nat, n # 0
  PROVE  \E X \in Texts : /\ Holds(s, CopyOut(State(s), n), X) /\ Len(X) = n
                          /\ \A i \in 1..n : i <= Len(want[s]) => X[i] = want[s][i]
<1> DEFINE d == data[s]
           w == want[s]
           st == State(s)
           b == FreeBuffer(st)
           G == [i \in 1..n |-> Garbage]
           k == IF n < Len(w) THEN n ELSE Len(w)
           old == SubSeq(w, 1, k)
           X == Written(G, 0, old)
           new == [refcount |-> 1, text |-> X]
           gone == IF buf[d].refcount = 1 THEN Freed
                   ELSE [refcount |-> buf[d].refcount - 1, text |-> buf[d].text]
<1>1. /\ d \in Buffers /\ buf \in Stores /\ buf[d].text = w /\ w # <<>> /\ w \in Seq(Chars)
      /\ buf[d].refcount = Cardinality(Holders(d)) /\ Left(s) \in Stores
  BY LeftIsCounted DEF StringInv, Typed, Counted, Valued
<1>2. buf[d] # Freed
  <2>1. buf[d].text # Freed.text
    BY <1>1 DEF Freed
  <2> QED
    BY <2>1, Zenon
<1>3. b \in Buffers /\ buf[b] = Freed
  <2>1. \E c \in Buffers : st.buf[c] = Freed
    BY SomeBufferIsFree DEF State
  <2>2. b \in Buffers /\ st.buf[b] = Freed
    BY <2>1, Zenon DEF FreeBuffer
  <2> QED
    BY <2>2 DEF State
<1>4. b # d
  BY <1>2, <1>3, Zenon
<1>5. st = [data |-> d, buf |-> buf] /\ Text(st) = w
  BY <1>1 DEF State, Text
<1> HIDE DEF b, st
<1>6. G \in Texts /\ Len(G) = n /\ DOMAIN G = 1..n
  BY DEF Texts
<1>7. /\ Len(w) \in Nat /\ k \in Nat /\ k <= Len(w) /\ k <= n
      /\ \A i \in 1..n : i <= Len(w) => i \in 1..k
  BY <1>1
<1>8. old \in Seq(Chars) /\ Len(old) = k /\ \A i \in 1..k : old[i] = w[i]
  <2> HIDE DEF k
  <2>1. \A i \in 1..k : w[i] \in Chars
    BY <1>1, <1>7
  <2>2. /\ old \in Seq(Chars) /\ Len(old) = IF 1 <= k THEN k - 1 + 1 ELSE 0
        /\ \A i \in 1..k - 1 + 1 : old[i] = w[1 + i - 1]
    BY <1>7, <2>1, PartProperties
  <2> QED
    BY <1>7, <2>2
<1> HIDE DEF G, old, k
<1>9. DOMAIN old = 1..k
  BY <1>8
<1>10. \A i \in 1..n : X[i] = IF i \in 1..k THEN old[i] ELSE G[i]
  <2>1. \A i \in 1..n : i - 0 = i
    OBVIOUS
  <2> QED
    BY <1>6, <1>9, <2>1, Zenon DEF Written
<1>11. X \in Texts /\ Len(X) = n /\ X # <<>>
  <2>1. \A i \in 1..n : X[i] \in Chars \cup {Garbage}
    BY <1>8, <1>10 DEF G
  <2>2. X \in [1..n -> Chars \cup {Garbage}]
    BY <1>6, <2>1, Zenon DEF Written
  <2> HIDE DEF X
  <2>3. X \in Texts /\ Len(X) = n
    BY <2>2 DEF Texts
  <2> QED
    BY <2>3
<1>12. \A i \in 1..n : i <= Len(w) => X[i] = w[i]
  BY <1>7, <1>8, <1>10, Zenon
<1> DEFINE filled == [buf EXCEPT ![b] = [refcount |-> 1, text |-> G]]
           c == [data |-> b, buf |-> [buf EXCEPT ![b] = new]]
<1>13. _alloc(st, n) = [data |-> b, buf |-> filled]
  BY <1>5 DEF _alloc, b, G
<1>14. Write(_alloc(st, n), 0, old) = c
  <2> DEFINE a == [data |-> b, buf |-> filled]
  <2>1. a.data = b /\ a.buf = filled /\ filled[b].text = G /\ filled[b] = [refcount |-> 1, text |-> G]
    BY <1>1, <1>3 DEF Stores
  <2>2. Write(a, 0, old) = [a EXCEPT !.buf[a.data].text = X]
    <3> HIDE DEF filled
    <3> QED
      BY <2>1 DEF Write, Written
  <2> HIDE DEF X
  <2>3. [a EXCEPT !.buf[a.data].text = X] = [data |-> b, buf |-> [filled EXCEPT ![b] = [filled[b] EXCEPT !.text = X]]]
    <3> HIDE DEF filled
    <3> QED
      OBVIOUS
  <2>4. [filled[b] EXCEPT !.text = X] = new
    BY <2>1
  <2>5. [filled EXCEPT ![b] = new] = [buf EXCEPT ![b] = new]
    BY <1>1, <1>3, Zenon DEF Stores
  <2> QED
    BY <1>13, <2>2, <2>3, <2>4, <2>5, Zenon, ZenonT(30)
<1> HIDE DEF new, X
<1>15. CopyOut(st, n) = [data |-> b, buf |-> Dropped(d, [buf EXCEPT ![b] = new])]
  <2>1. CopyOut(st, n) = [Write(_alloc(st, n), 0, old) EXCEPT !.buf = Dropped(st.data, @)]
    BY <1>5 DEF CopyOut, old, k
  <2>2. CopyOut(st, n) = [c EXCEPT !.buf = Dropped(st.data, c.buf)]
    BY <1>14, <2>1, Zenon
  <2> QED
    BY <1>5, <2>2
<1>16. Dropped(d, [buf EXCEPT ![b] = new]) = [Left(s) EXCEPT ![b] = new] /\ Left(s)[b] = Freed
  <2>1. Left(s) = [buf EXCEPT ![d] = gone]
    BY DEF Left, Dropped
  <2>2. [buf EXCEPT ![b] = new][d] = buf[d]
    BY <1>1, <1>4 DEF Stores
  <2>3. Dropped(d, [buf EXCEPT ![b] = new]) = [[buf EXCEPT ![b] = new] EXCEPT ![d] = gone]
    BY <2>2, Zenon DEF Dropped
  <2> HIDE DEF gone
  <2> QED
    BY <1>1, <1>3, <1>4, <2>1, <2>3, Zenon DEF Stores
<1>17. [Left(s) EXCEPT ![b] = new] \in Stores
  BY <1>1, <1>3, <1>11 DEF Stores, new
<1>18. Holds(s, CopyOut(st, n), X)
  BY <1>3, <1>11, <1>15, <1>16, <1>17, SMT, SMTT(30) DEF Holds, new
<1> QED
  BY <1>11, <1>12, <1>18, Zenon, ZenonT(30) DEF st

\* What the count said before still holds where it was not shared.
Knows(s, shared) == ~shared /\ data[s] # 0 => Holders(data[s]) = {s}

\* setlength, in place or by a copy, keeps what fits.
LEMMA SetlengthHolds ==
  ASSUME StringAssumption, StringInv, NEW s \in Strings, data[s] # 0,
         NEW STATE n, n \in Nat, n # 0, n # Len(want[s]), NEW STATE shared, shared \in BOOLEAN, Knows(s, shared)
  PROVE  \E X \in Texts : /\ Holds(s, setlength(State(s), n, shared), X) /\ Len(X) = n
                          /\ \A i \in 1..n : i <= Len(want[s]) => X[i] = want[s][i]
<1> DEFINE w == want[s]
           st == State(s)
<1>1. w \in Seq(Chars) /\ w # <<>> /\ buf[data[s]].text = w
  BY DEF StringInv, Typed, Valued
<1>2. length(st) = Len(w)
  BY <1>1 DEF State, Text, length
<1>3. Len(w) # 0 /\ Len(w) \in Nat /\ DOMAIN w = 1..Len(w)
  BY <1>1
<1> HIDE DEF st
<1>4. setlength(st, n, shared) = IF shared THEN CopyOut(st, n) ELSE _realloc(st, n)
  BY <1>2, <1>3 DEF setlength
<1>5. CASE shared
  BY <1>4, <1>5, CopyHolds, Zenon DEF st
<1>6. CASE ~shared
  <2> DEFINE X == Resized(w, n)
  <2>1. Holds(s, st, w)
    BY <1>6, AloneHolds, Zenon DEF Knows, st
  <2>2. Holds(s, _realloc(st, n), X)
    BY <2>1, ReallocHolds, Zenon
  <2>3. \A i \in 1..n : i <= Len(w) => X[i] = w[i]
    BY <1>3 DEF Resized
  <2>4. X \in Texts
    BY <2>2, Zenon DEF Holds
  <2>5. Len(X) = n
    BY DEF Resized
  <2> QED
    BY <1>4, <1>6, <2>2, <2>3, <2>4, <2>5, Zenon DEF st
<1> QED
  BY <1>5, <1>6

\* unique leaves the value and the string alone with it.
LEMMA UniqueHolds ==
  ASSUME StringAssumption, StringInv, NEW s \in Strings, data[s] # 0,
         NEW STATE shared, shared \in BOOLEAN, Knows(s, shared)
  PROVE  Holds(s, unique(State(s), shared), want[s])
<1> DEFINE w == want[s]
           st == State(s)
<1>1. w \in Seq(Chars) /\ w # <<>> /\ buf[data[s]].text = w
  BY DEF StringInv, Typed, Valued
<1>2. length(st) = Len(w)
  BY <1>1 DEF State, Text, length
<1>3. Len(w) > 0 /\ Len(w) \in Nat /\ DOMAIN w = 1..Len(w)
  BY <1>1
<1> HIDE DEF st
<1>4. unique(st, shared) = IF shared THEN CopyOut(st, Len(w)) ELSE st
  BY <1>2, <1>3 DEF unique
<1>5. CASE shared
  <2>1. Len(w) # 0
    BY <1>3
  <2>2. PICK X \in Texts : /\ Holds(s, CopyOut(st, Len(w)), X) /\ Len(X) = Len(w)
                           /\ \A i \in 1..Len(w) : i <= Len(w) => X[i] = w[i]
    BY <1>3, <2>1, CopyHolds DEF st
  <2>3. X \in Seq(Chars \cup {Garbage}) /\ \A i \in 1..Len(w) : X[i] = w[i]
    BY <1>3, <2>2 DEF Texts
  <2>4. X = w
    BY <1>1, <2>2, <2>3
  <2> QED
    BY <1>4, <1>5, <2>2, <2>4, Zenon DEF st
<1>6. CASE ~shared
  BY <1>4, <1>6, AloneHolds, Zenon DEF Knows, st
<1> QED
  BY <1>5, <1>6

\* Two texts are equal if they agree at every position.
LEMMA SameText ==
  ASSUME NEW S, NEW T, NEW STATE a, NEW STATE b, a \in Seq(S), b \in Seq(T),
         Len(a) = Len(b), \A i \in 1..Len(a) : a[i] = b[i]
  PROVE  a = b
  OBVIOUS

\* R is the string s with the value T.
Gives(s, R, T) == IF T = <<>> THEN R.data = 0 /\ R.buf = Left(s) ELSE Holds(s, R, T)

\* finalize lets go of the buffer.
LEMMA FinalizeLeaves ==
  ASSUME NEW s
  PROVE  finalize(State(s)).data = 0 /\ finalize(State(s)).buf = Left(s)
<1>1. State(s).data = data[s] /\ State(s).buf = buf
  BY DEF State
<1> QED
  BY <1>1 DEF finalize, Left

\* initialize after finalize gives the text.
LEMMA InitializeGives ==
  ASSUME StringAssumption, StringInv, NEW s \in Strings, NEW STATE text, text \in Seq(Chars)
  PROVE  Gives(s, initialize(finalize(State(s)), text), text)
<1> DEFINE f == finalize(State(s))
           n == _alloc(f, Len(text))
<1>1. f.data = 0 /\ f.buf = Left(s)
  BY FinalizeLeaves, Zenon
<1> HIDE DEF f
<1>2. CASE text = <<>>
  <2>1. initialize(f, text) = [f EXCEPT !.data = 0]
    BY <1>2 DEF initialize
  <2>2. [f EXCEPT !.data = 0].data = 0 /\ [f EXCEPT !.data = 0].buf = Left(s)
    BY <1>1 DEF f, finalize, State
  <2> QED
    BY <1>2, <2>1, <2>2, Zenon DEF Gives, f
<1>3. CASE text # <<>>
  <2>1. Len(text) \in Nat /\ Len(text) # 0 /\ text \in Texts
    BY <1>3 DEF Texts
  <2>2. Holds(s, n, [i \in 1..Len(text) |-> Garbage])
    BY <1>1, <2>1, AllocHolds, Zenon
  <2>3. initialize(f, text) = [n EXCEPT !.buf[n.data].text = text]
    BY <1>3 DEF initialize
  <2> DEFINE X == [i \in 1..Len(text) |-> Garbage]
  <2> HIDE DEF n, X
  <2>4. Holds(s, n, X)
    BY <2>2 DEF X
  <2>5. Holds(s, [n EXCEPT !.buf[n.data].text = text], text)
    BY <1>3, <2>1, <2>4, TextReplaced
  <2>6. Holds(s, initialize(f, text), text)
    BY <2>3, <2>5, Zenon
  <2> QED
    BY <1>3, <2>6, Zenon DEF Gives, f
<1> QED
  BY <1>2, <1>3

\* assign, in place or anew, gives the text.
LEMMA AssignGives ==
  ASSUME StringAssumption, StringInv, NEW s \in Strings, NEW STATE text, text \in Seq(Chars),
         NEW STATE shared, shared \in BOOLEAN, Knows(s, shared)
  PROVE  Gives(s, assign(State(s), text, shared), text)
<1> DEFINE st == State(s)
           w == want[s]
           n == Len(text)
           X == Written(Resized(w, n), 0, text)
<1>1. CASE data[s] # 0 /\ text # <<>> /\ ~shared
  <2>1. assign(st, text, shared) = Write(_realloc(st, n), 0, text)
    BY <1>1 DEF assign, State
  <2>2. n \in Nat /\ n # 0 /\ text \in Texts /\ DOMAIN text = 1..n
    BY <1>1 DEF Texts
  <2> HIDE DEF st
  <2>3. Holds(s, st, w)
    BY <1>1, AloneHolds, Zenon DEF Knows, st
  <2>4. Holds(s, _realloc(st, n), Resized(w, n))
    BY <2>2, <2>3, ReallocHolds, Zenon
  <2>5. 0 \in Nat
    OBVIOUS
  <2>6. Holds(s, Write(_realloc(st, n), 0, text), X)
    BY <2>2, <2>4, <2>5, WriteHolds, Zenon
  <2>7. X = text
    <3>1. DOMAIN Resized(w, n) = 1..n
      BY DEF Resized
    <3>2. \A i \in 1..n : i - 0 = i
      BY <2>2
    <3>3. X = [i \in 1..n |-> text[i]]
      BY <2>2, <3>1, <3>2, Zenon DEF Written
    <3> QED
      BY <2>2, <3>3
  <2> QED
    BY <1>1, <2>1, <2>6, <2>7, Zenon DEF Gives, st
<1>2. CASE ~(data[s] # 0 /\ text # <<>> /\ ~shared)
  <2>1. assign(st, text, shared) = initialize(finalize(st), text)
    BY <1>2 DEF assign, State
  <2> QED
    BY <2>1, InitializeGives, Zenon
<1> QED
  BY <1>1, <1>2

\* concat appends, the string's own text included.
LEMMA ConcatGives ==
  ASSUME StringAssumption, StringInv, NEW s \in Strings,
         NEW STATE text, text \in Seq(Chars), text # <<>>,
         NEW STATE own, own \in BOOLEAN, own => text = want[s],
         NEW STATE shared, shared \in BOOLEAN, Knows(s, shared)
  PROVE  Gives(s, concat(State(s), text, own, shared), want[s] \o text)
<1> DEFINE st == State(s)
           w == want[s]
<1>1. /\ w \in Seq(Chars) /\ Len(w) \in Nat /\ Len(text) \in Nat /\ Len(text) # 0
      /\ data[s] = 0 => w = <<>>
      /\ data[s] # 0 => w # <<>> /\ buf[data[s]].text = w
  BY DEF StringInv, Typed, Valued
<1>2. length(st) = Len(w) /\ (Len(w) = 0 <=> data[s] = 0)
  BY <1>1 DEF State, Text, length
<1> HIDE DEF st
<1>3. CASE data[s] = 0
  <2>1. concat(st, text, own, shared) = assign(st, text, shared)
    BY <1>2, <1>3 DEF concat
  <2>2. w \o text = text
    BY <1>1, <1>3, SMT, SMTT(30)
  <2> QED
    BY <2>1, <2>2, AssignGives, Zenon DEF st
<1>4. CASE data[s] # 0
  <2> DEFINE n == Len(w) + Len(text)
             grown == setlength(st, n, shared)
             t == IF own THEN SubSeq(Text(grown), 1, Len(text)) ELSE text
  <2>1. concat(st, text, own, shared) = Write(grown, Len(w), t)
    BY <1>2, <1>4 DEF concat
  <2>2. n \in Nat /\ n # 0 /\ n # Len(w)
    BY <1>1
  <2>3. PICK Y \in Texts : /\ Holds(s, grown, Y) /\ Len(Y) = n
                           /\ \A i \in 1..n : i <= Len(w) => Y[i] = w[i]
    BY <1>4, <2>2, SetlengthHolds, Zenon, ZenonT(30) DEF st
  <2> HIDE DEF grown, n
  <2>4. Text(grown) = Y
    BY <2>3, HeldText, Zenon, ZenonT(30)
  <2>5. t = text
    <3>1. CASE own
      <4>1. text = w
        BY <3>1
      <4>2. \A i \in 1..Len(text) : Y[i] = text[i] /\ Y[i] \in Chars
        BY <1>1, <2>2, <2>3, <4>1 DEF n
      <4>3. /\ SubSeq(Y, 1, Len(text)) \in Seq(Chars)
            /\ Len(SubSeq(Y, 1, Len(text))) = IF 1 <= Len(text) THEN Len(text) - 1 + 1 ELSE 0
            /\ \A i \in 1..Len(text) - 1 + 1 : SubSeq(Y, 1, Len(text))[i] = Y[1 + i - 1]
        BY <1>1, <4>2, PartProperties
      <4> DEFINE q == SubSeq(Y, 1, Len(text))
      <4> HIDE DEF q
      <4>4. q \in Seq(Chars) /\ Len(q) = Len(text) /\ \A i \in 1..Len(text) : q[i] = text[i]
        BY <1>1, <4>2, <4>3 DEF q
      <4>5. q = text
        BY <4>4
      <4> QED
        BY <2>4, <3>1, <4>5 DEF q
    <3>2. CASE ~own
      BY <3>2
    <3> QED
      BY <3>1, <3>2
  <2>6. text \in Texts
    BY DEF Texts
  <2> DEFINE X == Written(Y, Len(w), text)
  <2>7. Holds(s, Write(grown, Len(w), text), X) /\ Len(X) = n /\ X \in Texts
    <3>1. Len(w) \in Nat /\ Holds(s, grown, Y)
      BY <1>1, <2>3
    <3>2. /\ Holds(s, Write(grown, Len(w), text), X) /\ Len(X) = Len(Y) /\ X \in Texts
      BY <2>6, <3>1, WriteHolds
    <3> QED
      BY <2>3, <3>2, Zenon
  <2>8. X = w \o text
    <3>1. DOMAIN Y = 1..n /\ DOMAIN text = 1..Len(text)
      BY <2>3 DEF Texts
    <3>2. \A i \in 1..n : X[i] = IF i - Len(w) \in 1..Len(text) THEN text[i - Len(w)] ELSE Y[i]
      BY <3>1, Zenon DEF Written
    <3> HIDE DEF X
    <3>3. \A i \in 1..n : X[i] = (w \o text)[i]
      BY <1>1, <2>3, <3>2 DEF n
    <3>4. w \o text \in Seq(Chars) /\ Len(w \o text) = n
      BY <1>1 DEF n
    <3> DEFINE q == w \o text
    <3> HIDE DEF q
    <3>5. X = q
      <4>1. X \in Seq(Chars \cup {Garbage}) /\ q \in Seq(Chars) /\ Len(X) = n /\ Len(q) = n
            /\ \A i \in 1..n : X[i] = q[i]
        BY <2>7, <3>3, <3>4, Zenon DEF Texts, q
      <4> QED
        BY <4>1, SameText
    <3> QED
      BY <3>5 DEF q
  <2>9. w \o text # <<>>
    BY <2>7, <2>8, Zenon DEF Holds
  <2>10. Holds(s, concat(st, text, own, shared), w \o text)
    BY <2>1, <2>5, <2>7, <2>8, Zenon, ZenonT(30)
  <2> QED
    BY <2>9, <2>10, Zenon DEF Gives, st
<1> QED
  BY <1>3, <1>4

\* A part of a text.
LEMMA PartOfText ==
  ASSUME NEW S, NEW STATE q, q \in Seq(S), NEW STATE a, a \in Nat, NEW STATE b, b \in Nat,
         b <= Len(q)
  PROVE  /\ SubSeq(q, a + 1, b) \in Seq(S)
         /\ Len(SubSeq(q, a + 1, b)) = IF a < b THEN b - a ELSE 0
         /\ \A i \in 1..Len(SubSeq(q, a + 1, b)) : SubSeq(q, a + 1, b)[i] = q[a + i]
<1> DEFINE p == SubSeq(q, a + 1, b)
<1>1. \A i \in (a + 1)..b : q[i] \in S
  OBVIOUS
<1>2. /\ p \in Seq(S) /\ Len(p) = IF a + 1 <= b THEN b - (a + 1) + 1 ELSE 0
      /\ \A i \in 1..b - (a + 1) + 1 : p[i] = q[a + 1 + i - 1]
  BY <1>1, PartProperties
<1> HIDE DEF p
<1>3. Len(p) = IF a < b THEN b - a ELSE 0
  BY <1>2
<1>4. \A i \in 1..Len(p) : i \in 1..b - (a + 1) + 1 /\ a + 1 + i - 1 = a + i
  BY <1>3
<1>5. \A i \in 1..Len(p) : p[i] = q[a + i]
  BY <1>2, <1>4, SMT, SMTT(30)
<1> QED
  BY <1>2, <1>3, <1>5 DEF p

\* ins puts a character in its place.
LEMMA InsGives ==
  ASSUME StringAssumption, StringInv, NEW s \in Strings, NEW c \in Chars,
         NEW at \in 0..Len(want[s]),
         NEW STATE shared, shared \in BOOLEAN, Knows(s, shared)
  PROVE  /\ Gives(s, ins(State(s), <<c>>, at, shared), InsertAt(want[s], at + 1, c))
         /\ InsertAt(want[s], at + 1, c) \in Seq(Chars)
<1> DEFINE st == State(s)
           w == want[s]
           l == Len(w)
           T == InsertAt(w, at + 1, c)
<1>1. /\ w \in Seq(Chars) /\ l \in Nat /\ at \in Nat /\ at <= l
      /\ data[s] = 0 => w = <<>>
      /\ data[s] # 0 => w # <<>> /\ buf[data[s]].text = w
  BY DEF StringInv, Typed, Valued
<1>2. length(st) = l /\ (l = 0 <=> data[s] = 0)
  BY <1>1 DEF State, Text, length
<1>3. <<c>> \in Seq(Chars) /\ Len(<<c>>) = 1 /\ <<c>>[1] = c /\ <<c>> # <<>> /\ <<c>> \in Texts
  BY DEF Texts
<1>4. /\ T \in Seq(Chars) /\ Len(T) = l + 1
      /\ \A i \in 1..l + 1 : T[i] = IF i <= at THEN w[i] ELSE IF i = at + 1 THEN c ELSE w[i - 1]
  <2> DEFINE p == SubSeq(w, 0 + 1, at)
             r == SubSeq(w, at + 1, l)
  <2>1. /\ p \in Seq(Chars) /\ Len(p) = IF 0 < at THEN at - 0 ELSE 0
        /\ \A i \in 1..Len(p) : p[i] = w[0 + i]
    BY <1>1, PartOfText
  <2>2. /\ r \in Seq(Chars) /\ Len(r) = IF at < l THEN l - at ELSE 0
        /\ \A i \in 1..Len(r) : r[i] = w[at + i]
    BY <1>1, PartOfText
  <2>3. T = p \o <<c>> \o r
    <3>1. (at + 1) - 1 = at /\ 0 + 1 = 1
      BY <1>1
    <3> QED
      BY <3>1, Zenon DEF InsertAt
  <2> HIDE DEF p, r, T
  <2>4. Len(p) = at /\ Len(r) = l - at /\ (\A i \in 1..at : p[i] = w[i])
    BY <1>1, <2>1, <2>2
  <2>5. p \o <<c>> \in Seq(Chars) /\ Len(p \o <<c>>) = at + 1
    BY <1>1, <1>3, <2>1, <2>4, SMT, SMTT(30)
  <2>6. \A i \in 1..at + 1 : (p \o <<c>>)[i] = IF i <= at THEN w[i] ELSE c
    BY <1>1, <1>3, <2>1, <2>4, SMT, SMTT(30)
  <2> DEFINE h == p \o <<c>>
  <2> HIDE DEF h, l
  <2>7. h \in Seq(Chars) /\ Len(h) = at + 1 /\ (\A i \in 1..at + 1 : h[i] = IF i <= at THEN w[i] ELSE c)
    BY <2>5, <2>6 DEF h
  <2>8. T \in Seq(Chars) /\ Len(T) = at + 1 + (l - at) /\ T = h \o r
    <3>1. T = h \o r
      BY <2>3, Zenon DEF h
    <3>2. h \in Seq(Chars) /\ r \in Seq(Chars)
      BY <2>2, <2>7, Zenon
    <3>3. h \o r \in Seq(Chars) /\ Len(h \o r) = Len(h) + Len(r)
      BY <3>2
    <3> QED
      BY <2>4, <2>7, <3>1, <3>3, Zenon
  <2>9. Len(T) = l + 1
    BY <1>1, <2>8
  <2>10. ASSUME NEW i \in 1..l + 1
         PROVE  T[i] = IF i <= at THEN w[i] ELSE IF i = at + 1 THEN c ELSE w[i - 1]
    <3>1. CASE i <= at + 1
      <4>1. i \in 1..at + 1
        BY <1>1, <3>1
      <4>2. T[i] = h[i]
        BY <1>1, <2>2, <2>7, <2>8, <4>1
      <4> QED
        BY <1>1, <2>7, <3>1, <4>1, <4>2, SMT, SMTT(30)
    <3>2. CASE i > at + 1
      <4>1. /\ i - (at + 1) \in 1..Len(r) /\ at + (i - (at + 1)) = i - 1 /\ ~(i <= at)
            /\ i # at + 1
        BY <1>1, <2>4, <3>2, SMT, SMTT(30)
      <4>2. T[i] = r[i - (at + 1)]
        BY <1>1, <2>2, <2>7, <2>8, <3>2, <4>1, SMT, SMTT(30)
      <4>3. r[i - (at + 1)] = w[at + (i - (at + 1))]
        BY <2>2, <4>1, Zenon
      <4> QED
        BY <4>1, <4>2, <4>3, Zenon, ZenonT(30)
    <3> QED
      BY <1>1, <3>1, <3>2, SMT, SMTT(30)
  <2> QED
    BY <2>8, <2>9, <2>10
<1> HIDE DEF st
<1>5. CASE data[s] = 0
  <2>1. ins(st, <<c>>, at, shared) = assign(st, <<c>>, shared)
    BY <1>2, <1>3, <1>5 DEF ins
  <2>2. l = 0 /\ at = 0
    BY <1>1, <1>2, <1>5
  <2> HIDE DEF T, l
  <2>3. Len(T) = 1 /\ T[1] = c
    BY <1>4, <2>2
  <2>4. T = <<c>>
    <3>1. \A i \in 1..1 : T[i] = <<c>>[i]
      BY <1>3, <2>3
    <3> DEFINE q == <<c>>
    <3> HIDE DEF q
    <3>2. q \in Seq(Chars) /\ Len(q) = 1 /\ T \in Seq(Chars) /\ \A i \in 1..1 : T[i] = q[i]
      BY <1>3, <1>4, <3>1, Zenon DEF q
    <3>3. T = q
      BY <2>3, <3>2, SameText
    <3> QED
      BY <3>3 DEF q
  <2>5. Gives(s, assign(st, <<c>>, shared), <<c>>)
    BY <1>3, AssignGives, Zenon DEF st
  <2> QED
    BY <1>4, <2>1, <2>4, <2>5, Zenon, ZenonT(30) DEF st, T
<1>6. CASE data[s] # 0
  <2> DEFINE n == l + 1
             grown == setlength(st, n, shared)
             tail == SubSeq(Text(grown), at + 1, l)
  <2>1. ins(st, <<c>>, at, shared) = Write(Write(grown, at + 1, tail), at, <<c>>)
    BY <1>2, <1>3, <1>6 DEF ins
  <2>2. n \in Nat /\ n # 0 /\ n # l
    BY <1>1
  <2>3. PICK Y \in Texts : /\ Holds(s, grown, Y) /\ Len(Y) = n
                           /\ \A i \in 1..n : i <= l => Y[i] = w[i]
    BY <1>6, <2>2, SetlengthHolds, Zenon, ZenonT(30) DEF st
  <2> HIDE DEF grown
  <2>4. Text(grown) = Y
    BY <2>3, HeldText, Zenon, ZenonT(30)
  <2> DEFINE v == SubSeq(Y, at + 1, l)
             Z == Written(Y, at + 1, v)
             X == Written(Z, at, <<c>>)
  <2>5. /\ v \in Texts /\ Len(v) = (IF at < l THEN l - at ELSE 0)
        /\ \A i \in 1..Len(v) : v[i] = Y[at + i]
    <3>1. Y \in Seq(Chars \cup {Garbage}) /\ l <= Len(Y)
      BY <1>1, <2>3 DEF Texts
    <3> HIDE DEF l
    <3> QED
      BY <1>1, <3>1, PartOfText DEF Texts
  <2>6. tail = v
    BY <2>4
  <2> HIDE DEF tail, v
  <2>7. Holds(s, Write(grown, at + 1, v), Z) /\ Len(Z) = Len(Y) /\ Z \in Texts
    <3>1. at + 1 \in Nat /\ Holds(s, grown, Y)
      BY <1>1, <2>3
    <3>2. v \in Texts
      BY <2>5, Zenon
    <3> DEFINE k == at + 1
    <3> HIDE DEF k
    <3>3. k \in Nat
      BY <3>1 DEF k
    <3>4. /\ Holds(s, Write(grown, k, v), Written(Y, k, v))
          /\ Len(Written(Y, k, v)) = Len(Y) /\ Written(Y, k, v) \in Texts
      BY <3>1, <3>2, <3>3, WriteHolds, Zenon, ZenonT(30)
    <3> QED
      BY <3>4 DEF k
  <2> DEFINE G == Write(grown, at + 1, v)
  <2> HIDE DEF G
  <2>8. Holds(s, Write(G, at, <<c>>), X) /\ Len(X) = Len(Z) /\ X \in Texts
    <3>1. at \in Nat /\ Holds(s, G, Z)
      BY <1>1, <2>7 DEF G
    <3> DEFINE q == <<c>>
    <3> HIDE DEF Z, q
    <3>2. q \in Texts
      BY <1>3 DEF q
    <3>3. /\ Holds(s, Write(G, at, q), Written(Z, at, q))
          /\ Len(Written(Z, at, q)) = Len(Z) /\ Written(Z, at, q) \in Texts
      BY <3>1, <3>2, WriteHolds, Zenon
    <3> QED
      BY <3>3, SMT, SMTT(30) DEF q
  <2>9. \A i \in 1..n : Z[i] = IF i - (at + 1) \in 1..Len(v) THEN v[i - (at + 1)] ELSE Y[i]
    <3>1. DOMAIN Y = 1..n /\ DOMAIN v = 1..Len(v)
      BY <2>3, <2>5 DEF Texts
    <3> QED
      BY <3>1, Zenon, ZenonT(30) DEF Written
  <2>10. \A i \in 1..n : X[i] = IF i - at \in 1..1 THEN <<c>>[i - at] ELSE Z[i]
    <3>1. DOMAIN Z = 1..n /\ DOMAIN <<c>> = 1..1
      BY <1>3, <2>3, <2>7, SMT, SMTT(30) DEF Texts
    <3> HIDE DEF Z
    <3> QED
      BY <3>1, Zenon, ZenonT(30) DEF Written
  <2> HIDE DEF X, Z, T
  <2>11. ASSUME NEW i \in 1..n PROVE X[i] = T[i]
    <3>1. CASE i <= at
      <4>1. X[i] = Z[i] /\ Z[i] = Y[i] /\ Y[i] = w[i]
        BY <1>1, <2>2, <2>3, <2>5, <2>9, <2>10, <3>1, SMT, SMTT(30)
      <4> QED
        BY <1>1, <1>4, <3>1, <4>1, SMT, SMTT(30)
    <3>2. CASE i = at + 1
      <4>1. X[i] = c
        BY <1>1, <1>3, <2>10, <3>2
      <4> QED
        BY <1>1, <1>4, <3>2, <4>1, SMT, SMTT(30)
    <3>3. CASE i > at + 1
      <4>1. /\ i - at \notin 1..1 /\ i - (at + 1) \in 1..Len(v) /\ at + (i - (at + 1)) = i - 1
            /\ i - 1 \in 1..n /\ i - 1 <= l /\ ~(i <= at) /\ i # at + 1
        BY <1>1, <2>2, <2>5, <3>3
      <4>2. X[i] = Z[i]
        BY <2>10, <4>1, Zenon
      <4>3. Z[i] = v[i - (at + 1)]
        BY <2>9, <4>1, Zenon
      <4>4. v[i - (at + 1)] = w[i - 1]
        BY <2>3, <2>5, <4>1, Zenon
      <4> QED
        BY <1>4, <4>1, <4>2, <4>3, <4>4, Zenon, ZenonT(30)
    <3> QED
      BY <1>1, <3>1, <3>2, <3>3, SMT, SMTT(30)
  <2>12. X = T
    <3>1. X \in Seq(Chars \cup {Garbage}) /\ Len(X) = n /\ T \in Seq(Chars) /\ Len(T) = n
      BY <1>4, <2>3, <2>7, <2>8, Zenon DEF Texts
    <3> HIDE DEF n
    <3> QED
      BY <2>11, <3>1, SameText
  <2>13. ins(st, <<c>>, at, shared) = Write(G, at, <<c>>)
    BY <2>1, <2>6, Zenon DEF G
  <2>14. Holds(s, ins(st, <<c>>, at, shared), T)
    BY <2>8, <2>12, <2>13, Zenon
  <2>15. T # <<>>
    BY <2>14, Zenon DEF Holds
  <2> QED
    BY <1>4, <2>14, <2>15, Zenon, ZenonT(30) DEF Gives, st, T
<1> QED
  BY <1>5, <1>6

\* del leaves what is before and behind.
LEMMA DelGives ==
  ASSUME StringAssumption, StringInv, NEW s \in Strings, NEW from \in 0..Len(want[s]) - 1,
         NEW cnt \in Nat, cnt # 0,
         NEW STATE shared, shared \in BOOLEAN, Knows(s, shared)
  PROVE  LET T == SubSeq(want[s], 1, from) \o SubSeq(want[s], from + cnt + 1, Len(want[s]))
         IN  Gives(s, del(State(s), from, cnt, shared), T) /\ T \in Seq(Chars)
<1> DEFINE st == State(s)
           w == want[s]
           l == Len(w)
           p == SubSeq(w, 0 + 1, from)
           rest == SubSeq(w, from + cnt + 1, l)
           T == p \o rest
<1>1. /\ w \in Seq(Chars) /\ l \in Nat /\ from \in Nat /\ from < l /\ w # <<>>
      /\ data[s] = 0 => w = <<>>
      /\ data[s] # 0 => w # <<>> /\ buf[data[s]].text = w
  BY DEF StringInv, Typed, Valued
<1>2. data[s] # 0 /\ length(st) = l /\ Text(st) = w
  BY <1>1 DEF State, Text, length
<1>3. p \in Seq(Chars) /\ Len(p) = from /\ \A i \in 1..from : p[i] = w[i]
  <2>1. /\ p \in Seq(Chars) /\ Len(p) = IF 0 < from THEN from - 0 ELSE 0
        /\ \A i \in 1..Len(p) : p[i] = w[0 + i]
    BY <1>1, PartOfText
  <2> HIDE DEF p
  <2> QED
    BY <1>1, <2>1
<1>4. /\ rest \in Seq(Chars) /\ Len(rest) = IF from + cnt < l THEN l - (from + cnt) ELSE 0
      /\ \A i \in 1..Len(rest) : rest[i] = w[from + cnt + i]
  <2>1. from + cnt \in Nat /\ l <= Len(w)
    BY <1>1
  <2> HIDE DEF l
  <2> QED
    BY <1>1, <2>1, PartOfText
<1>5. SubSeq(w, 1, from) = p
  OBVIOUS
<1> HIDE DEF st, p, rest
<1>6. T \in Seq(Chars) /\ Len(T) = from + Len(rest)
  <2>1. p \in Seq(Chars) /\ rest \in Seq(Chars)
    BY <1>3, <1>4, Zenon
  <2>2. T \in Seq(Chars) /\ Len(T) = Len(p) + Len(rest)
    BY <2>1
  <2> QED
    BY <1>3, <2>2, Zenon
<1>7. \A i \in 1..Len(T) : T[i] = IF i <= from THEN w[i] ELSE w[i + cnt]
  <2> SUFFICES ASSUME NEW i \in 1..Len(T) PROVE T[i] = IF i <= from THEN w[i] ELSE w[i + cnt]
    OBVIOUS
  <2>1. p \in Seq(Chars) /\ rest \in Seq(Chars) /\ Len(p) = from /\ Len(rest) \in Nat
    BY <1>3, <1>4
  <2>2. CASE i <= from
    <3>1. i \in 1..Len(p)
      BY <1>1, <2>1, <2>2
    <3>2. T[i] = p[i]
      BY <2>1, <3>1
    <3> QED
      BY <1>3, <2>1, <2>2, <3>1, <3>2, Zenon, ZenonT(30)
  <2>3. CASE ~(i <= from)
    <3>1. i - from \in 1..Len(rest) /\ from + cnt + (i - from) = i + cnt
      BY <1>1, <1>6, <2>1, <2>3
    <3>2. T[i] = rest[i - from]
      BY <1>1, <2>1, <2>3, <3>1
    <3>3. rest[i - from] = w[from + cnt + (i - from)]
      BY <1>4, <3>1, Zenon
    <3> QED
      BY <2>3, <3>1, <3>2, <3>3, Zenon, ZenonT(30)
  <2> QED
    BY <2>2, <2>3
<1> HIDE DEF T
<1>8. CASE cnt < l - from
  <2> DEFINE u == unique(st, shared)
             X == Written(w, from, rest)
             R == Write(u, from, rest)
             n == l - cnt
             Z == Resized(X, n)
  <2>1. del(st, from, cnt, shared) = setlength(R, n, FALSE)
    BY <1>2, <1>8 DEF del, rest
  <2>2. n \in Nat /\ n # 0 /\ n # l /\ from + cnt < l /\ n < l /\ Len(rest) = l - (from + cnt)
    BY <1>1, <1>4, <1>8, SMT, SMTT(30)
  <2>3. Holds(s, u, w)
    BY <1>2, UniqueHolds, Zenon DEF st
  <2>4. rest \in Texts
    BY <1>4 DEF Texts
  <2>5. Holds(s, R, X) /\ Len(X) = l /\ X \in Texts
    <3>1. from \in Nat
      BY <1>1
    <3> HIDE DEF u, w
    <3>2. /\ Holds(s, Write(u, from, rest), Written(w, from, rest))
          /\ Len(Written(w, from, rest)) = Len(w)
          /\ Written(w, from, rest) \in Texts
      BY <2>3, <2>4, <3>1, WriteHolds, Zenon
    <3> QED
      BY <3>2, Zenon DEF w
  <2> HIDE DEF R, X
  <2>6. length(R) = l
    <3>1. Text(R) = X
      BY <2>5, HeldText, Zenon, ZenonT(30)
    <3> QED
      BY <2>5, <3>1, Zenon DEF length
  <2>7. setlength(R, n, FALSE) = _realloc(R, n)
    <3>1. l # 0
      BY <1>1
    <3> HIDE DEF l, n
    <3> QED
      BY <2>2, <2>6, <3>1, Zenon DEF setlength
  <2> HIDE DEF n
  <2>8. Holds(s, _realloc(R, n), Z)
    BY <2>2, <2>5, ReallocHolds, Zenon
  <2>9. \A i \in 1..n : Z[i] = X[i]
    <3>1. \A i \in 1..n : i \in DOMAIN X
      BY <1>1, <2>2, <2>5 DEF Texts
    <3> QED
      BY <3>1, Zenon DEF Resized
  <2>10. \A i \in 1..l : X[i] = IF i - from \in 1..Len(rest) THEN rest[i - from] ELSE w[i]
    <3>1. DOMAIN w = 1..l /\ DOMAIN rest = 1..Len(rest)
      BY <1>1, <1>4
    <3> QED
      BY <3>1, Zenon DEF Written, X
  <2>11. Len(T) = n
    BY <1>1, <1>6, <2>2 DEF n
  <2>12. ASSUME NEW i \in 1..n PROVE Z[i] = T[i]
    <3>1. i \in 1..l /\ Z[i] = X[i] /\ T[i] = IF i <= from THEN w[i] ELSE w[i + cnt]
      BY <1>1, <1>7, <2>2, <2>9, <2>11
    <3>2. CASE i <= from
      <4>1. i - from \notin 1..Len(rest)
        BY <1>1, <2>2, <3>2
      <4> QED
        BY <2>10, <3>1, <3>2, <4>1, Zenon, ZenonT(30)
    <3>3. CASE ~(i <= from)
      <4>1. i - from \in 1..Len(rest) /\ from + cnt + (i - from) = i + cnt
        BY <1>1, <2>2, <3>3, SMT, SMTT(30) DEF n
      <4>2. X[i] = rest[i - from] /\ rest[i - from] = w[from + cnt + (i - from)]
        BY <1>4, <2>10, <3>1, <4>1, Zenon
      <4> QED
        BY <3>1, <3>3, <4>1, <4>2, Zenon, ZenonT(30)
    <3> QED
      BY <3>2, <3>3
  <2>13. Z \in Seq(Chars \cup {Garbage}) /\ Len(Z) = n
    <3>1. Z \in Seq(Chars \cup {Garbage})
      BY <2>8, Zenon DEF Holds, Texts
    <3>2. DOMAIN Z = 1..n
      BY DEF Resized
    <3> HIDE DEF Z
    <3> QED
      BY <2>2, <3>1, <3>2
  <2> HIDE DEF Z
  <2>14. Z = T
    BY <1>6, <2>11, <2>12, <2>13, SameText
  <2>15. T # <<>>
    BY <2>8, <2>14, Zenon DEF Holds
  <2>16. Gives(s, del(st, from, cnt, shared), T)
    BY <2>1, <2>7, <2>8, <2>14, <2>15, Zenon, ZenonT(30) DEF Gives
  <2> QED
    BY <1>5, <1>6, <2>16, Zenon, ZenonT(30) DEF st, T, rest
<1>9. CASE ~(cnt < l - from)
  <2>1. del(st, from, cnt, shared) = setlength(st, from, shared)
    BY <1>2, <1>9 DEF del
  <2>2. Len(rest) = 0 /\ Len(T) = from
    BY <1>1, <1>4, <1>6, <1>9, SMT, SMTT(30)
  <2>3. CASE from = 0
    <3>1. setlength(st, from, shared) = finalize(st)
      BY <2>3 DEF setlength
    <3>2. T = <<>>
      BY <1>6, <2>2, <2>3
    <3>3. Gives(s, del(st, from, cnt, shared), T)
      BY <2>1, <3>1, <3>2, FinalizeLeaves, Zenon DEF Gives, st
    <3> QED
      BY <1>5, <1>6, <3>3, Zenon DEF st, T, rest
  <2>4. CASE from # 0
    <3>1. from \in Nat /\ from # 0 /\ from # Len(want[s]) /\ data[s] # 0
      BY <1>1, <1>2, <2>4
    <3>2. PICK X \in Texts : /\ Holds(s, setlength(st, from, shared), X) /\ Len(X) = from
                             /\ \A i \in 1..from : i <= Len(w) => X[i] = w[i]
      BY <3>1, SetlengthHolds, Zenon, ZenonT(30) DEF st
    <3>3. \A i \in 1..from : X[i] = T[i]
      BY <1>1, <1>7, <2>2, <3>2
    <3>4. X = T
      <4>1. X \in Seq(Chars \cup {Garbage}) /\ T \in Seq(Chars) /\ Len(X) = Len(T)
            /\ \A i \in 1..Len(X) : X[i] = T[i]
        BY <1>6, <2>2, <3>2, <3>3, Zenon DEF Texts
      <4> QED
        BY <4>1, SameText
    <3>5. T # <<>>
      BY <3>2, <3>4, Zenon DEF Holds
    <3>6. Gives(s, del(st, from, cnt, shared), T)
      BY <2>1, <3>2, <3>4, <3>5, Zenon DEF Gives
    <3> QED
      BY <1>5, <1>6, <3>6, Zenon DEF st, T, rest
  <2> QED
    BY <2>3, <2>4
<1> QED
  BY <1>8, <1>9

\* s moves to the buffer d and to the value T; the other strings stay.
Ops == {Idle} \cup [kind : {"write"}, s : Strings, shared : BOOLEAN]

Moves(s, d, T) ==
  /\ data' = [data EXCEPT ![s] = d] /\ want' = [want EXCEPT ![s] = T] /\ buf' \in Stores
  /\ d = 0 => T = <<>>
  /\ \A b \in Buffers : b # d => buf'[b] = Left(s)[b]
  /\ d # 0 => /\ T # <<>> /\ buf'[d].text = T
              /\ buf'[d].refcount = Cardinality(Holders(d) \ {s}) + 1
              /\ Holders(d) \ {s} # {} => Left(s)[d].text = T

\* No other thread's operation is about s, nor relies on having d alone.
Spares(s, d) ==
  /\ op' \in [Threads -> Ops]
  /\ \A t \in Threads :
       op'[t] # Idle => /\ op'[t] = op[t] /\ op[t].s # s
                        /\ ~op[t].shared /\ data[op[t].s] # 0 => data[op[t].s] # d

\* Such a move keeps the invariant.
LEMMA MoveKeeps ==
  ASSUME StringAssumption, StringInv, NEW s \in Strings,
         NEW STATE d, d \in Buffers \cup {0}, NEW STATE T, T \in Seq(Chars),
         Moves(s, d, T), Spares(s, d)
  PROVE  StringInv'
<1>1. /\ data \in [Strings -> Buffers \cup {0}] /\ want \in [Strings -> Seq(Chars)]
      /\ op \in [Threads -> Ops]
  BY SMT, SMTT(30) DEF StringInv, Typed, Ops
<1>2. /\ data' \in [Strings -> Buffers \cup {0}] /\ data'[s] = d
      /\ \A x \in Strings : x # s => data'[x] = data[x]
  BY <1>1 DEF Moves
<1>3. /\ want' \in [Strings -> Seq(Chars)] /\ want'[s] = T
      /\ \A x \in Strings : x # s => want'[x] = want[x]
  BY <1>1 DEF Moves
<1>4. ASSUME NEW b \in Buffers
      PROVE  Holders(b)' = (Holders(b) \ {s}) \cup (IF b = d THEN {s} ELSE {})
  BY <1>2 DEF Holders
<1>5. /\ buf' \in Stores /\ (d = 0 => T = <<>>)
      /\ \A b \in Buffers : b # d => buf'[b] = Left(s)[b]
      /\ d # 0 => /\ T # <<>> /\ buf'[d].text = T
                  /\ buf'[d].refcount = Cardinality(Holders(d) \ {s}) + 1
                  /\ Holders(d) \ {s} # {} => Left(s)[d].text = T
  BY Zenon DEF Moves
<1>6. /\ op' \in [Threads -> Ops]
      /\ \A t \in Threads :
           op'[t] # Idle => /\ op'[t] = op[t] /\ op[t].s # s
                            /\ ~op[t].shared /\ data[op[t].s] # 0 => data[op[t].s] # d
  BY Zenon DEF Spares
<1>7. \A b \in Buffers : b # 0
  BY DEF Buffers
<1>8. Typed'
  <2>1. op' \in [Threads -> {Idle} \cup [kind : {"write"}, s : Strings, shared : BOOLEAN]]
    BY <1>6, Zenon DEF Ops
  <2> QED
    BY <1>2, <1>3, <1>5, <2>1, Zenon DEF Typed, Stores, Buffers, Texts, Idle
<1>9. Counted'
  <2> SUFFICES ASSUME NEW b \in Buffers
               PROVE  /\ buf'[b].refcount = Cardinality(Holders(b)')
                      /\ Holders(b)' = {} => buf'[b] = Freed
    BY Zenon DEF Counted, Buffers, Freed
  <2>1. CASE b = d
    <3> DEFINE H == Holders(b) \ {s}
    <3>1. IsFiniteSet(H) /\ s \notin H
      BY FS_Subset DEF StringAssumption, Holders
    <3>2. Cardinality(H \cup {s}) = Cardinality(H) + 1
      BY <3>1, FS_AddElement, Zenon
    <3>3. Holders(b)' = H \cup {s}
      BY <1>4, <2>1
    <3>4. buf'[b].refcount = Cardinality(H) + 1
      BY <1>5, <1>7, <2>1, Zenon
    <3>5. H \cup {s} # {}
      OBVIOUS
    <3> HIDE DEF H
    <3> QED
      BY <3>2, <3>3, <3>4, <3>5, Zenon
  <2>2. CASE b # d
    <3>1. Holders(b)' = Holders(b) \ {s}
      BY <1>4, <2>2
    <3>2. buf'[b] = Left(s)[b]
      BY <1>5, <2>2, Zenon
    <3>3. /\ Left(s)[b].refcount = Cardinality(Holders(b) \ {s})
          /\ Holders(b) \ {s} = {} => Left(s)[b] = Freed
      BY LeftIsCounted, Zenon
    <3> QED
      BY <3>1, <3>2, <3>3, Zenon
  <2> QED
    BY <2>1, <2>2
<1>10. Valued'
  <2> SUFFICES ASSUME NEW x \in Strings
               PROVE  IF data'[x] = 0 THEN want'[x] = <<>>
                      ELSE want'[x] # <<>> /\ buf'[data'[x]].text = want'[x]
    BY Zenon DEF Valued
  <2>1. CASE x = s
    BY <1>2, <1>3, <1>5, <2>1, Zenon, ZenonT(30)
  <2>2. CASE x # s
    <3> DEFINE b == data[x]
    <3>1. data'[x] = b /\ want'[x] = want[x]
      BY <1>2, <1>3, <2>2, Zenon
    <3>2. IF b = 0 THEN want[x] = <<>> ELSE want[x] # <<>> /\ buf[b].text = want[x]
      BY Zenon DEF StringInv, Valued
    <3>3. CASE b = 0
      BY <3>1, <3>2, <3>3, Zenon
    <3>4. CASE b # 0
      <4>1. b \in Buffers /\ Holders(b) \ {s} # {}
        BY <1>1, <2>2, <3>4 DEF Holders
      <4>2. Left(s)[b].text = buf[b].text
        BY <4>1, LeftIsCounted, Zenon
      <4>3. buf'[b].text = buf[b].text
        <5>1. CASE b = d
          BY <1>5, <3>4, <4>1, <4>2, <5>1, Zenon
        <5>2. CASE b # d
          BY <1>5, <4>1, <4>2, <5>2, Zenon
        <5> QED
          BY <5>1, <5>2
      <4> QED
        BY <3>1, <3>2, <3>4, <4>3, Zenon
    <3> QED
      BY <3>3, <3>4
  <2> QED
    BY <2>1, <2>2
<1>11. Tested'
  <2> DEFINE Alone(o, D) == {y \in Strings : D[y] = D[o.s]} = {o.s}
  <2> SUFFICES ASSUME NEW t \in Threads, op'[t] # Idle
               PROVE  /\ Owner[op'[t].s] = t
                      /\ ~op'[t].shared /\ data'[op'[t].s] # 0 => Alone(op'[t], data')
    BY DEF Tested, Idle, Holders
  <2>1. /\ op'[t] = op[t] /\ op[t].s # s
        /\ ~op[t].shared /\ data[op[t].s] # 0 => data[op[t].s] # d
    BY <1>6, Zenon, ZenonT(30)
  <2>2. op[t].s \in Strings
    BY <1>1, <2>1 DEF Ops
  <2>3. /\ Owner[op[t].s] = t
        /\ ~op[t].shared /\ data[op[t].s] # 0 => Holders(data[op[t].s]) = {op[t].s}
    BY <2>1, Zenon DEF StringInv, Tested
  <2>4. data'[op[t].s] = data[op[t].s]
    BY <1>2, <2>1, <2>2, Zenon, ZenonT(30)
  <2>5. ASSUME ~op[t].shared, data[op[t].s] # 0
        PROVE  Alone(op[t], data')
    <3>1. /\ data[op[t].s] \in Buffers /\ data[op[t].s] # d
          /\ Holders(data[op[t].s]) = {op[t].s}
      BY <1>1, <2>1, <2>2, <2>3, <2>5, SMT, SMTT(30)
    <3> QED
      BY <1>2, <2>1, <2>2, <2>4, <3>1, SMT, SMTT(30) DEF Holders
  <2> HIDE DEF Alone
  <2> QED
    BY <2>1, <2>3, <2>4, <2>5, Zenon, ZenonT(30)
<1> QED
  BY <1>8, <1>9, <1>10, <1>11, Zenon DEF StringInv

\* An operation whose result is the wanted value keeps the invariant.
LEMMA BecomesKeeps ==
  ASSUME StringAssumption, StringInv, NEW s \in Strings, NEW STATE R, NEW STATE T, T \in Seq(Chars),
         Gives(s, R, T), Becomes(s, R), want' = [want EXCEPT ![s] = T],
         op' \in [Threads -> Ops],
         \A t \in Threads : op'[t] # Idle => op'[t] = op[t] /\ op[t].s # s
  PROVE  StringInv'
<1>1. data' = [data EXCEPT ![s] = R.data] /\ buf' = R.buf
  BY Zenon DEF Becomes
<1>2. CASE T = <<>>
  <2>1. R.data = 0 /\ R.buf = Left(s)
    BY <1>2, Zenon DEF Gives
  <2>2. Left(s) \in Stores
    BY LeftIsCounted, Zenon
  <2>3. Moves(s, 0, T) /\ 0 \in Buffers \cup {0}
    BY <1>1, <1>2, <2>1, <2>2, Zenon DEF Moves
  <2>4. Spares(s, 0)
    BY Zenon DEF Spares
  <2> QED
    BY <1>2, <2>3, <2>4, MoveKeeps, Zenon
<1>3. CASE T # <<>>
  <2>1. Holds(s, R, T)
    BY <1>3, Zenon DEF Gives
  <2>2. PICK d \in Buffers :
          /\ R.data = d /\ R.buf \in Stores
          /\ R.buf = [Left(s) EXCEPT ![d] = [refcount |-> 1, text |-> T]]
          /\ Left(s) \in Stores /\ Left(s)[d] = Freed
    <3>1. R.data \in Buffers /\ R.buf \in Stores
      <4>1. R \in [data : Buffers, buf : Stores]
        BY <2>1, Zenon DEF Holds
      <4> QED
        BY <4>1
    <3>2. /\ R.buf = [Left(s) EXCEPT ![R.data] = [refcount |-> 1, text |-> T]]
          /\ Left(s)[R.data] = Freed
      BY <2>1, Zenon, ZenonT(30) DEF Holds
    <3>3. Left(s) \in Stores
      BY LeftIsCounted, Zenon
    <3> QED
      BY <3>1, <3>2, <3>3, Zenon, ZenonT(30)
  <2> DEFINE H == Holders(d) \ {s}
  <2>3. H = {} /\ Cardinality(H) = 0
    <3>1. Left(s)[d].refcount = Cardinality(H)
      BY <2>2, LeftIsCounted, Zenon, ZenonT(30)
    <3>2. IsFiniteSet(H)
      BY FS_Subset, SMT, SMTT(30) DEF StringAssumption, Holders
    <3>3. Cardinality(H) = 0
      BY <2>2, <3>1, SMT, SMTT(30) DEF Freed
    <3> HIDE DEF H
    <3> QED
      BY <3>2, <3>3, FS_EmptySet
  <2>4. \A b \in Buffers : b # d => R.buf[b] = Left(s)[b]
    BY <2>2, SMT, SMTT(30) DEF Stores
  <2>5. /\ R.buf[d].text = T /\ R.buf[d].refcount = Cardinality(H) + 1 /\ d # 0
    BY <2>2, <2>3 DEF Stores, Buffers
  <2>6. Moves(s, d, T)
    BY <1>1, <1>3, <2>2, <2>3, <2>4, <2>5, Zenon, ZenonT(30) DEF Moves
  <2>7. Spares(s, d)
    <3> SUFFICES ASSUME NEW t \in Threads, op'[t] # Idle, data[op[t].s] = d
                 PROVE  FALSE
      BY Zenon DEF Spares
    <3>1. op'[t] = op[t] /\ op[t].s # s
      BY Zenon
    <3>2. op[t].s \in Strings
      BY <3>1, SMT, SMTT(30) DEF StringInv, Typed, Ops
    <3>3. op[t].s \in H
      BY <3>1, <3>2 DEF Holders
    <3> QED
      BY <2>3, <3>3, Zenon
  <2>8. d \in Buffers \cup {0}
    OBVIOUS
  <2> QED
    BY <2>6, <2>7, <2>8, MoveKeeps, Zenon, ZenonT(30)
<1> QED
  BY <1>2, <1>3

\* s = s1 takes one more reference to the buffer of s1.
LEMMA AssignStringKeeps ==
  ASSUME StringAssumption, StringInv, NEW t \in Threads, NEW s \in Strings, NEW s1 \in Strings,
         AssignString(t, s, s1)
  PROVE  StringInv'
<1> DEFINE d == data[s1]
           L == Left(s)
           T == want[s1]
<1>1. /\ op[t] = Idle /\ Owner[s] = t /\ Owner[s1] = t /\ data[s] # d /\ op' = op
      /\ want' = [want EXCEPT ![s] = T]
  BY Zenon DEF AssignString
<1>2. /\ data' = [data EXCEPT ![s] = d]
      /\ buf' = IF d = 0 THEN L ELSE [L EXCEPT ![d].refcount = @ + 1]
  <2>1. finalize(State(s)).buf = L
    BY FinalizeLeaves, Zenon, ZenonT(30)
  <2> HIDE DEF L
  <2> QED
    BY <2>1 DEF AssignString, Becomes
<1>3. /\ d \in Buffers \cup {0} /\ T \in Seq(Chars) /\ op \in [Threads -> Ops] /\ s # s1
      /\ IF d = 0 THEN T = <<>> ELSE T # <<>> /\ buf[d].text = T
  BY <1>1 DEF StringInv, Typed, Valued, Ops
<1>4. /\ L \in Stores
      /\ \A b \in Buffers : /\ L[b].refcount = Cardinality(Holders(b) \ {s})
                            /\ Holders(b) \ {s} # {} => L[b].text = buf[b].text
  BY LeftIsCounted, Zenon, ZenonT(30)
<1>5. d # 0 => Holders(d) \ {s} # {}
  BY <1>3, SMT, SMTT(30) DEF Holders
<1> HIDE DEF L
<1>6. /\ buf' \in Stores /\ \A b \in Buffers : b # d => buf'[b] = L[b]
      /\ d # 0 => buf'[d].text = L[d].text /\ buf'[d].refcount = L[d].refcount + 1
  <2>1. \A b \in Buffers : b # 0
    BY DEF Buffers
  <2>2. CASE d = 0
    BY <1>2, <1>4, <2>1, <2>2
  <2>3. CASE d # 0
    <3>1. d \in Buffers /\ buf' = [L EXCEPT ![d].refcount = @ + 1]
      BY <1>2, <1>3, <2>3
    <3>2. buf' = [L EXCEPT ![d] = [refcount |-> L[d].refcount + 1, text |-> L[d].text]]
      <4> DEFINE e == L[d]
      <4>1. e \in [refcount : Nat, text : Texts] /\ buf' = [L EXCEPT ![d] = [e EXCEPT !.refcount = e.refcount + 1]]
        BY <1>4, <3>1, Zenon DEF Stores
      <4> HIDE DEF e
      <4>2. [e EXCEPT !.refcount = e.refcount + 1] = [refcount |-> e.refcount + 1, text |-> e.text]
        BY <4>1
      <4> QED
        BY <4>1, <4>2, Zenon DEF e
    <3> HIDE DEF d
    <3> QED
      BY <1>4, <3>1, <3>2 DEF Stores
  <2> QED
    BY <2>2, <2>3
<1> HIDE DEF d, T
<1>7. Moves(s, d, T)
  <2>1. d # 0 => /\ T # <<>> /\ buf'[d].text = T
                 /\ buf'[d].refcount = Cardinality(Holders(d) \ {s}) + 1
                 /\ Holders(d) \ {s} # {} => L[d].text = T
    <3> SUFFICES ASSUME d # 0
                 PROVE  /\ T # <<>> /\ buf'[d].text = T
                        /\ buf'[d].refcount = Cardinality(Holders(d) \ {s}) + 1
                        /\ Holders(d) \ {s} # {} => L[d].text = T
      OBVIOUS
    <3>1. d \in Buffers /\ T # <<>> /\ buf[d].text = T
      BY <1>3
    <3>2. L[d].text = T /\ L[d].refcount = Cardinality(Holders(d) \ {s})
      BY <1>4, <1>5, <3>1, Zenon, ZenonT(30)
    <3> QED
      BY <1>6, <3>1, <3>2, Zenon, ZenonT(30)
  <2>2. d = 0 => T = <<>>
    BY <1>3
  <2> QED
    BY <1>1, <1>2, <1>6, <2>1, <2>2, Zenon, ZenonT(30) DEF Moves, L
<1>8. Spares(s, d)
  <2> SUFFICES ASSUME NEW u \in Threads, op[u] # Idle
               PROVE  /\ op[u].s # s
                      /\ ~op[u].shared /\ data[op[u].s] # 0 => data[op[u].s] # d
    BY <1>1, <1>3, Zenon DEF Spares
  <2>1. /\ op[u].s \in Strings /\ Owner[op[u].s] = u
        /\ ~op[u].shared /\ data[op[u].s] # 0 => Holders(data[op[u].s]) = {op[u].s}
    BY <1>3, Zenon DEF StringInv, Tested, Ops
  <2>2. u # t /\ op[u].s # s /\ op[u].s # s1
    BY <1>1, <2>1, Zenon
  <2> QED
    BY <2>1, <2>2 DEF Holders, d
<1> QED
  BY <1>3, <1>7, <1>8, MoveKeeps, Zenon, ZenonT(30)

\* copy makes a new string of a part.
LEMMA CopyKeeps ==
  ASSUME StringAssumption, StringInv, NEW t \in Threads, NEW s \in Strings, NEW s1 \in Strings,
         Copy(t, s, s1)
  PROVE  StringInv'
<1>1. PICK from \in 0..MaxLength, cnt \in 0..MaxLength :
        /\ Becomes(s, initialize(finalize(State(s)), CopyText(Text(State(s1)), from, cnt)))
        /\ want' = [want EXCEPT ![s] = CopyText(want[s1], from, cnt)]
  BY Zenon DEF Copy
<1>2. op[t] = Idle /\ Owner[s] = t /\ op' = op
  BY DEF Copy
<1> DEFINE T == CopyText(want[s1], from, cnt)
           R == initialize(finalize(State(s)), T)
<1>3. /\ want[s1] \in Seq(Chars) /\ Len(want[s1]) \in Nat /\ op \in [Threads -> Ops]
      /\ IF data[s1] = 0 THEN want[s1] = <<>> ELSE buf[data[s1]].text = want[s1]
      /\ from \in Nat /\ cnt \in Nat
  BY DEF StringInv, Typed, Valued, Ops, StringAssumption
<1>4. Text(State(s1)) = want[s1]
  BY <1>3 DEF Text, State
<1>5. Becomes(s, R)
  BY <1>1, <1>4, Zenon
<1>6. T \in Seq(Chars)
  <2> DEFINE k == IF from + cnt < Len(want[s1]) THEN from + cnt ELSE Len(want[s1])
             w == want[s1]
  <2>1. k \in Nat /\ k <= Len(w) /\ w \in Seq(Chars)
    BY <1>3
  <2>2. T = SubSeq(w, from + 1, k)
    BY DEF CopyText
  <2> HIDE DEF k, w
  <2>3. SubSeq(w, from + 1, k) \in Seq(Chars)
    BY <1>3, <2>1, PartOfText, Zenon
  <2> QED
    BY <2>2, <2>3, Zenon, ZenonT(30)
<1> HIDE DEF T
<1>7. Gives(s, R, T)
  BY <1>6, InitializeGives, Zenon
<1>8. ASSUME NEW u \in Threads, op'[u] # Idle
      PROVE  op'[u] = op[u] /\ op[u].s # s
  BY <1>2, <1>8, Zenon DEF StringInv, Tested
<1>9. want' = [want EXCEPT ![s] = T]
  BY <1>1, Zenon DEF T
<1> HIDE DEF R
<1> QED
  BY <1>2, <1>3, <1>5, <1>6, <1>7, <1>8, <1>9, BecomesKeeps, Zenon, ZenonT(30)

\* Steps that change no string.
LEMMA OnlyOpKeeps ==
  ASSUME StringInv, UNCHANGED <<data, buf, want>>, op' \in [Threads -> Ops],
         \A t \in Threads :
           op'[t] # Idle => /\ Owner[op'[t].s] = t
                            /\ ~op'[t].shared /\ data[op'[t].s] # 0 =>
                                 Holders(data[op'[t].s]) = {op'[t].s}
  PROVE  StringInv'
<1>1. Typed'
  BY Zenon DEF StringInv, Typed, Ops, Stores, Texts, Buffers, Idle
<1>2. Counted'
  BY DEF StringInv, Counted, Holders, Buffers, Freed
<1>3. Valued'
  BY DEF StringInv, Valued
<1>4. Tested'
  BY DEF Tested, Holders, Idle
<1> QED
  BY <1>1, <1>2, <1>3, <1>4, Zenon DEF StringInv

\* The test of the count: at most one holder is this string alone.
LEMMA BeginKeeps ==
  ASSUME StringAssumption, StringInv, NEW t \in Threads, NEW s \in Strings, Begin(t, s)
  PROVE  StringInv'
<1> DEFINE sh == data[s] # 0 /\ buf[data[s]].refcount > 1
           o == [kind |-> "write", s |-> s, shared |-> sh]
<1>1. /\ op[t] = Idle /\ Owner[s] = t /\ UNCHANGED <<data, buf, want>>
      /\ op' = [op EXCEPT ![t] = o]
  BY DEF Begin
<1>2. op \in [Threads -> Ops]
  BY SMT, SMTT(30) DEF StringInv, Typed, Ops
<1>3. o \in Ops /\ o.s = s /\ o.shared = sh
  BY DEF Ops
<1>4. ~sh /\ data[s] # 0 => Holders(data[s]) = {s}
  <2> SUFFICES ASSUME ~(buf[data[s]].refcount > 1), data[s] # 0 PROVE Holders(data[s]) = {s}
    OBVIOUS
  <2> DEFINE H == Holders(data[s])
  <2>1. data[s] \in Buffers /\ s \in H
    BY DEF StringInv, Typed, Holders
  <2>2. buf[data[s]].refcount = Cardinality(H)
    BY <2>1 DEF StringInv, Counted
  <2>3. IsFiniteSet(H)
    BY FS_Subset DEF StringAssumption, Holders
  <2> HIDE DEF H
  <2>4. Cardinality(H) \in Nat /\ Cardinality(H) # 0
    BY <2>1, <2>3, FS_CardinalityType, FS_EmptySet, SMT, SMTT(30)
  <2>5. Cardinality(H) = 1
    BY <2>2, <2>4
  <2>6. \E x : H = {x}
    BY <2>3, <2>5, FS_Singleton, Zenon, ZenonT(30)
  <2>7. H = {s}
    BY <2>1, <2>6, SMT, SMTT(30)
  <2> QED
    BY <2>7 DEF H
<1> HIDE DEF o, sh
<1>5. op' \in [Threads -> Ops] /\ op'[t] = o /\ \A u \in Threads : u # t => op'[u] = op[u]
  BY <1>1, <1>2, <1>3, SMT, SMTT(30)
<1>6. ASSUME NEW u \in Threads, op'[u] # Idle
      PROVE  /\ Owner[op'[u].s] = u
             /\ ~op'[u].shared /\ data[op'[u].s] # 0 => Holders(data[op'[u].s]) = {op'[u].s}
  <2>1. CASE u = t
    BY <1>1, <1>3, <1>4, <1>5, <2>1, Zenon
  <2>2. CASE u # t
    BY <1>5, <1>6, <2>2, Zenon DEF StringInv, Tested
  <2> QED
    BY <2>1, <2>2
<1> QED
  BY <1>1, <1>5, <1>6, OnlyOpKeeps, Zenon, ZenonT(30)

\* The rest of the operation, whatever happened since the test.
LEMMA FinishKeeps ==
  ASSUME StringAssumption, StringInv, NEW t \in Threads, Finish(t)
  PROVE  StringInv'
<1>1. op \in [Threads -> Ops] /\ op[t].kind = "write" /\ op' = [op EXCEPT ![t] = Idle]
  BY Zenon DEF StringInv, Typed, Ops, Finish
<1>2. PICK s \in Strings, shared \in BOOLEAN : op[t].s = s /\ op[t].shared = shared
  BY <1>1 DEF Ops, Idle
<1>3. op[t] # Idle
  BY <1>1 DEF Idle
<1>4. Owner[s] = t /\ Knows(s, shared)
  BY <1>2, <1>3, Zenon DEF StringInv, Tested, Knows
<1>5. op' \in [Threads -> Ops] /\ op'[t] = Idle /\ \A u \in Threads : u # t => op'[u] = op[u]
  BY <1>1 DEF Ops
<1>6. \A u \in Threads : op'[u] # Idle => op'[u] = op[u] /\ op[u].s # s
  <2> SUFFICES ASSUME NEW u \in Threads, op'[u] # Idle PROVE op'[u] = op[u] /\ op[u].s # s
    OBVIOUS
  <2>1. u # t /\ op'[u] = op[u]
    BY <1>5, Zenon
  <2>2. Owner[op[u].s] = u
    BY <2>1, Zenon, ZenonT(30) DEF StringInv, Tested
  <2> QED
    BY <1>4, <2>1, <2>2, Zenon
<1> DEFINE st == State(s)
           w == want[s]
<1>7. /\ w \in Seq(Chars) /\ Len(w) \in Nat
      /\ \A x \in Strings : /\ want[x] \in Seq(Chars)
                            /\ IF data[x] = 0 THEN want[x] = <<>>
                               ELSE want[x] # <<>> /\ buf[data[x]].text = want[x]
  BY DEF StringInv, Typed, Valued
<1>8. ASSUME NEW STATE R, NEW STATE T, T \in Seq(Chars), Gives(s, R, T), Becomes(s, R),
             want' = [want EXCEPT ![s] = T]
      PROVE  StringInv'
  BY <1>5, <1>6, <1>8, BecomesKeeps, Zenon
<1>9. \A c \in Chars : <<c>> \in Seq(Chars) /\ <<c>> # <<>>
  OBVIOUS
<1>10. ASSUME NEW c \in Chars, Becomes(s, assign(st, <<c>>, shared)), want' = [want EXCEPT ![s] = <<c>>]
       PROVE  StringInv'
  <2> DEFINE q == <<c>>
  <2>1. q \in Seq(Chars)
    BY <1>9
  <2> HIDE DEF q
  <2>2. Gives(s, assign(State(s), q, shared), q)
    BY <1>4, <2>1, AssignGives, Zenon
  <2>3. Becomes(s, assign(State(s), q, shared)) /\ want' = [want EXCEPT ![s] = q]
    BY <1>10 DEF q
  <2> QED
    BY <1>8, <2>1, <2>2, <2>3, Zenon
<1>11. ASSUME NEW c \in Chars, Becomes(s, concat(st, <<c>>, FALSE, shared)),
              want' = [want EXCEPT ![s] = Append(want[s], c)]
       PROVE  StringInv'
  <2> DEFINE q == <<c>>
             T == w \o q
  <2>1. q \in Seq(Chars) /\ q # <<>> /\ T \in Seq(Chars) /\ T = Append(w, c)
    BY <1>7, <1>9
  <2> HIDE DEF q
  <2>2. Gives(s, concat(State(s), q, FALSE, shared), want[s] \o q)
    BY <1>4, <2>1, ConcatGives, Zenon
  <2>3. Becomes(s, concat(State(s), q, FALSE, shared)) /\ want' = [want EXCEPT ![s] = T]
    BY <1>11, <2>1, Zenon DEF q
  <2> QED
    BY <1>8, <2>1, <2>2, <2>3, Zenon, ZenonT(30)
<1>12. ASSUME NEW s1 \in Strings, data[s] # 0,
              Becomes(s, concat(st, Text(State(s1)), data[s1] = data[s], shared)),
              want' = [want EXCEPT ![s] = want[s] \o want[s1]]
       PROVE  StringInv'
  <2> DEFINE q == want[s1]
             T == w \o q
             own == data[s1] = data[s]
  <2>1. Text(State(s1)) = q
    BY <1>7, SMT, SMTT(30) DEF Text, State
  <2>2. q \in Seq(Chars) /\ T \in Seq(Chars) /\ own \in BOOLEAN /\ (own => q = w)
    BY <1>7, <1>12
  <2>3. CASE q = <<>>
    <3>1. length(st) # 0
      BY <1>7, <1>12, SMT, SMTT(30) DEF length, Text, State
    <3>2. concat(st, q, own, shared) = st
      BY <2>3, <3>1 DEF concat
    <3>3. T = w
      BY <1>7, <2>3
    <3>4. UNCHANGED <<data, buf, want>>
      <4>1. Becomes(s, st) /\ want' = [want EXCEPT ![s] = w]
        BY <1>12, <2>1, <3>2, <3>3, Zenon
      <4> QED
        BY <4>1 DEF Becomes, State, StringInv, Typed
    <3>5. ASSUME NEW u \in Threads, op'[u] # Idle
          PROVE  /\ Owner[op'[u].s] = u
                 /\ ~op'[u].shared /\ data[op'[u].s] # 0 => Holders(data[op'[u].s]) = {op'[u].s}
      BY <1>6, <3>5, Zenon DEF StringInv, Tested
    <3> QED
      BY <1>5, <3>4, <3>5, OnlyOpKeeps, Zenon, ZenonT(30)
  <2>4. CASE q # <<>>
    <3> HIDE DEF own, q
    <3>1. Gives(s, concat(State(s), q, own, shared), want[s] \o q)
      BY <1>4, <2>2, <2>4, ConcatGives, Zenon
    <3>2. Becomes(s, concat(State(s), q, own, shared)) /\ want' = [want EXCEPT ![s] = T]
      BY <1>12, <2>1, Zenon DEF q, own
    <3> QED
      BY <1>8, <2>2, <3>1, <3>2, Zenon
  <2> QED
    BY <2>3, <2>4
<1>13. ASSUME NEW c \in Chars, NEW at \in 0..Len(want[s]), Becomes(s, ins(st, <<c>>, at, shared)),
              want' = [want EXCEPT ![s] = InsertAt(want[s], at + 1, c)]
       PROVE  StringInv'
  <2> DEFINE T == InsertAt(want[s], at + 1, c)
  <2>1. Gives(s, ins(State(s), <<c>>, at, shared), T) /\ T \in Seq(Chars)
    BY <1>4, InsGives
  <2> HIDE DEF T
  <2>2. Becomes(s, ins(State(s), <<c>>, at, shared)) /\ want' = [want EXCEPT ![s] = T]
    BY <1>13 DEF T
  <2> DEFINE R == ins(State(s), <<c>>, at, shared)
  <2> HIDE DEF R
  <2>3. Gives(s, R, T) /\ Becomes(s, R)
    BY <2>1, <2>2 DEF R
  <2> QED
    BY <1>8, <2>1, <2>2, <2>3, Zenon, ZenonT(30)
<1>14. ASSUME NEW from \in 0..Len(want[s]) - 1, NEW cnt \in 1..MaxLength,
              Becomes(s, del(st, from, cnt, shared)),
              want' = [want EXCEPT ![s] = SubSeq(want[s], 1, from)
                                            \o SubSeq(want[s], from + cnt + 1, Len(want[s]))]
       PROVE  StringInv'
  <2> DEFINE T == SubSeq(want[s], 1, from) \o SubSeq(want[s], from + cnt + 1, Len(want[s]))
             R == del(State(s), from, cnt, shared)
  <2>1. cnt \in Nat /\ cnt # 0
    BY DEF StringAssumption
  <2>2. Gives(s, R, T) /\ T \in Seq(Chars)
    BY <1>4, <2>1, DelGives, Zenon, ZenonT(30)
  <2>3. Becomes(s, R) /\ want' = [want EXCEPT ![s] = T]
    BY <1>14
  <2> HIDE DEF R, T
  <2> QED
    BY <1>8, <2>2, <2>3, Zenon
<1> QED
  <2>1. \/ \E c \in Chars : Becomes(s, assign(st, <<c>>, shared)) /\ want' = [want EXCEPT ![s] = <<c>>]
        \/ \E c \in Chars : /\ Becomes(s, concat(st, <<c>>, FALSE, shared))
                            /\ want' = [want EXCEPT ![s] = Append(want[s], c)]
        \/ \E s1 \in Strings :
             /\ data[s] # 0
             /\ Becomes(s, concat(st, Text(State(s1)), data[s1] = data[s], shared))
             /\ want' = [want EXCEPT ![s] = want[s] \o want[s1]]
        \/ \E c \in Chars, at \in 0..Len(want[s]) :
             /\ Becomes(s, ins(st, <<c>>, at, shared))
             /\ want' = [want EXCEPT ![s] = InsertAt(want[s], at + 1, c)]
        \/ \E from \in 0..Len(want[s]) - 1, cnt \in 1..MaxLength :
             /\ Becomes(s, del(st, from, cnt, shared))
             /\ want' = [want EXCEPT ![s] = SubSeq(want[s], 1, from)
                                              \o SubSeq(want[s], from + cnt + 1, Len(want[s]))]
    BY <1>2, Zenon DEF Finish
  <2> HIDE DEF st
  <2> QED
    BY <1>10, <1>11, <1>12, <1>13, <1>14, <2>1, Zenon, ZenonT(30)

\* At first all the strings share one buffer.
LEMMA InitIsCounted ==
  ASSUME StringAssumption, StringInit
  PROVE  StringInv
<1>1. PICK b \in Seq(Chars) :
        /\ b # <<>> /\ data = [s \in Strings |-> 1]
        /\ buf = [i \in Buffers |-> IF i = 1 THEN [refcount |-> Cardinality(Strings), text |-> b]
                                    ELSE Freed]
        /\ op = [t \in Threads |-> Idle]
        /\ want = [s \in Strings |-> b]
  <2>1. PICK b \in UNION {[1..n -> Chars] : n \in 1..MaxLength} :
          /\ data = [s \in Strings |-> 1]
          /\ buf = [i \in Buffers |-> IF i = 1 THEN [refcount |-> Cardinality(Strings), text |-> b]
                                      ELSE Freed]
          /\ op = [t \in Threads |-> Idle]
          /\ want = [s \in Strings |-> b]
    BY Zenon DEF StringInit
  <2>2. b \in Seq(Chars) /\ b # <<>>
    <3>1. PICK m \in 1..MaxLength : b \in [1..m -> Chars]
      BY Zenon
    <3>2. m \in Nat /\ m # 0
      BY <3>1 DEF StringAssumption
    <3>3. b \in Seq(Chars) /\ Len(b) = m
      BY <3>1, <3>2
    <3> QED
      BY <3>2, <3>3
  <2> QED
    BY <2>1, <2>2, Zenon
<1>2. Cardinality(Strings) \in Nat /\ Cardinality(Threads) \in Nat /\ Cardinality(Strings) # 0
  BY FS_CardinalityType, FS_EmptySet DEF StringAssumption
<1>3. 1 \in Buffers /\ \A i \in Buffers : i # 0
  BY <1>2 DEF Buffers
<1>4. b \in Texts /\ <<>> \in Texts
  BY DEF Texts
<1>5. Typed
  BY <1>1, <1>2, <1>3, <1>4, SMT, SMTT(30) DEF Typed, Stores, Freed, Ops
<1>6. Counted
  <2> SUFFICES ASSUME NEW i \in Buffers
               PROVE  /\ buf[i].refcount = Cardinality(Holders(i))
                      /\ Holders(i) = {} => buf[i] = Freed
    BY Zenon DEF Counted
  <2>1. CASE i = 1
    <3>1. Holders(i) = Strings
      BY <1>1, <2>1 DEF Holders
    <3> QED
      BY <1>1, <2>1, <3>1, SMT, SMTT(30) DEF StringAssumption
  <2>2. CASE i # 1
    <3>1. Holders(i) = {}
      BY <1>1, <2>2 DEF Holders
    <3> QED
      BY <1>1, <2>2, <3>1, FS_EmptySet, SMT, SMTT(30) DEF Freed
  <2> QED
    BY <2>1, <2>2
<1>7. Valued
  BY <1>1, <1>3, SMT, SMTT(30) DEF Valued
<1>8. Tested
  BY <1>1, SMT, SMTT(30) DEF Tested
<1> QED
  BY <1>5, <1>6, <1>7, <1>8, Zenon DEF StringInv

(* For any number of threads and strings, and strings of any length: a      *)
(* string has the value its own operations gave it, whatever the other      *)
(* holders of its buffer do between the test of the count and the write,    *)
(* and a buffer's count is the number of its holders.                       *)
THEOREM StringsAreAlwaysValues ==
  ASSUME StringAssumption
  PROVE  StringSpec => []StringsAreValues
<1>1. StringInit => StringInv
  BY InitIsCounted
<1>2. StringInv /\ [StringNext]_string_vars => StringInv'
  <2> SUFFICES ASSUME StringInv, [StringNext]_string_vars PROVE StringInv'
    OBVIOUS
  <2>1. CASE \E t \in Threads : Finish(t)
    BY <2>1, FinishKeeps, Zenon
  <2>2. CASE \E t \in Threads : \E s \in Strings : Begin(t, s)
    BY <2>2, BeginKeeps, Zenon
  <2>3. CASE \E t \in Threads : \E s \in Strings : \E s1 \in Strings : AssignString(t, s, s1)
    BY <2>3, AssignStringKeeps, Zenon
  <2>4. CASE \E t \in Threads : \E s \in Strings : \E s1 \in Strings : Copy(t, s, s1)
    BY <2>4, CopyKeeps, Zenon
  <2>5. CASE UNCHANGED string_vars
    <3>1. UNCHANGED <<data, buf, want>> /\ op' = op
      BY <2>5 DEF string_vars
    <3>2. op' \in [Threads -> Ops]
      BY <3>1 DEF StringInv, Typed, Ops
    <3>3. ASSUME NEW u \in Threads, op'[u] # Idle
          PROVE  /\ Owner[op'[u].s] = u
                 /\ ~op'[u].shared /\ data[op'[u].s] # 0 => Holders(data[op'[u].s]) = {op'[u].s}
      BY <3>1, <3>3, Zenon DEF StringInv, Tested
    <3> QED
      BY <3>1, <3>2, <3>3, OnlyOpKeeps, Zenon, ZenonT(30)
  <2> QED
    BY <2>1, <2>2, <2>3, <2>4, <2>5, Zenon, ZenonT(30) DEF StringNext
<1>3. StringInv => StringsAreValues
  <2> SUFFICES ASSUME StringInv PROVE StringsAreValues
    OBVIOUS
  <2>1. ASSUME NEW s \in Strings PROVE Text(State(s)) = want[s]
    BY DEF StringInv, Valued, Text, State
  <2>2. ASSUME NEW b \in Buffers
        PROVE  /\ buf[b].refcount = Cardinality(Holders(b))
               /\ Holders(b) = {} => buf[b] = Freed
    BY Zenon DEF StringInv, Counted
  <2>3. ASSUME NEW b \in Buffers, buf[b].refcount = 0 PROVE buf[b] = Freed
    <3> DEFINE H == Holders(b)
    <3>1. IsFiniteSet(H) /\ Cardinality(H) = 0
      BY <2>2, <2>3, FS_Subset DEF StringAssumption, Holders
    <3> HIDE DEF H
    <3>2. H = {}
      BY <3>1, FS_EmptySet
    <3> QED
      BY <2>2, <3>2, Zenon, ZenonT(30) DEF H
  <2> QED
    BY <2>1, <2>2, <2>3, Zenon DEF StringsAreValues, Holders
<1> QED
  BY <1>1, <1>2, <1>3, PTL DEF StringSpec
=============================================================================

----------------------------- MODULE OscPackets -----------------------------
(***************************************************************************)
(* The packets of WOscLib, by which Movid sends TUIO: WOscMessage,         *)
(* WOscBundle, WOscString, WOscBlob, the time tag and the byte order of    *)
(* WOscUtil.  A program adds arguments to messages and puts messages and   *)
(* bundles into bundles; a packet is bytes, which a receiver reads again.  *)
(*                                                                         *)
(* Characters and bytes are numbers; a float is its 32 bits.               *)
(*                                                                         *)
(* Two machines: the packets, and the time tags.                           *)
(***************************************************************************)
EXTENDS Integers, Sequences, SequencesExt

CONSTANTS
  Ints, Floats, Strings, Blobs,  \* arguments
  Addresses, Times,              \* of the messages and the bundles
  MaxArgs, MaxElements,          \* bounds on a message and on all bundles
  None

VARIABLES
  msg,     \* the message under construction
  bundle,  \* the bundle under construction
  sent,    \* the bundle sent last
  got      \* what the receiver made of it

packet_vars == <<msg, bundle, sent, got>>

Comma == 44
Tag(kind) == CASE kind = "i" -> 105 [] kind = "f" -> 102 [] kind = "s" -> 115 [] kind = "b" -> 98
HashBundle == <<35, 98, 117, 110, 100, 108, 101>>
Slash == 47
TIME_TAG_SIZE == 8
SIZE_SIZE == 4
-----------------------------------------------------------------------------
(* WOscUtil, WOscString, WOscBlob.                                         *)

GetSizeFourByteAligned(length) == length + ((4 - (length % 4)) % 4)

\* A number below 2^31 as big-endian bytes, and back.
WriteBuffer(n) == <<n \div 2^24, (n \div 2^16) % 256, (n \div 2^8) % 256, n % 256>>
CharBufToInt(buf, pos) ==
  buf[pos + 1] * 2^24 + buf[pos + 2] * 2^16 + buf[pos + 3] * 2^8 + buf[pos + 4]

Zeros(n) == [i \in 1..n |-> 0]

\* PadStringWithZeros: the characters, a zero, and zeros up to the size.
OscString(s) == s \o Zeros(GetSizeFourByteAligned(Len(s) + 1) - Len(s))

\* The C string that begins behind pos.
CString(buf, pos) ==
  LET end == CHOOSE e \in (pos + 1)..Len(buf) :
               buf[e] = 0 /\ \A i \in (pos + 1)..(e - 1) : buf[i] # 0
  IN SubSeq(buf, pos + 1, end - 1)

OscBlob(data) ==
  WriteBuffer(Len(data)) \o data \o Zeros(GetSizeFourByteAligned(Len(data)) - Len(data))

ReadBlob(buf, pos) == SubSeq(buf, pos + 5, pos + 4 + CharBufToInt(buf, pos))
-----------------------------------------------------------------------------
(* WOscMessage.                                                            *)

\* overrun: a blob was written behind the end of m_blobs.
NewMessage(address) ==
  [address |-> address, typeTag |-> <<Comma>>, members |-> [k \in {"i", "f", "s", "b"} |-> <<>>],
   overrun |-> FALSE]

\* The array for a second blob has as many places as there are strings.
Add(m, kind, v) ==
  [m EXCEPT !.typeTag = Append(@, Tag(kind)), !.members[kind] = Append(@, v),
            !.overrun = @ \/ /\ kind = "b" /\ Len(m.members["b"]) > 0
                             /\ Len(m.members["s"]) <= Len(m.members["b"])]

Encoded(kind, v) ==
  CASE kind \in {"i", "f"} -> WriteBuffer(v)
    [] kind = "s" -> OscString(v)
    [] kind = "b" -> OscBlob(v)

KindOf(tag) == CHOOSE k \in {"i", "f", "s", "b"} : Tag(k) = tag

\* Address, type tag, and the members in the order of the type tag.
GenerateBufferFromMembers(m) ==
  LET tags == Tail(m.typeTag)
      nth(n) == Len(SelectSeq(SubSeq(tags, 1, n), LAMBDA t : t = tags[n]))
      arg(n) == Encoded(KindOf(tags[n]), m.members[KindOf(tags[n])][nth(n)])
  IN OscString(m.address) \o OscString(m.typeTag)
       \o FlattenSeq([n \in 1..Len(tags) |-> arg(n)])

Decoded(kind, buf, pos) ==
  CASE kind \in {"i", "f"} -> CharBufToInt(buf, pos)
    [] kind = "s" -> CString(buf, pos)
    [] kind = "b" -> ReadBlob(buf, pos)

RECURSIVE ReadArguments(_, _, _, _)
\* The loop over the type tags: m so far, the tags left, the bytes from pos.
ReadArguments(m, tags, buf, pos) ==
  IF tags = <<>> THEN m
  ELSE LET kind == KindOf(Head(tags))
           v == Decoded(kind, buf, pos)
       IN ReadArguments(Add(m, kind, v), Tail(tags), buf, pos + Len(Encoded(kind, v)))

\* WOscMessage(buffer, bufferLen); None stands for an exception.
ReadMessage(buf) ==
  IF buf = <<>> \/ buf[1] # Slash THEN None
  ELSE LET address == CString(buf, 0)
           pos == Len(OscString(address))
       IN IF Len(buf) <= pos THEN NewMessage(address)
          ELSE LET tags == CString(buf, pos)
               IN ReadArguments(NewMessage(address), Tail(tags), buf,
                                pos + Len(OscString(tags)))
-----------------------------------------------------------------------------
(* WOscBundle.                                                             *)

NewBundle(time) == [time |-> time, messages |-> <<>>, bundles |-> <<>>]

RECURSIVE GenerateBufferFromElements(_)
\* The tag, the time, all messages, then all bundles, each behind its size.
GenerateBufferFromElements(b) ==
  LET sized(bytes) == WriteBuffer(Len(bytes)) \o bytes IN
  HashBundle \o <<0>> \o Zeros(4) \o WriteBuffer(b.time)
    \o FlattenSeq([i \in 1..Len(b.messages) |-> sized(GenerateBufferFromMembers(b.messages[i]))])
    \o FlattenSeq([i \in 1..Len(b.bundles) |-> sized(GenerateBufferFromElements(b.bundles[i]))])

\* Faulty: forgets that the size itself takes four bytes.
NextElement_NoSize(pos, size) == pos + size
NextElement(pos, size) == pos + size + SIZE_SIZE

\* CheckSize: -1 at the end, -2 for an exception.
CheckSize(pos, buf) ==
  CASE pos = Len(buf) -> -1
    [] pos # Len(buf) /\ pos + SIZE_SIZE > Len(buf) -> -2
    [] OTHER -> IF SIZE_SIZE + CharBufToInt(buf, pos) + pos > Len(buf) THEN -2
                ELSE CharBufToInt(buf, pos)

RECURSIVE ReadBundle(_), ReadElements(_, _, _)
ReadElements(b, buf, pos) ==
  LET size == CheckSize(pos, buf) IN
  CASE size = -1 -> b
    [] size = -2 -> None
    [] OTHER ->
       LET bytes == SubSeq(buf, pos + SIZE_SIZE + 1, pos + SIZE_SIZE + size)
           isBundle == size > 0 /\ bytes[1] = HashBundle[1]
           element == IF isBundle THEN ReadBundle(bytes) ELSE ReadMessage(bytes)
       IN IF element = None THEN None
          ELSE ReadElements(IF isBundle THEN [b EXCEPT !.bundles = Append(@, element)]
                            ELSE [b EXCEPT !.messages = Append(@, element)],
                            buf, NextElement(pos, size))

ReadBundle(buf) ==
  IF Len(buf) < 8 + TIME_TAG_SIZE \/ CString(buf, 0) # HashBundle THEN None
  ELSE ReadElements(NewBundle(CharBufToInt(buf, 12)), buf, 16)

Elements(b) == Len(b.messages) + Len(b.bundles)
                 + FoldLeft(LAMBDA n, x : n + Len(x.messages), 0, b.bundles)
-----------------------------------------------------------------------------
PacketInit ==
        /\ \E a \in Addresses : msg = NewMessage(a)
        /\ \E t \in Times : bundle = NewBundle(t)
        /\ sent = None /\ got = None

\* Add(int), Add(float), Add(const char*), Add(WOscString&), Add(WOscBlob*).
AddArgument ==
  /\ sent = None /\ Len(msg.typeTag) <= MaxArgs
  /\ \/ \E v \in Ints : msg' = Add(msg, "i", v)
     \/ \E v \in Floats : msg' = Add(msg, "f", v)
     \/ \E v \in Strings : msg' = Add(msg, "s", v)
     \/ \E v \in Blobs : msg' = Add(msg, "b", v)
  /\ UNCHANGED <<bundle, sent, got>>

\* The message goes into the bundle or into the last bundle of it.
AddMessage ==
  /\ sent = None /\ Elements(bundle) < MaxElements
  /\ \/ bundle' = [bundle EXCEPT !.messages = Append(@, msg)]
     \/ /\ bundle.bundles # <<>>
        /\ bundle' = [bundle EXCEPT !.bundles[Len(bundle.bundles)].messages = Append(@, msg)]
  /\ \E a \in Addresses : msg' = NewMessage(a)
  /\ UNCHANGED <<sent, got>>

AddBundle ==
  /\ sent = None /\ Elements(bundle) < MaxElements
  /\ \E t \in Times : bundle' = [bundle EXCEPT !.bundles = Append(@, NewBundle(t))]
  /\ UNCHANGED <<msg, sent, got>>

Overrun == \E m \in Range(bundle.messages \o
                        FlattenSeq([i \in 1..Len(bundle.bundles) |-> bundle.bundles[i].messages])) :
             m.overrun

\* moOSC::send, and the receiver's reading; a write behind an array may
\* have broken the packet.
Send ==
  /\ sent = None /\ sent' = bundle
  /\ \/ got' = ReadBundle(GenerateBufferFromElements(bundle))
     \/ Overrun /\ got' = None
  /\ UNCHANGED <<msg, bundle>>

PacketNext == AddArgument \/ AddMessage \/ AddBundle \/ Send

PacketSpec == PacketInit /\ [][PacketNext]_packet_vars
-----------------------------------------------------------------------------
(* What is sent arrives: the receiver reads every bundle with its time,    *)
(* the messages and bundles in it in the order of their lists, and of      *)
(* every message the address and the arguments of all kinds in their       *)
(* order, whatever the padding of strings and blobs (their sizes, the      *)
(* type tag and the element sizes are computed in different places).  The  *)
(* exception is a message whose second blob overran its array.             *)
PacketsComeBack == sent # None => got = sent \/ Overrun
-----------------------------------------------------------------------------
(* The time tags of WOscLib (WOscTimeTag.cpp) with WOSCLIB_UINT64: an         *)
(* unsigned number of TIME_TAG_SIZE bytes that is computed with, compared and *)
(* sent over the network byte by byte.  Sender and receiver may order the     *)
(* bytes of a number differently (IS_LITTLE_ENDIAN).                          *)

CONSTANTS
  Byte,           \* the values of a byte: 256 in the code
  TagBytes,  \* bytes of a tag: 8 in the code
  Clock           \* values of time(NULL), moved to 1900

VARIABLES
  little,    \* little[s]: side s is little-endian
  time_tag,       \* the tag of the sender
  other,     \* another tag the sender computes with
  net,       \* the last tags sent: [sent, wire, got]
  sum        \* the last tag another was added to: [before, added, after]

tag_vars == <<little, time_tag, other, net, sum>>

Modulus == Byte^TagBytes
Tags == 0 .. Modulus - 1

(********************************** Values ***********************************)

GetImmediateTime   == 1
GetSmallestTimeTag == GetImmediateTime
GetLargestTimeTag  == Modulus - 1

Plus(a, b)  == (a + b) % Modulus
Minus(a, b) == (a + Modulus - b) % Modulus

(* operator+= is written `m_timeTag =+ rhs.m_timeTag`: an assignment.         *)
PlusAssign(a, b)  == b
MinusAssign(a, b) == Minus(a, b)

Less(a, b) == a < b

(* time.h counts seconds; they become the number itself.                      *)
GetSystemTime(c) == c

(********************************** Bytes ************************************)

(* The i-th lowest byte of a number, and its bytes as they lie in memory.     *)
Digit(n, i) == (n \div Byte^i) % Byte
Memory(n, le) ==
  [i \in 0 .. TagBytes - 1 |-> Digit(n, IF le THEN i ELSE TagBytes - 1 - i)]
RECURSIVE Number(_, _)
Number(digits, i) ==
  IF i = TagBytes THEN 0 ELSE digits[i] * Byte^i + Number(digits, i + 1)
Value(mem, le) ==
  Number([i \in 0 .. TagBytes - 1 |-> mem[IF le THEN i ELSE TagBytes - 1 - i]], 0)

(* Turned around on a little-endian machine, copied on another.               *)
Swapped(bytes, le) ==
  [i \in 0 .. TagBytes - 1 |-> bytes[IF le THEN TagBytes - 1 - i ELSE i]]

ToCharArray_Copies(n, le) == Memory(n, le)
ToCharArray(n, le) == Swapped(Memory(n, le), le)
WriteToCharArray(n, le) == ToCharArray(n, le)
InitFromCharArray(buffer, le) == Value(Swapped(buffer, le), le)

(******************************** Operations *********************************)

Nothing == <<>>

TagInit ==
     /\ little \in [{"sender", "receiver"} -> BOOLEAN]
     /\ time_tag = GetImmediateTime /\ other = GetImmediateTime
     /\ net = Nothing /\ sum = Nothing

SetTag ==
  /\ time_tag' \in {GetSmallestTimeTag, GetLargestTimeTag} \cup {GetSystemTime(c) : c \in Clock}
  /\ net' = Nothing /\ sum' = Nothing
  /\ UNCHANGED <<little, other>>

Assign ==
  /\ other' = time_tag
  /\ net' = Nothing /\ sum' = Nothing
  /\ UNCHANGED <<little, time_tag>>

Compute ==
  /\ time_tag' \in {Plus(time_tag, other), Minus(time_tag, other), MinusAssign(time_tag, other)}
  /\ net' = Nothing /\ sum' = Nothing
  /\ UNCHANGED <<little, other>>

AddTo ==
  /\ time_tag' = PlusAssign(time_tag, other)
  /\ sum' = [before |-> time_tag, added |-> other, after |-> time_tag']
  /\ net' = Nothing
  /\ UNCHANGED <<little, other>>

SendTag ==
     /\ net' = [sent |-> <<time_tag, other>>, got |-> Nothing,
                wire |-> <<ToCharArray(time_tag, little["sender"]),
                           WriteToCharArray(other, little["sender"])>>]
     /\ sum' = Nothing
     /\ UNCHANGED <<little, time_tag, other>>

Receive ==
  /\ net # Nothing /\ net.got = Nothing
  /\ net' = [net EXCEPT !.got = [i \in 1 .. 2 |->
                                   InitFromCharArray(net.wire[i], little["receiver"])]]
  /\ UNCHANGED <<little, time_tag, other, sum>>

TagNext == SetTag \/ Assign \/ Compute \/ AddTo \/ SendTag \/ Receive

TagSpec == TagInit /\ [][TagNext]_tag_vars

(******************************** Properties *********************************)

(* The bytes on the wire are big-endian whatever the machines are: the       *)
(* receiver gets the numbers the sender had, and a receiver that only         *)
(* compares bytes from the first on finds the same tag earlier.               *)
TagsTravel ==
  (net # Nothing /\ net.got # Nothing) =>
    LET a == net.wire[1]  b == net.wire[2]
    IN  /\ net.got = net.sent
        /\ Less(net.sent[1], net.sent[2]) <=>
             \E i \in DOMAIN a : a[i] < b[i] /\ \A j \in 0 .. i - 1 : a[j] = b[j]

(* WOscTimeTag.cpp:310: "Adds the right-hand time-tag to the left-hand        *)
(* time-tag, stores the result in the left-hand time-tag".                    *)
AddsAndStores == sum # Nothing => sum.after = Plus(sum.before, sum.added)
=============================================================================

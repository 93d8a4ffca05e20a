------------------------------- MODULE NetParser -------------------------------
(***************************************************************************)
(* util/parser.{hh,cc}, util/buffer.{hh,cc} and the InternetChecksum of    *)
(* util/util.cc.  A string is a sequence of bytes, a BufferList or         *)
(* BufferViewList a sequence of strings.  A uint32_t is the pair of its    *)
(* halves, since TLC has no integers that large; an Ethernet address is    *)
(* the sequence of its six bytes.                                          *)
(***************************************************************************)
EXTENDS Integers, SequencesExt

\* concatenate() and size() of a BufferList
concatenate(views) == FlattenSeq(views)
list_size(views) == Len(concatenate(views))

\* remove_prefix of BufferList and BufferViewList: whole views go first.  They
\* throw when n is larger than the list.
RECURSIVE remove_prefix(_, _)
remove_prefix(views, n) ==
    IF n = 0 THEN views
    ELSE LET front == Head(views)
         IN  IF n < Len(front) THEN <<SubSeq(front, n + 1, Len(front))>> \o Tail(views)
             ELSE remove_prefix(Tail(views), n - Len(front))

-------------------------------------------------------------------------------
(* NetParser: what is left of the buffer, and the first error *)
new_NetParser(buffer) == [buffer |-> buffer, error |-> "NoError"]

check_size(p, size) ==
    IF size > Len(p.buffer) THEN [p EXCEPT !.error = "PacketTooShort"] ELSE p

skip(p, n) ==
    LET q == check_size(p, n)
    IN  IF q.error # "NoError" THEN q ELSE [q EXCEPT !.buffer = SubSeq(@, n + 1, Len(@))]

u16_of(bytes) == 256 * bytes[1] + bytes[2]
u16_bytes(val) == <<val \div 256, val % 256>>

\* The value of the integer, or of the address, in network byte order
value_of(bytes) ==
    CASE Len(bytes) = 1 -> bytes[1]
      [] Len(bytes) = 2 -> u16_of(bytes)
      [] Len(bytes) = 4 -> <<u16_of(SubSeq(bytes, 1, 2)), u16_of(SubSeq(bytes, 3, 4))>>
      [] OTHER -> bytes

parse_int(p, len) ==
    LET q == check_size(p, len)
    IN  value_of(IF q.error # "NoError" THEN [i \in 1 .. len |-> 0] ELSE SubSeq(q.buffer, 1, len))

unparse_int(val, len) ==
    CASE len = 1 -> <<val>>
      [] len = 2 -> u16_bytes(val)
      [] len = 4 -> u16_bytes(val[1]) \o u16_bytes(val[2])
      [] OTHER -> val

\* A header is laid out as a sequence of fields, each with a name and a length:
\* what the calls of u8, u16 and u32, one after the other, give and leave.
RECURSIVE parse_fields(_, _)
parse_fields(p, layout) ==
    IF layout = << >> THEN [p |-> p, h |-> << >>]
    ELSE LET f == Head(layout)
             rest == parse_fields(skip(p, f.len), Tail(layout))
         IN  [rest EXCEPT !.h = (f.name :> parse_int(p, f.len)) @@ @]

unparse_fields(h, layout) ==
    concatenate([i \in DOMAIN layout |-> unparse_int(h[layout[i].name], layout[i].len)])

Field(name, len) == [name |-> name, len |-> len]

\* string::resize
resize(s, n) == [i \in 1 .. n |-> IF i <= Len(s) THEN s[i] ELSE 0]

-------------------------------------------------------------------------------
(* InternetChecksum *)
new_InternetChecksum(initial_sum) == [sum |-> initial_sum, parity |-> FALSE]

\* Variant: a byte without a partner counts as the low one of its word.
checksum_add_low_tail(c, data) ==
    LET high(i) == (i % 2 = 1) # c.parity /\ i < Len(data)
    IN  [sum |-> c.sum + MapThenSumSet(LAMBDA i : IF high(i) THEN 256 * data[i] ELSE data[i], DOMAIN data),
         parity |-> c.parity # (Len(data) % 2 = 1)]

checksum_add(c, data) ==
    LET high(i) == (i % 2 = 1) # c.parity       \* byte i is the high one of its word
    IN  [sum |-> c.sum + MapThenSumSet(LAMBDA i : IF high(i) THEN 256 * data[i] ELSE data[i], DOMAIN data),
         parity |-> c.parity # (Len(data) % 2 = 1)]

RECURSIVE folded(_)
folded(sum) == IF sum > 65535 THEN folded((sum \div 65536) + (sum % 65536)) ELSE sum

checksum_value(c) == 65535 - folded(c.sum)
===============================================================================

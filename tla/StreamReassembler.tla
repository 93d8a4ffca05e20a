-------------------------- MODULE StreamReassembler --------------------------
(***************************************************************************)
(* libsponge/stream_reassembler.{hh,cc}: puts substrings of a byte stream, *)
(* which arrive in any order and may overlap, back in order and writes     *)
(* them to an output ByteStream.                                           *)
(*                                                                         *)
(* The two loops of the code walk a std::map in key order.  They are given *)
(* here by what they compute: which entries are erased, where the merged   *)
(* substring starts and ends, how far the output advances.  Module         *)
(* ReassemblerLoops has the loops themselves and TLC compares the two.     *)
(***************************************************************************)
EXTENDS ByteStream, FiniteSets

IsReassembler(r, Byte) ==
    /\ r = [output            |-> r.output,
            capacity          |-> r.capacity,
            unassembled_bytes |-> r.unassembled_bytes,  \* std::map, by first index
            unassembled_cnt   |-> r.unassembled_cnt,
            unassembled_index |-> r.unassembled_index,  \* first index not in the output
            eof_index         |-> r.eof_index]
    /\ r.output \in ByteStreams(Byte)
    /\ DOMAIN r.unassembled_bytes \subseteq Nat
    /\ r.unassembled_bytes \in [DOMAIN r.unassembled_bytes -> Seq(Byte)]
    /\ {r.capacity, r.unassembled_cnt, r.unassembled_index, r.eof_index} \subseteq Nat

new_StreamReassembler(capacity) ==
    [output |-> new_ByteStream(capacity), capacity |-> capacity,
     unassembled_bytes |-> << >>, unassembled_cnt |-> 0,
     unassembled_index |-> 0, eof_index |-> SizeMax]

\* Variant: it is not computed anew.
unaccepted_index_first(r) == r.capacity

\* _unaccepted_index, which the code computes anew before each use
unaccepted_index(r) == r.output.read + r.capacity

\* The stream indices an entry of the map occupies, and those a set of them does.
Extent(m, k) == k .. k + Len(m[k]) - 1
Extents(m, K) == UNION {Extent(m, k) : k \in K}
StoredBytes(r) == Extents(r.unassembled_bytes, DOMAIN r.unassembled_bytes)

\* Room left by the bytes in the output and the bytes stored out of order
free_space(r) ==
    SizeSub(SizeSub(r.capacity, buffer_size(r.output)), r.unassembled_cnt)

\* std::map::insert, which leaves the map alone when the key is present
map_insert(m, k, s) ==
    [x \in DOMAIN m \cup {k} |-> IF x \in DOMAIN m THEN m[x] ELSE s]

map_erase(m, K) == [x \in DOMAIN m \ K |-> m[x]]

-------------------------------------------------------------------------------
(***************************************************************************)
(* merge_string stores a substring that starts past the next byte wanted.  *)
(* Entries that meet it are erased, with the pieces of them that stick out *)
(* to the left and to the right joined to the substring; an entry that     *)
(* contains it makes the call do nothing.                                  *)
(***************************************************************************)
Overlapping(m, st, ed) == {k \in DOMAIN m : st < k + Len(m[k]) /\ k < ed}

Contains(m, k, st, ed) ==
    /\ ~(st <= k /\ ed >= k + Len(m[k]))
    /\ k <= st /\ k + Len(m[k]) >= ed

\* Variant: the merged substring keeps the index of the pushed one.
merged_index_pushed(m, st, ed) == st

\* Where the merged substring starts, and the substring
merged_index(m, st, ed) ==
    LET left == {k \in Overlapping(m, st, ed) : k < st}
    IN  IF left = {} THEN st ELSE CHOOSE k \in left : TRUE

merged_data(m, data, st, ed) ==
    LET left  == {k \in Overlapping(m, st, ed) : k < st}
        right == {k \in Overlapping(m, st, ed) : k + Len(m[k]) > ed}
        before == IF left = {} THEN << >>
                  ELSE LET k == CHOOSE k \in left : TRUE
                       IN  SubSeq(m[k], 1, st - k)
        after == IF right = {} THEN << >>
                 ELSE LET k == CHOOSE k \in right : TRUE
                      IN  SubSeq(m[k], ed - k + 1, Len(m[k]))
    IN  before \o data \o after

\* Variants: bytes that are cut off are counted; nothing is cut off.
insert_merged_count_all(r, data, index) ==
    LET bound_index == MinOf(index + Len(data), unaccepted_index(r))
        insert_size == MinOf(bound_index - index, free_space(r))
    IN  [r EXCEPT
           !.unassembled_cnt   = @ + Len(data),
           !.unassembled_bytes = map_insert(@, index, SubSeq(data, 1, insert_size))]

insert_merged_uncut(r, data, index) ==
    [r EXCEPT
       !.unassembled_cnt   = @ + Len(data),
       !.unassembled_bytes = map_insert(@, index, data)]

\* The insertion at the end of merge_string, the two capacity checks included
insert_merged(r, data, index) ==
    LET bound_index == MinOf(index + Len(data), unaccepted_index(r))
        insert_size == MinOf(bound_index - index, free_space(r))
    IN  [r EXCEPT
           !.unassembled_cnt   = @ + insert_size,
           !.unassembled_bytes = map_insert(@, index, SubSeq(data, 1, insert_size))]

\* Variant: an entry is taken out of the count twice.
erase_entries_twice(r, K) ==
    [r EXCEPT
       !.unassembled_bytes = map_erase(@, K),
       !.unassembled_cnt   = @ - 2 * Cardinality(Extents(r.unassembled_bytes, K))]

erase_entries(r, K) ==
    [r EXCEPT
       !.unassembled_bytes = map_erase(@, K),
       !.unassembled_cnt   = @ - Cardinality(Extents(r.unassembled_bytes, K))]

merge_string(r, data, index) ==
    LET m == r.unassembled_bytes
        st == index
        ed == index + Len(data)
        overlapping == Overlapping(m, st, ed)
    IN  IF data = << >> \/ \E k \in overlapping : Contains(m, k, st, ed)
          THEN r
          ELSE insert_merged(erase_entries(r, overlapping),
                             merged_data(m, data, st, ed),
                             merged_index(m, st, ed))

-------------------------------------------------------------------------------
(***************************************************************************)
(* The other branch of push_substring: the substring reaches the next byte *)
(* wanted.  It is cut on both sides and written; then every stored entry   *)
(* the output has reached is written and erased.                           *)
(***************************************************************************)
\* Variant: the bytes already written are not cut off.
write_in_order_uncut(r, data, index) ==
    [r EXCEPT
       !.output            = stream_write(@, data),
       !.unassembled_index = @ + bytes_accepted(r.output, data)]

write_in_order(r, data, index) ==
    LET u == r.unassembled_index
        bound_index == MinOf(index + Len(data), unaccepted_index(r))
        n == MinOf(bound_index - u, free_space(r))
        write_data == SubSeq(data, u - index + 1, MinOf(u - index + n, Len(data)))
    IN  [r EXCEPT
           !.output            = stream_write(@, write_data),
           !.unassembled_index = @ + bytes_accepted(r.output, write_data)]

\* The first index from u on that no entry holds: where the output stops
first_gap(m, u) ==
    LET stored == Extents(m, DOMAIN m)
    IN  CHOOSE g \in u .. u + Cardinality(stored) :
            g \notin stored /\ u .. g - 1 \subseteq stored

stored_byte(m, i) ==
    LET k == CHOOSE k \in DOMAIN m : i \in Extent(m, k) IN m[k][i - k + 1]

drain(r) ==
    LET m == r.unassembled_bytes
        u == r.unassembled_index
        gap == first_gap(m, u)
        bytes == [j \in 1 .. gap - u |-> stored_byte(m, u + j - 1)]
        written == [r EXCEPT
                      !.output            = stream_write(@, bytes),
                      !.unassembled_index = @ + bytes_accepted(r.output, bytes)]
    IN  erase_entries(written, {k \in DOMAIN m : k <= gap})

-------------------------------------------------------------------------------
\* Variant: the end is noticed one byte late.
finish_if_complete_late(r) ==
    IF r.unassembled_index > r.eof_index
      THEN [r EXCEPT !.output = end_input(@)]
      ELSE r

finish_if_complete(r) ==
    IF r.unassembled_index >= r.eof_index
      THEN [r EXCEPT !.output = end_input(@)]
      ELSE r

note_eof(r, data, index, eof) ==
    IF eof THEN [r EXCEPT !.eof_index = SizeAdd(index, Len(data))] ELSE r

\* data lies before the next byte wanted, or past the window
out_of_window(r, data, index) ==
    \/ SizeAdd(index, Len(data)) < r.unassembled_index
    \/ index > unaccepted_index(r)

\* Variant: a substring that starts with the byte wanted next is stored.
push_in_window_stored(r, data, index) ==
    IF index >= r.unassembled_index
      THEN merge_string(r, data, index)
      ELSE drain(write_in_order(r, data, index))

push_in_window(r, data, index) ==
    IF index > r.unassembled_index
      THEN merge_string(r, data, index)
      ELSE drain(write_in_order(r, data, index))

push_substring(r, data, index, eof) ==
    LET q == note_eof(r, data, index, eof)
    IN  IF q.unassembled_index >= q.eof_index THEN finish_if_complete(q)
        ELSE IF out_of_window(q, data, index) THEN q
        ELSE finish_if_complete(push_in_window(q, data, index))

\* The application takes len bytes off the output (stream_out().read(len)).
read_output(r, len) == [r EXCEPT !.output = pop_output(@, len)]
===============================================================================

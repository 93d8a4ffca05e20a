--------------------------- MODULE ReassemblerLoops ---------------------------
(***************************************************************************)
(* The two loops of stream_reassembler.cc as they are written: a walk over *)
(* the map in key order that changes data, index and the map on the way.   *)
(* StreamReassembler gives what they compute; LoopsAgree compares the two  *)
(* in every reachable state and on every substring of the stream.          *)
(***************************************************************************)
EXTENDS ReassemblerSystem, FiniteSetsExt

\* A short stream whose bytes are all different
CONSTANT N        \* length of the stream

MCStream == [i \in 1 .. N |-> i]
MCByte == 0 .. N

\* One pass of the while loop of merge_string over the keys in `todo`.  st and
\* ed are fixed before the loop; data and index change.
RECURSIVE merge_loop(_, _, _, _, _, _)
merge_loop(r, todo, data, index, st, ed) ==
    IF todo = {} \/ index + Len(data) <= Min(todo)
      THEN [r |-> r, data |-> data, index |-> index]
      ELSE
        LET m == r.unassembled_bytes
            map_st == Min(todo)
            sub_str == m[map_st]
            map_ed == map_st + Len(sub_str)
            rest == todo \ {map_st}
            erased == erase_entries(r, {map_st})
        IN  IF ~(st < map_ed /\ map_st < ed)
              THEN merge_loop(r, rest, data, index, st, ed)
            ELSE IF st <= map_st /\ ed >= map_ed
              THEN merge_loop(erased, rest, data, index, st, ed)
            ELSE IF map_st <= st /\ map_ed >= ed
              THEN merge_loop(r, rest, << >>, index, st, ed)
            ELSE IF st <= map_st
              THEN merge_loop(erased, rest,
                              data \o SubSeq(sub_str, ed - map_st + 1, Len(sub_str)),
                              index, st, ed)
              ELSE merge_loop(erased, rest,
                              SubSeq(sub_str, 1, st - map_st) \o data,
                              map_st, st, ed)

merge_string_loop(r, data, index) ==
    LET done == merge_loop(r, DOMAIN r.unassembled_bytes, data, index,
                           index, index + Len(data))
    IN  IF done.data = << >>
          THEN done.r
          ELSE insert_merged(done.r, done.data, done.index)

\* The while loop after the in-order write: the first entry is written and
\* erased for as long as the output has reached it.
RECURSIVE drain_loop(_)
drain_loop(r) ==
    LET m == r.unassembled_bytes
    IN  IF DOMAIN m = {} \/ Min(DOMAIN m) > r.unassembled_index
          THEN r
          ELSE
            LET map_index == Min(DOMAIN m)
                map_str == m[map_index]
                u == r.unassembled_index
                suffix == SubSeq(map_str, u - map_index + 1, Len(map_str))
                written == IF map_index + Len(map_str) > u
                             THEN bytes_accepted(r.output, suffix) ELSE 0
                output == IF map_index + Len(map_str) > u
                            THEN stream_write(r.output, suffix) ELSE r.output
            IN  drain_loop([erase_entries(r, {map_index}) EXCEPT
                              !.output = output,
                              !.unassembled_index = @ + written])

\* What merge_string and the drain do to the map, the count and the output is
\* what the loops of the code do, in every state the reassembler can reach and
\* for every substring in the window.
LoopsAgree ==
    \A i, n \in 0 .. N :
        LET data == Slice(i, n)
            w == write_in_order(ra, data, i)
        IN  i + n <= N /\ ~out_of_window(ra, data, i) /\ ~ra.output.input_end =>
              IF i > ra.unassembled_index
                THEN merge_string(ra, data, i) = merge_string_loop(ra, data, i)
                ELSE drain(w) = drain_loop(w)
===============================================================================

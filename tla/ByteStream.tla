------------------------------ MODULE ByteStream ------------------------------
(***************************************************************************)
(* libsponge/byte_stream.{hh,cc}: a flow-controlled in-order byte stream.  *)
(* An object is a record, a method an operator from the record to the new  *)
(* record.  A method that also returns a value has a second operator for   *)
(* it (stream_write and bytes_accepted).                                   *)
(***************************************************************************)
EXTENDS SizeArith, Sequences

ByteStreams(Byte) ==
    [buffer    : Seq(Byte),   \* _byte_stream
     capacity  : Nat,         \* _capacity
     written   : Nat,         \* _byte_written_size
     read      : Nat,         \* _byte_read_size
     input_end : BOOLEAN,     \* _input_end
     error     : BOOLEAN]     \* _error

new_ByteStream(capacity) ==
    [buffer |-> << >>, capacity |-> capacity, written |-> 0, read |-> 0,
     input_end |-> FALSE, error |-> FALSE]

buffer_size(bs) == Len(bs.buffer)
remaining_capacity(bs) == bs.capacity - Len(bs.buffer)
stream_eof(bs) == bs.input_end /\ bs.buffer = << >>

\* The return value of write(data): how many bytes of data are taken.
bytes_accepted(bs, data) ==
    IF bs.input_end THEN 0 ELSE MinOf(Len(data), remaining_capacity(bs))

\* Variant: the end of data is taken when not all of it fits.
stream_write_suffix(bs, data) ==
    LET n == bytes_accepted(bs, data)
    IN  [bs EXCEPT !.buffer  = @ \o SubSeq(data, Len(data) - n + 1, Len(data)),
                   !.written = @ + n]

stream_write(bs, data) ==
    LET n == bytes_accepted(bs, data)
    IN  [bs EXCEPT !.buffer  = @ \o SubSeq(data, 1, n),
                   !.written = @ + n]

peek_output(bs, len) == SubSeq(bs.buffer, 1, MinOf(len, buffer_size(bs)))

\* Variant: the bytes read are not counted.
pop_output_uncounted(bs, len) ==
    [bs EXCEPT !.buffer = SubSeq(@, MinOf(len, Len(@)) + 1, Len(@))]

\* read(len) is peek_output(len) followed by pop_output(len).
pop_output(bs, len) ==
    LET n == MinOf(len, buffer_size(bs))
    IN  [bs EXCEPT !.buffer = SubSeq(@, n + 1, Len(@)),
                   !.read   = @ + n]

end_input(bs) == [bs EXCEPT !.input_end = TRUE]
set_error(bs) == [bs EXCEPT !.error = TRUE]
===============================================================================

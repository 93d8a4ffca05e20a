------------------------------ MODULE SocketPair ------------------------------
(***************************************************************************)
(* A connected pair of AF_UNIX stream sockets (socketpair(2)), as the      *)
(* source uses it: for each direction the bytes written and not yet read,  *)
(* and whether it is shut down.  FileDescriptor::read, FileDescriptor::    *)
(* write without write_all and Socket::shutdown are modelled with the      *)
(* system call each makes; a direction shut down at one end is shut down   *)
(* at the other.                                                           *)
(***************************************************************************)
EXTENDS Integers, Sequences

CONSTANT PipeCapacity    \* how many bytes a direction holds

NewPipe == [bytes |-> << >>, shut |-> FALSE]

\* What poll(2) reports; writing is allowed again once a quarter is in use at most.
Readable(p) == p.bytes # << >> \/ p.shut
Writable(p) == 4 * Len(p.bytes) <= PipeCapacity
HungUp(p, q) == p.shut /\ q.shut

\* FileDescriptor::read(limit) of what is there; that an empty result sets _eof is
\* part of the rules that read
ReadFrom(p, limit) == SubSeq(p.bytes, 1, IF limit < Len(p.bytes) THEN limit ELSE Len(p.bytes))
AfterRead(p, limit) == [p EXCEPT !.bytes = SubSeq(@, Len(ReadFrom(p, limit)) + 1, Len(@))]

\* FileDescriptor::write fails with EPIPE after a shutdown; otherwise one writev takes
\* what there is room for.
BrokenPipe(p, data) == p.shut /\ data # << >>
Taken(p, data) ==
    LET room == PipeCapacity - Len(p.bytes) IN IF Len(data) < room THEN Len(data) ELSE room
AfterWrite(p, data) == [p EXCEPT !.bytes = @ \o SubSeq(data, 1, Taken(p, data))]

\* Socket::shutdown of one direction
ShutDown(p) == [p EXCEPT !.shut = TRUE]
===============================================================================

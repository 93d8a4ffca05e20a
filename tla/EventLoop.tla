------------------------------- MODULE EventLoop -------------------------------
(***************************************************************************)
(* libsponge/util/eventloop.{hh,cc}.  The owner of a loop is a record with *)
(* two fields for it: rules, the numbers of the rules in the order they    *)
(* were added and not cancelled since, and todo, what the results of the   *)
(* last poll leave to do.  wait_next_event is several steps, because other *)
(* threads run between poll and each callback: `waiting` and `results` are *)
(* taken in one step, each member of todo in a step of its own.            *)
(***************************************************************************)
EXTENDS Sequences

CONSTANTS
    Defunct(_, _),   \* Defunct(o, r): r's fd is closed, or at EOF and r reads it
    Interest(_, _),  \* Interest(o, r): the value of r's interest()
    Cancel(_, _)     \* Cancel(o, r): o after r's cancel()

\* The loop that sets up the pollfds of `rest`, with o.rules and `asked` for the
\* rules before them: the rules kept, and those that asked for their event
RECURSIVE set_up(_, _, _)
set_up(o, asked, rest) ==
    IF rest = << >> THEN [o |-> o, asked |-> asked]
    ELSE LET r == Head(rest)
         IN  IF Defunct(o, r)
               THEN set_up(Cancel(o, r), asked, Tail(rest))
               ELSE set_up([o EXCEPT !.rules = Append(@, r)],
                           IF Interest(o, r) THEN asked \cup {r} ELSE asked, Tail(rest))

\* When nothing is asked for, wait_next_event returns Exit.
waiting(o) == set_up([o EXCEPT !.rules = << >>], {}, o.rules)

\* poll reports a hangup whether or not it was asked for anything; `ready` and `hup`
\* are the rules whose descriptors are ready and have hung up.
poll_returns(w, ready, hup) ==
    \E i \in DOMAIN w.o.rules : w.o.rules[i] \in hup \cup (w.asked \cap ready)

\* Variant: a hangup counts before what is still to be read.
acted_on_hup_first(ready, hup) == IF hup THEN "cancel" ELSE "callback"

\* What is to be done for a result of poll: the callback of a rule that is ready,
\* the cancellation of one that only hung up
acted_on(ready, hup) == IF ready THEN "callback" ELSE "cancel"

results(w, ready, hup) ==
    LET acted == SelectSeq(w.o.rules, LAMBDA r : r \in w.asked \cap (ready \cup hup))
    IN  [w.o EXCEPT !.todo = [i \in DOMAIN acted |->
            [rule |-> acted[i], action |-> acted_on(acted[i] \in ready, acted[i] \in hup)]]]

hung_up(o) ==
    LET r == Head(o.todo).rule
    IN  [Cancel(o, r) EXCEPT !.rules = SelectSeq(@, LAMBDA q : q # r), !.todo = Tail(@)]

\* After the callback of r, which read or wrote its fd when `served`; a callback
\* that did not and leaves the rule interested is a busy wait, and throws.
busy_wait(o, r, served) == ~served /\ Interest(o, r)
called_back(o) == [o EXCEPT !.todo = Tail(@)]
===============================================================================

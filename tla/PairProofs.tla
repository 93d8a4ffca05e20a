------------------------------ MODULE PairProofs ------------------------------
(***************************************************************************)
(* Two TCP connections over a network that loses, duplicates and reorders  *)
(* segments: the invariant of the pair, what it says of acknowledgments,   *)
(* of closing and of resets, and that the pair implements ReliableStreams. *)
(* PairLemmas shows it from what the connections keep, ConnectionLemmas    *)
(* that from the rules in ConnectionFlow, which the lemmas about the       *)
(* sender and the reassembler prove.                                       *)
(***************************************************************************)
EXTENDS PairLemmas, ConnectionLemmas, SenderLemmas, ReassemblerLemmas

\* The sender and the reassembler keep the rules that a connection relies on.
LEMMA RulesHold == Rules
<1>1. SpaceRule
  BY Constants, Zenon DEF SpaceRule
<1>2. FlowRule
  BY OutgoingFlow, Zenon DEF FlowRule
<1>3. WrapRule
  BY WrapStart, Zenon DEF WrapRule
<1>4. LimitRule
  BY NextWithinLimit, Zenon DEF LimitRule
<1>5. StandingRule
  BY StandsStood, Zenon DEF StandingRule
<1>6. FollowingRule
  BY FollowsOn, Zenon DEF FollowingRule
<1>7. ProceedingRule
  BY ProceedsOn, Zenon DEF ProceedingRule
<1>8. FillRule
  BY FillProceeds, Zenon DEF FillRule
<1>9. AnswerRule
  BY AnswerProceeds, Zenon DEF AnswerRule
<1>10. TickRule
  BY TickProceeds, Zenon DEF TickRule
<1>11. TakeRule
  BY TakenProceeds, Zenon DEF TakeRule
<1>12. AckRule
  BY AckProceeds, Zenon DEF AckRule
<1>13. WriteRule
  BY WriteProceeds, Zenon DEF WriteRule
<1>14. EndRule
  BY EndProceeds, ZenonT(40) DEF EndRule
<1>15. SenderErrorRule
  BY ErrorProceeds, Zenon DEF SenderErrorRule
<1>16. NewSenderRule
  BY NewStands, Zenon DEF NewSenderRule
<1>17. StampRule
  BY StampedSays, Zenon DEF StampRule
<1>18. SayingRule
  BY SaysFollows, Zenon DEF SayingRule
<1>19. PlaceRule
  BY SegmentIndex, Zenon DEF PlaceRule
<1>20. AnswerPlaceRule
  BY AnswerIndex, Zenon DEF AnswerPlaceRule
<1>21. RstRule
  BY RstSays, Zenon DEF RstRule
<1>22. PieceRule
  BY BytesType, Zenon DEF PieceRule
<1>23. JoinRule
  BY BytesConcat, Zenon DEF JoinRule
<1>24. NoBytesRule
  BY BytesEmpty, Zenon DEF NoBytesRule
<1>25. OutputRule
  BY AssemblingParts, Zenon DEF OutputRule
<1>26. NewReassemblerRule
  BY AssemblingNew, Zenon DEF NewReassemblerRule
<1>27. PushRule
  <2>1. ASSUME NEW flow, NEW r, NEW fin, NEW eof, NEW n \in 0 .. Len(flow.stream),
               NEW i \in Nat, NEW k \in Nat, IsFlow(flow), Assembling(flow, n, r, fin),
               Holds(n, fin, i, k, eof)
        PROVE  Feeds(flow, n, r, fin, push_substring(r, Bytes(flow, i, k), i, eof), eof)
    <3>1. i + k <= n /\ eof \in BOOLEAN /\ (eof => fin = TRUE /\ i + k = n)
      BY <2>1, SMTT(20) DEF Holds
    <3> QED
      BY <2>1, <3>1, AssemblingPush, Zenon DEF Feeds
  <2> QED
    BY <2>1, SMTT(20) DEF PushRule
<1>28. PushNothingRule
  BY AssemblingNothing, Zenon DEF PushNothingRule, Feeds
<1>29. MoreRule
  BY AssemblingMore, Zenon DEF MoreRule
<1>30. ReadRule
  BY AssemblingRead, Zenon DEF ReadRule
<1>31. OutputErrorRule
  BY AssemblingError, Zenon DEF OutputErrorRule
<1> QED
  BY <1>1, <1>2, <1>3, <1>4, <1>5, <1>6, <1>7, <1>8, <1>9, <1>10, <1>11, <1>12, <1>13,
     <1>14, <1>15, <1>16, <1>17, <1>18, <1>19, <1>20, <1>21, <1>22, <1>23, <1>24,
     <1>25, <1>26, <1>27, <1>28, <1>29, <1>30, <1>31,
     Zenon DEF Rules

\* The connections keep the rules that the pair relies on.
LEMMA ContractHolds == Contract
BY RulesHold, ContractKept, Zenon

\* The invariant of the pair: whatever segments are lost, duplicated or reordered, each
\* receiver holds a beginning of what its peer's sender has sent, each sender counts as
\* acknowledged only what was received, every segment in the network carries bytes of the
\* stream at their place, and resets are sent only after an end has given up.
THEOREM PairInvariant == Spec => []PairInv
<1>1. Init => PairInv
  BY ContractHolds, InitKeeps, Zenon
<1>2. PairInv /\ [Next]_vars => PairInv'
  BY ContractHolds, NextKeeps, Zenon
<1> QED
  BY <1>1, <1>2, PTL DEF Spec

\* What a sender takes for acknowledged has been received by its peer, and what was received
\* has been sent: ack_received never believes an ackno that its peer did not reach.
THEOREM AckHonestHolds == Spec => []AckHonest
<1>1. PairInv => AckHonest
  BY ContractHolds, PairAckHonest, Zenon
<1> QED
  BY <1>1, PairInvariant, PTL

\* A connection that shuts down cleanly has delivered everything its application wrote to the
\* peer's, and has received everything the peer's wrote.
THEOREM CleanCloseIsCompleteHolds == Spec => []CleanCloseIsComplete
<1>1. PairInv => CleanCloseIsComplete
  BY ContractHolds, PairCloseComplete, Zenon
<1> QED
  BY <1>1, PairInvariant, PTL

\* An end that closes without lingering is never needed again: its peer has sent its FIN and
\* knows that everything up to it was received.
THEOREM NoLingerIsSafeHolds == Spec => []NoLingerIsSafe
<1>1. PairInv => NoLingerIsSafe
  BY ContractHolds, PairNoLinger, Zenon
<1> QED
  BY <1>1, PairInvariant, PTL

\* The streams are in error only after one of the two ends has given up retransmitting: no
\* segment of a working connection resets it.
THEOREM ErrorMeansGaveUpHolds == Spec => []ErrorMeansGaveUp
<1>1. PairInv => ErrorMeansGaveUp
  BY ContractHolds, PairErrorGaveUp, Zenon
<1> QED
  BY <1>1, PairInvariant, PTL

\* Whatever the network does, each application is handed exactly the bytes that its peer wrote,
\* in order, and the end of them only when the peer has ended its stream and all of it is
\* there: the two connections implement ReliableStreams.
THEOREM PairIsReliable == Spec => IsReliable
<1>1. Init => Streams!Init
  BY ContractHolds, InitSeen, Zenon
<1>2. PairInv => AppInv
  BY ContractHolds, PairStreams, Zenon
<1>3. PairInv /\ AppInv /\ AppInv' /\ [Next]_vars => [Streams!Next]_(Streams!vars)
  BY ContractHolds, NextSeen, Zenon
<1> QED
  BY <1>1, <1>2, <1>3, PairInvariant, PTL DEF Spec, IsReliable, Streams!Spec

\* In every behaviour of the abstract streams, what an application has been handed is the
\* beginning of what its peer wrote, and all of it once it is told that the stream has ended:
\* what TCPReceiver::stream_out promises its reader.
LEMMA AlwaysFaithful == Streams!Spec => []Streams!Faithful
<1>1. Streams!Init => StreamsOK
  BY StreamsInit, Zenon
<1>2. StreamsOK /\ [Streams!Next]_(Streams!vars) => StreamsOK'
  BY StreamsStep, Zenon
<1>3. StreamsOK => Streams!Faithful
  BY Zenon DEF StreamsOK
<1> QED
  BY <1>1, <1>2, <1>3, PTL DEF Streams!Spec

\* So it is for the applications of the two connections: whatever the network loses, repeats
\* and reorders, what an end has taken from stream_out is the beginning of what the other wrote,
\* and all of it once the stream has ended.
THEOREM PairIsFaithful == Spec => []Streams!Faithful
BY PairIsReliable, AlwaysFaithful, PTL DEF IsReliable

===============================================================================

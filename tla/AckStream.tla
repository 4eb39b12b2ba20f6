----------------------------- MODULE AckStream -----------------------------
(***************************************************************************)
(* What a destination promises Conduit on its Run stream, without saying   *)
(* how: the records it accepted are answered one by one in the order they  *)
(* came, each at most once, and a record is answered positively only after *)
(* it was written durably.  A record may never be answered at all: Conduit *)
(* then delivers it again on the next connection.  Records are named by    *)
(* their place in the stream.                                              *)
(***************************************************************************)
EXTENDS Naturals, Sequences

VARIABLES
  accepted,   \* how many records were taken off the stream for writing
  durable,    \* the records that write() made durable
  answered    \* the answers Conduit was sent: [pos, ok]

ackVars == <<accepted, durable, answered>>

Init ==
  /\ accepted = 0
  /\ durable = {}
  /\ answered = <<>>

Accept ==
  /\ accepted' \in Nat
  /\ accepted' > accepted
  /\ UNCHANGED <<durable, answered>>

\* Only a record not answered yet is still being written.
Persist ==
  /\ durable \subseteq durable'
  /\ durable' \ durable \subseteq (Len(answered) + 1)..accepted
  /\ UNCHANGED <<accepted, answered>>

\* A response answers the next records, all of them in order.
Answer ==
  /\ Len(answered') \in (Len(answered) + 1)..accepted
  /\ \A i \in 1..Len(answered) : answered'[i] = answered[i]
  /\ \A i \in (Len(answered) + 1)..Len(answered') :
        /\ answered'[i].pos = i
        /\ answered'[i].ok => i \in durable
  /\ UNCHANGED <<accepted, durable>>

Next == Accept \/ Persist \/ Answer

Spec == Init /\ [][Next]_ackVars
=============================================================================

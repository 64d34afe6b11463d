------------------------------ MODULE ReaderLink ------------------------------
(***************************************************************************)
(* What a host may rely on when it talks to a smart card reader: commands  *)
(* are taken one after the other, each one that deserves an answer gets    *)
(* the answer that belongs to it, answers come in the order of their       *)
(* commands, and no more than Capacity commands are ever in progress.      *)
(***************************************************************************)
EXTENDS Naturals, Sequences

CONSTANTS
    Commands,    \* commands a host may send
    Answerable,  \* those among them that are answered
    AnswerOf,    \* the answer to each command of Answerable
    NoAnswer,    \* before anything has been delivered
    Capacity     \* commands in progress at most

VARIABLES
    pending,     \* commands taken and not answered, oldest first
    delivered    \* the answer delivered last

lvars == <<pending, delivered>>

LinkInit ==
    /\ pending = <<>>
    /\ delivered = NoAnswer

Take(c) ==
    /\ Len(pending) < Capacity
    /\ pending' = Append(pending, c)
    /\ UNCHANGED delivered

\* The newest command turns out not to be answerable.
Drop ==
    /\ pending # <<>>
    /\ pending[Len(pending)] \notin Answerable
    /\ pending' = SubSeq(pending, 1, Len(pending) - 1)
    /\ UNCHANGED delivered

\* Only an answerable command is ever answered, and the oldest one first.
Deliver ==
    /\ pending # <<>>
    /\ Head(pending) \in Answerable
    /\ delivered' = AnswerOf[Head(pending)]
    /\ pending' = Tail(pending)

\* The device loses power with everything it holds.
Unplug == pending' = <<>> /\ delivered' = NoAnswer

LinkNext ==
    \/ \E c \in Commands : Take(c)
    \/ Drop
    \/ Deliver
    \/ Unplug

LinkSpec == LinkInit /\ [][LinkNext]_lvars

=============================================================================

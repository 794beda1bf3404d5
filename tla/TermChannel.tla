---------------------------- MODULE TermChannel ----------------------------
(***************************************************************************)
(* What serialize and deserialize_data promise two processes connected by  *)
(* a byte stream: a first-in first-out queue of terms, and EndOfFile once  *)
(* the writer is gone.  A writer that crashes may take the last terms with *)
(* it and tear the first of them: the reader may then see, in its place,   *)
(* one term that was never written.                                        *)
(***************************************************************************)
EXTENDS Naturals, Sequences

CONSTANTS Eof,     \* the term ctl::EndOfFile
          Term(_)  \* Term(t): t is a term

VARIABLES queue,   \* terms written and not read
          read,    \* terms read, in order
          writer,  \* "up", "exited" or "crashed"
          torn     \* the queue ends with a piece of a term

Send ==
    /\ writer = "up"
    /\ Len(queue') = Len(queue) + 1
    /\ SubSeq(queue', 1, Len(queue)) = queue
    /\ Term(queue'[Len(queue')])
    /\ UNCHANGED <<read, writer, torn>>

Receive ==
    /\ queue # <<>>
    /\ read' = Append(read, Head(queue))
    /\ queue' = Tail(queue)
    /\ UNCHANGED <<writer, torn>>

ReceiveTorn ==
    /\ queue = <<>> /\ torn
    /\ Len(read') = Len(read) + 1
    /\ SubSeq(read', 1, Len(read)) = read
    /\ Term(read'[Len(read')])
    /\ torn' = FALSE
    /\ UNCHANGED <<queue, writer>>

ReceiveEnd ==
    /\ writer # "up" /\ queue = <<>> /\ ~torn
    /\ read' = Append(read, Eof)
    /\ UNCHANGED <<queue, writer, torn>>

Close == writer = "up" /\ writer' = "exited" /\ UNCHANGED <<queue, read, torn>>

Crash ==
    /\ writer = "up" /\ writer' = "crashed"
    /\ \E n \in 0..Len(queue) :
        /\ queue' = SubSeq(queue, 1, n)
        /\ torn' \in {FALSE, n < Len(queue)}
    /\ UNCHANGED read

Init == queue = <<>> /\ read = <<>> /\ writer = "up" /\ torn = FALSE
Next == Send \/ Receive \/ ReceiveTorn \/ ReceiveEnd \/ Close \/ Crash
Spec == Init /\ [][Next]_<<queue, read, writer, torn>>

=============================================================================

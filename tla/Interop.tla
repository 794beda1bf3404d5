------------------------------ MODULE Interop ------------------------------
(***************************************************************************)
(* The two programs of bin/interop.  front forks, connects itself to back  *)
(* with two pipes, handles the terms back serializes, and answers its      *)
(* requests for input; back runs a script of terms, flushes and reads.     *)
(*                                                                         *)
(* A serialized term is its nodes in prefix order, and a node knows how    *)
(* many terms follow as its arguments.  deserialize_data reads nodes until *)
(* none is missing; when the stream ends before that it fills in what is   *)
(* missing, or throws if that will not do.                                 *)
(***************************************************************************)
EXTENDS Integers, Sequences, FiniteSets, SequencesExt

CONSTANTS Script,      \* what back does: a sequence of operations
          Lines,       \* bound: what the user may type, as sequences of characters
          Char,        \* bound: the characters
          Garbage,     \* the value of an uninitialized buffer
          PipeSize,    \* bound: nodes a pipe holds
          BufferSize,  \* nodes the buffer of back's std::cout holds
          Crashes      \* the processes that may be killed

-----------------------------------------------------------------------------
(* Serialized terms                                                        *)

\* A non-parametric term, the bytes of a plain value, and the head of a
\* parametric term: n arguments follow, the abstract type, which chooses the
\* reader, what the reader calls for next (fields), and the elements, which it
\* takes in turns.  An argument is
\*   "value"  read for its value: EndOfFile will not do, half a term may not;
\*   "kind"   held against a constraint, which EndOfFile violates;
\*   "any"    taken as it comes;
\*   "bytes"  of a plain value, taken as they come.
NP(name)     == [sort |-> "np", name |-> name, args |-> 0, fields |-> <<>>, elements |-> <<>>]
Bytes(value) == [sort |-> "bytes", name |-> value, args |-> 0, fields |-> <<>>, elements |-> <<>>]
Parametric(reader, n, fields, elements) ==
    [sort |-> "term", name |-> reader, args |-> n, fields |-> fields, elements |-> elements]

Use == {"value", "kind", "any", "bytes"}
Node == [sort : {"np", "bytes", "term"}, name : STRING, args : Nat,
         fields : Seq(Use), elements : Seq(Use)]

EndOfFile == NP("EndOfFile")

\* A parametric term with one argument beside its type.
Unary(reader, use) == <<Parametric(reader, 2, <<"value", use>>, <<>>), NP(reader)>>

Output(t)           == Unary("Output", "any") \o t
RequestSyncInput(t) == Unary("RequestSyncInput", "any") \o t
POD(type, value)    == Unary(type, "bytes") \o <<Bytes(value)>>

\* An Array of n elements starts with its size.
Array(n) ==
    <<Parametric("Array", 2 + n, <<"value", "value">>, <<"any">>), NP("Array")>>
        \o POD("Uint64", "size")

\* Array_from_string, serialized: overload resolution turns a char into a
\* Sint32, a number.
ArrayFromString(s) ==
    Array(Len(s))
        \o [k \in 1..(3 * Len(s)) |-> POD("Sint32", s[(k + 2) \div 3])[((k + 2) % 3) + 1]]

\* A node makes room for its arguments.  One term is expected, and every node
\* fills a place: how many terms are missing after nodes.
Slots(nodes) == UNION {{k} \X (1..nodes[k].args) : k \in DOMAIN nodes}
Missing(nodes) == 1 + Cardinality(Slots(nodes)) - Len(nodes)
MissingAt(nodes, k) == Missing(SubSeq(nodes, 1, k))

\* deserialize_data has read a term with all its arguments and returns; it has
\* not done so before.
MutLastUnread(nodes) == Missing(nodes) <= 1
Complete(nodes) == Missing(nodes) = 0
Incomplete(nodes) == \A k \in 0..Len(nodes) : MissingAt(nodes, k) > 0
OneTerm(nodes) == Missing(nodes) = 0 /\ \A k \in 0..(Len(nodes) - 1) : MissingAt(nodes, k) > 0

\* The term inhabits RequestSyncInput.
IsRequest(node) == node.sort = "term" /\ node.name = "RequestSyncInput"
Asks(nodes) == IsRequest(nodes[1])

\* The nodes of a term that ends too early whose arguments are not all there, and
\* what of their arguments is: the i-th one of node k, at least its first node,
\* and what the reader makes of it.
Open(nodes) == {k \in DOMAIN nodes : Incomplete(SubSeq(nodes, k, Len(nodes)))}
Has(nodes, k, i) == \E j \in k..Len(nodes) : Missing(SubSeq(nodes, k, j)) = nodes[k].args - i
Begun(nodes, k, i) == Has(Front(nodes), k, i - 1)
UseOf(node, i) ==
    IF i <= Len(node.fields) THEN node.fields[i]
    ELSE node.elements[((i - Len(node.fields) - 1) % Len(node.elements)) + 1]

\* deserialize_data throws at the end of the stream: an argument that is not there
\* at all reads as EndOfFile.  A reader whose size was cut off does not know how
\* many elements to ask for.
Throws(nodes) ==
    \E k \in Open(nodes) : \E i \in 1..nodes[k].args :
        /\ ~Begun(nodes, k, i) /\ UseOf(nodes[k], i) \in {"value", "kind"}
        /\ i > Len(nodes[k].fields) => Has(nodes, k, Len(nodes[k].fields))

\* It may throw: half a term is good for some readers, and the uninitialized
\* size may be too large or the right one.
MayThrow(nodes) ==
    \E k \in Open(nodes) : \E i \in 1..nodes[k].args :
        /\ ~Has(nodes, k, i)
        /\ \/ UseOf(nodes[k], i) = "value"
           \/ UseOf(nodes[k], i) = "kind" /\ ~Begun(nodes, k, i)

\* What deserialize_data makes of nodes when the stream ends there: whatever was
\* in the buffer for the bytes that are missing, and EndOfFile for every term.
\* A container whose size is such bytes may have any number of elements.
LacksBytes(nodes) == Len(nodes) > 1 /\ nodes[Len(nodes) - 1].fields = <<"value", "bytes">>
AtEndOfStream(nodes) ==
    nodes \o [k \in 1..Missing(nodes) |->
                 IF k = 1 /\ LacksBytes(nodes) THEN Bytes(Garbage) ELSE EndOfFile]

Op == [op : {"serialize"}, term : Seq(Node)] \cup [op : {"echo", "flush", "deserialize"}]

Performs(k, name) == k \in DOMAIN Script /\ Script[k].op = name
AsksAt(k) == Performs(k, "serialize") /\ Asks(Script[k].term)

\* What do_stuff does is a script in which back serializes terms, but not the
\* EndOfFile that stands for the end of its output; it flushes a request for
\* input and reads the response before it does anything else; and it echoes a
\* response when it has got one.
ASSUME ScriptAssumption ==
    /\ Script \in Seq(Op)
    /\ \A k \in DOMAIN Script :
        /\ Script[k].op = "serialize" => OneTerm(Script[k].term) /\ Script[k].term # <<EndOfFile>>
        /\ AsksAt(k) => Performs(k + 1, "flush")
        /\ AsksAt(k) <=> Performs(k + 2, "deserialize")
        /\ Script[k].op = "echo" => \E j \in 1..(k - 1) : Script[j].op = "deserialize"
    /\ ~Performs(1, "deserialize") /\ ~Performs(2, "deserialize")

ASSUME InteropAssumption ==
    /\ Lines \subseteq Seq(Char)
    /\ PipeSize \in Nat \ {0} /\ BufferSize \in Nat \ {0}
    /\ Crashes \subseteq {"back", "front"}

VARIABLES
    pc,         \* the next operation of Script
    todo,       \* nodes of the term being serialized that are not in stdout yet
    stdout,     \* the buffer of back's std::cout
    draining,   \* stdout is being written to the pipe
    received,   \* nodes of the response being deserialized
    responses,  \* the responses back got
    back,       \* "up", "exited", "crashed"
    toFront,    \* pipe_child_to_parent
    toBack,     \* pipe_parent_to_child
    got,        \* nodes of the term front is deserializing
    reply,      \* nodes front has yet to write
    answers,    \* the replies front serialized
    handled,    \* the values front's loop handled
    front       \* "read", "ask", "write", "exited", "died"

backVars  == <<pc, todo, stdout, draining, received, responses, back>>
frontVars == <<got, reply, answers, handled, front>>
vars      == <<backVars, frontVars, toFront, toBack>>

FrontUp == front \in {"read", "ask", "write"}

TypeOK ==
    /\ pc \in 1..(Len(Script) + 1)
    /\ Len(stdout) <= BufferSize
    /\ draining \in BOOLEAN
    /\ back \in {"up", "exited", "crashed"}
    /\ Len(toBack) <= PipeSize /\ Len(toFront) <= PipeSize
    /\ front \in {"read", "ask", "write", "exited", "died"}
    /\ draining => stdout # <<>>
    /\ Missing(got) > 0 /\ Missing(received) > 0
    /\ front = "write" <=> FrontUp /\ reply # <<>>

-----------------------------------------------------------------------------
(* back: do_stuff, and the buffer of std::cout                             *)

Does(name) == back = "up" /\ todo = <<>> /\ ~draining /\ pc <= Len(Script) /\ Script[pc].op = name

\* serialize(term, out)
BackSerialize ==
    /\ Does("serialize")
    /\ todo' = Script[pc].term
    /\ pc' = pc + 1
    /\ UNCHANGED <<stdout, draining, received, responses, back, toFront, toBack, frontVars>>

\* serialize(ctl::Output(response), out)
BackEcho ==
    /\ Does("echo")
    /\ todo' = Output(Last(responses))
    /\ pc' = pc + 1
    /\ UNCHANGED <<stdout, draining, received, responses, back, toFront, toBack, frontVars>>

\* A node goes to the buffer; a full buffer is written to the pipe first.
BackBuffer ==
    /\ back = "up" /\ ~draining /\ todo # <<>>
    /\ IF Len(stdout) < BufferSize
       THEN stdout' = Append(stdout, Head(todo)) /\ todo' = Tail(todo) /\ UNCHANGED draining
       ELSE draining' = TRUE /\ UNCHANGED <<stdout, todo>>
    /\ UNCHANGED <<pc, received, responses, back, toFront, toBack, frontVars>>

\* out.flush()
MutFlushSkipped == UNCHANGED draining
StartDraining == draining' = (stdout # <<>>)

BackFlush ==
    /\ Does("flush")
    /\ StartDraining
    /\ pc' = pc + 1
    /\ UNCHANGED <<todo, stdout, received, responses, back, toFront, toBack, frontVars>>

\* The buffer is written node by node, as far as the pipe has room.
BackDrain ==
    /\ back = "up" /\ draining /\ FrontUp
    /\ Len(toFront) < PipeSize
    /\ toFront' = Append(toFront, Head(stdout))
    /\ stdout' = Tail(stdout)
    /\ draining' = (stdout' # <<>>)
    /\ UNCHANGED <<pc, todo, received, responses, back, toBack, frontVars>>

BackGone(how) ==
    /\ back' = how
    /\ todo' = <<>> /\ stdout' = <<>> /\ draining' = FALSE
    /\ UNCHANGED <<pc, received, responses, toFront, toBack, frontVars>>

\* Writing to a pipe that nobody reads kills back.
BackBrokenPipe == back = "up" /\ draining /\ ~FrontUp /\ BackGone("crashed")

\* deserialize_data(in) takes a node of the response from the pipe ...
BackRead ==
    /\ Does("deserialize")
    /\ toBack # <<>>
    /\ LET nodes == Append(received, Head(toBack))
       IN  IF Complete(nodes)
           THEN /\ received' = <<>>
                /\ responses' = Append(responses, nodes)
                /\ pc' = pc + 1
           ELSE received' = nodes /\ UNCHANGED <<responses, pc>>
    /\ toBack' = Tail(toBack)
    /\ UNCHANGED <<todo, stdout, draining, back, toFront, frontVars>>

\* ... or finds that front is gone: the child has closed its copy of the write
\* end of the pipe it reads.
MutChildKeepsWriteEnd == FALSE
BackInputClosed == ~FrontUp

BackReadEof ==
    /\ Does("deserialize")
    /\ BackInputClosed /\ toBack = <<>>
    /\ ~Throws(received)
    /\ responses' = Append(responses, AtEndOfStream(received))
    /\ received' = <<>> /\ pc' = pc + 1
    /\ UNCHANGED <<todo, stdout, draining, back, toFront, toBack, frontVars>>

BackReadThrows ==
    /\ Does("deserialize")
    /\ BackInputClosed /\ toBack = <<>>
    /\ MayThrow(received)
    /\ BackGone("crashed")

\* Returning from main writes what is left in the buffer, then closes the pipes.
MutExitUnflushed == pc > Len(Script) /\ todo = <<>> /\ ~draining
ReadyToExit == pc > Len(Script) /\ todo = <<>> /\ ~draining /\ stdout = <<>>

BackExit ==
    /\ back = "up"
    /\ ReadyToExit
    /\ BackGone("exited")

BackLastFlush ==
    /\ back = "up"
    /\ pc > Len(Script) /\ todo = <<>> /\ ~draining /\ stdout # <<>>
    /\ draining' = TRUE
    /\ UNCHANGED <<pc, todo, stdout, received, responses, back, toFront, toBack, frontVars>>

\* back is killed, and what is in its buffer is lost: the pipe may end in the
\* middle of a term.  Of a node that is cut in two the reader makes what it makes
\* of one that is missing.
BackCrash == "back" \in Crashes /\ back = "up" /\ BackGone("crashed")

-----------------------------------------------------------------------------
(* front: run                                                              *)

\* One turn of the loop with a value that has just been deserialized.
HandleValue(value) ==
    /\ handled' = Append(handled, value)
    /\ got' = <<>>
    /\ front' = CASE value = <<EndOfFile>>                -> "exited"
                  [] Asks(value)                          -> "ask"
                  [] OTHER                                -> "read"
    /\ UNCHANGED <<reply, answers>>

\* deserialize_data(in) takes a node from the pipe ...
FrontRead ==
    /\ front = "read"
    /\ toFront # <<>>
    /\ LET nodes == Append(got, Head(toFront))
       IN  IF Complete(nodes) THEN HandleValue(nodes)
                                 ELSE got' = nodes /\ UNCHANGED <<reply, answers, handled, front>>
    /\ toFront' = Tail(toFront)
    /\ UNCHANGED <<backVars, toBack>>

\* ... or finds that back is gone: nobody has the write end any more, because
\* front closed its own after the fork.
MutParentKeepsWriteEnd == FALSE
FrontInputClosed == back # "up"

FrontReadEof ==
    /\ front = "read"
    /\ FrontInputClosed /\ toFront = <<>>
    /\ ~Throws(got)
    /\ HandleValue(AtEndOfStream(got))
    /\ UNCHANGED <<backVars, toFront, toBack>>

\* Nobody catches what deserialize_data throws.
FrontReadThrows ==
    /\ front = "read"
    /\ FrontInputClosed /\ toFront = <<>>
    /\ MayThrow(got)
    /\ front' = "died"
    /\ UNCHANGED <<got, reply, answers, handled, backVars, toFront, toBack>>

\* serialize(a, out) and out.flush(): the reply goes to the pipe at once.
MutReplyUnflushed == "read"
FlushReply == "write"

\* The user enters a line, or closes the input, which counts as an empty line.
UserAnswers(line) ==
    /\ front = "ask"
    /\ reply' = ArrayFromString(line)
    /\ answers' = Append(answers, reply')
    /\ front' = FlushReply
    /\ UNCHANGED <<got, handled, backVars, toFront, toBack>>

\* The reply is written node by node, as far as the pipe has room.
FrontWrite ==
    /\ front = "write" /\ back = "up"
    /\ Len(toBack) < PipeSize
    /\ toBack' = Append(toBack, Head(reply))
    /\ reply' = Tail(reply)
    /\ front' = IF reply' = <<>> THEN "read" ELSE "write"
    /\ UNCHANGED <<got, answers, handled, backVars, toFront>>

FrontBrokenPipe ==
    /\ front = "write" /\ back # "up"
    /\ front' = "died" /\ reply' = <<>>
    /\ UNCHANGED <<got, answers, handled, backVars, toFront, toBack>>

FrontCrash ==
    /\ "front" \in Crashes /\ FrontUp
    /\ front' = "died" /\ reply' = <<>>
    /\ UNCHANGED <<got, answers, handled, backVars, toFront, toBack>>

-----------------------------------------------------------------------------

Init ==
    /\ pc = 1 /\ todo = <<>> /\ stdout = <<>> /\ draining = FALSE
    /\ received = <<>> /\ responses = <<>> /\ back = "up"
    /\ toFront = <<>> /\ toBack = <<>>
    /\ got = <<>> /\ reply = <<>> /\ answers = <<>> /\ handled = <<>> /\ front = "read"

BackStep ==
    \/ BackSerialize \/ BackEcho \/ BackBuffer \/ BackFlush \/ BackDrain \/ BackBrokenPipe
    \/ BackRead \/ BackReadEof \/ BackReadThrows \/ BackLastFlush \/ BackExit

FrontStep ==
    \/ FrontRead \/ FrontReadEof \/ FrontReadThrows
    \/ FrontWrite \/ FrontBrokenPipe

\* Both programs are gone.
Finished == back # "up" /\ ~FrontUp /\ UNCHANGED vars

Next ==
    \/ BackStep \/ FrontStep
    \/ \E line \in Lines : UserAnswers(line)
    \/ BackCrash \/ FrontCrash
    \/ Finished

Spec == Init /\ [][Next]_vars

\* The system runs each program that is not blocked.  The user may never answer.
FairSpec == Spec /\ WF_vars(BackStep) /\ WF_vars(FrontStep)

-----------------------------------------------------------------------------
(* Properties                                                              *)

\* A request for input and its answer do not get out of step: the responses back
\* has are the first of the answers front gave, and front never has a question
\* open that back is not waiting for.  Only a front that died half way through an
\* answer makes back read something else, once.
ResponsesAreAnswers ==
    /\ FrontUp => IsPrefix(responses, answers) /\ Len(answers) <= Len(responses) + 1
    /\ ~FrontUp => \A k \in 1..(Len(responses) - 1) : k <= Len(answers) => responses[k] = answers[k]
    /\ front = "ask" /\ back = "up" => Does("deserialize") /\ toBack = <<>> /\ received = <<>>

\* When both programs have ended normally front has handled as many values as
\* back wrote, and EndOfFile: no term is left in a buffer.
WritesBefore(n) == {k \in 1..(n - 1) : Script[k].op \in {"serialize", "echo"}}
NothingLost ==
    back = "exited" /\ front = "exited"
        => Len(handled) = 1 + Cardinality(WritesBefore(Len(Script) + 1))

\* back waits for a response only if front learns of the request: the user is
\* asked, unless one of the two is gone.
RequestReachesUser ==
    Does("deserialize") /\ Len(responses) = Len(answers)
        ~> front = "ask" \/ ~FrontUp \/ back # "up"

\* An answer reaches back, or back finds out that it will not come.
AnswerReachesBack ==
    Does("deserialize") /\ Len(answers) > Len(responses) ~> ~Does("deserialize")

\* Neither request nor answer is left in a buffer while both programs wait.
AnswersReturn == RequestReachesUser /\ AnswerReachesBack

\* When back ends, in whatever way, front comes to its end too or is at the
\* prompt: it never waits for bytes nobody can write.
FrontEnds == back # "up" ~> front = "ask" \/ ~FrontUp

\* When front is gone back comes to its end.
BackEnds == ~FrontUp ~> back # "up"

\* Neither program outlives the other one for ever.
BothEnd == FrontEnds /\ BackEnds

\* How many terms are complete in nodes: with the end of each of them one term
\* less is missing than ever before.
TermCount(nodes) ==
    CHOOSE n \in 0..Len(nodes) :
        /\ \E k \in 0..Len(nodes) : MissingAt(nodes, k) = 1 - n
        /\ \A k \in 0..Len(nodes) : MissingAt(nodes, k) >= 1 - n

\* The i-th term ends with the first node after which so few are missing.
EndOf(nodes, i) ==
    CHOOSE k \in 0..Len(nodes) :
        MissingAt(nodes, k) = 1 - i /\ \A j \in 0..(k - 1) : MissingAt(nodes, j) > 1 - i

TermsOf(nodes) ==
    [i \in 1..TermCount(nodes) |-> SubSeq(nodes, EndOf(nodes, i - 1) + 1, EndOf(nodes, i))]

\* The incomplete term after them.
Leftover(nodes) == SubSeq(nodes, EndOf(nodes, TermCount(nodes)) + 1, Len(nodes))

\* The terms front has yet to see, and the nodes of one that is not complete: it
\* stays like that once back is gone.
InTransit == got \o (toFront \o (stdout \o todo))
Torn == back # "up" /\ Leftover(InTransit) # <<>>

\* Taken together, the buffers and the pipe from back to front are one queue of
\* terms: however writes and reads cut the stream into pieces, front handles the
\* terms back wrote, in order, each once.  Only after a crash of back in the
\* middle of a term is there one more value, made of what is left of that term,
\* or front dies of it.
IsTerm(nodes) == Missing(nodes) = 0
Channel == INSTANCE TermChannel WITH
    Eof <- <<EndOfFile>>, Term <- IsTerm,
    queue <- TermsOf(InTransit), read <- handled, writer <- back, torn <- Torn
RefinesTermChannel == Channel!Spec

=============================================================================

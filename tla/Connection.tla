----------------------------- MODULE Connection -----------------------------
(***************************************************************************)
(* HTTP on one connection of SimpleWebServer                               *)
(* (webserver/thread_pool_webserver.cpp): what one worker does in          *)
(* handle_io between the event and the re-arm, with the client and the     *)
(* kernel's two socket buffers on the other side.  Module Reactor has many *)
(* connections and abstracts this module to its steps Serve and Rearm; of  *)
(* its timers and its numbers in use again there is one step here, Timeout.*)
(*                                                                         *)
(* The client sends the requests of a script one after the other, cut      *)
(* into pieces anywhere.  Byte <<i, k>> is the k-th byte of request i, or  *)
(* of its answer: HeadLen bytes of head, of which the last stands for the  *)
(* blank line, then the body; AnswerHead bytes and AnswerBody bytes.  Each *)
(* system call and each parsed request is a step.                          *)
(***************************************************************************)
EXTENDS Buffer, SequencesExt

CONSTANTS
  Scripts,     \* sequences of requests, [body : bytes of body sent,
               \*   declared : what Content-Length says, keep : shouldKeepAlive]
  HeadLen, AnswerHead, AnswerBody,
  InitialSize, \* Buffer::kInitialSize
  Extra,       \* sizeof(extrabuf)
  Room,        \* bytes the kernel's send buffer takes
  Piece,       \* bound: bytes the client sends at once
  Width        \* bits of a size_t

SizeMod == 2 ^ Width
MaxString == SizeMod \div 2 - 1    \* std::string::max_size

(* What a client sends after a body that is shorter than it said is a part  *)
(* of that body, so only the last request of a script may be one of those.  *)
ASSUME ConnectionAssumption ==
  /\ {HeadLen, AnswerHead, AnswerBody, Extra, Room, Piece, Width} \subseteq Nat \ {0}
  /\ InitialSize \in Nat /\ SizeMod \in Nat
  /\ HeadLen <= MaxString
  /\ Scripts \subseteq Seq([body : Nat, declared : 0..(SizeMod - 1), keep : BOOLEAN])
  /\ \A s \in Scripts : \A i \in DOMAIN s :
       /\ s[i].body = s[i].declared \/ (s[i].body < s[i].declared /\ i = Len(s))
       /\ \A k \in 1..(HeadLen + s[i].body) : <<i, k>> \in Byte
       /\ \A k \in 1..(AnswerHead + AnswerBody) : <<i, k>> \in Byte

VARIABLES
  script,     \* the requests of this client
  sent,       \* bytes the client has sent
  peer,       \* "there", "fin" after shutdown of its sending side, "reset"
  read,       \* bytes readv took
  inbuf, outbuf, wantClose,
  room,       \* bytes the kernel's send buffer takes at the moment
  delivered,  \* the bytes send gave to the kernel, in order
  parsed,     \* history: the requests parsed, in order
  armed,      \* what epoll waits for: "in", "out"; "fired"; "closed"
  pc,         \* where handle_io is
  threw,      \* history: an exception left handle_io
  timedOut    \* history: a timer of its number has closed it

cvars == <<script, sent, peer, read, inbuf, outbuf, wantClose, room, delivered,
           parsed, armed, pc, threw, timedOut>>

Least(S) == CHOOSE n \in S : \A m \in S : n <= m

HeadBytes(i) == [k \in 1..AnswerHead |-> <<i, k>>]
BodyBytes(i) == [k \in 1..AnswerBody |-> <<i, AnswerHead + k>>]

Numbers(n) == [i \in 1..n |-> i]

(* What the requests of a script, and the answers to them, are in bytes.   *)
RequestsOf == [s \in Scripts |-> [i \in DOMAIN s |->
                 [k \in 1..(HeadLen + s[i].body) |-> <<i, k>>]]]
AnswersOf == [s \in Scripts |-> [i \in DOMAIN s |->
                [k \in 1..(AnswerHead + AnswerBody) |-> <<i, k>>]]]
StreamOf == [s \in Scripts |-> FlattenSeq(RequestsOf[s])]
Stream == StreamOf[script]

(* Those of a sequence of request numbers, joined.                         *)
Joined(pieces, numbers) == FlattenSeq([n \in DOMAIN numbers |-> pieces[numbers[n]]])

CInit ==
  /\ script \in Scripts
  /\ sent = 0 /\ read = 0
  /\ peer = "there"
  /\ inbuf = NewBuffer(InitialSize)
  /\ outbuf = NewBuffer(InitialSize)
  /\ wantClose = FALSE
  /\ room = Room
  /\ delivered = <<>> /\ parsed = <<>>
  /\ armed = "in"
  /\ pc = "idle"
  /\ threw = FALSE /\ timedOut = FALSE

kernel == <<sent, peer, read, room, delivered>>
buffers == <<inbuf, outbuf, wantClose, parsed>>
accidents == <<threw, timedOut>>

(* System calls on the socket fail.                                        *)
Broken == peer = "reset" \/ armed = "closed"

-----------------------------------------------------------------------------
(* The client                                                              *)

ClientSend ==
  /\ peer = "there" /\ armed # "closed" /\ pc # "killed"
  /\ \E n \in 1..Piece : sent + n <= Len(Stream) /\ sent' = sent + n
  /\ UNCHANGED <<script, peer, read, room, delivered, buffers, armed,
                 pc, accidents>>

(* shutdown(SHUT_WR), or a connection that breaks.                         *)
ClientLeave(how) ==
  /\ peer = "there" /\ armed # "closed" /\ pc # "killed"
  /\ peer' = how
  /\ UNCHANGED <<script, sent, read, room, delivered, buffers, armed,
                 pc, accidents>>

(* The client reads, and the kernel has room for all of its buffer again.  *)
ClientRead ==
  /\ room < Room /\ peer # "reset"
  /\ room' = Room
  /\ UNCHANGED <<script, sent, peer, read, delivered, buffers, armed,
                 pc, accidents>>

-----------------------------------------------------------------------------
(* handle_io                                                               *)

Closing ==
  /\ armed' = "closed"
  /\ pc' = "idle"

(* A timer of the connection's number expires and its callback calls       *)
(* closeConnection, whatever is left to send and whether or not handle_io  *)
(* is running, whose system calls then fail.  Module Reactor has the       *)
(* timers, says which closes which connection and when, and gives the      *)
(* number to the next; a task left by an earlier connection of the number  *)
(* that closes this one does to it what this step does.                    *)
Timeout ==
  /\ armed # "closed" /\ pc # "killed"
  /\ armed' = "closed"
  /\ timedOut' = TRUE
  /\ UNCHANGED <<script, kernel, buffers, pc, threw>>

(* epoll reports the connection and handle_io starts; an error closes it   *)
(* at once.                                                                *)
Event ==
  /\ pc = "idle"
  /\ \/ /\ armed \in {"in", "out"} /\ peer = "reset"
        /\ Closing
     \/ /\ armed = "in" /\ peer # "reset"
        /\ sent > read \/ peer = "fin"
        /\ armed' = "fired"
        /\ pc' = "read"
     \/ /\ armed = "out" /\ peer # "reset"
        /\ room > 0
        /\ armed' = "fired"
        /\ pc' = "write"
  /\ UNCHANGED <<script, kernel, buffers, accidents>>

(* Mutant: what does not fit inbuf is read and not kept.                   *)
ReadvNoExtra ==
  /\ pc = "read" /\ ~Broken /\ sent > read
  /\ LET writable == WritableBytes(inbuf)
         n == Least({sent - read, writable + Extra})
         data == SubSeq(Stream, read + 1, read + n)
         fits == Least({n, writable})
     IN  /\ read' = read + n
         /\ inbuf' = WriteInPlace(inbuf, SubSeq(data, 1, fits))
  /\ UNCHANGED <<script, sent, peer, room, delivered, outbuf, wantClose, parsed,
                 armed, pc, accidents>>

(* readv into the room inbuf has and, if that is less than extrabuf, into  *)
(* extrabuf, whose bytes are appended.                                     *)
Readv ==
  /\ pc = "read" /\ ~Broken /\ sent > read
  /\ LET writable == WritableBytes(inbuf)
         space == IF writable < Extra THEN writable + Extra ELSE writable
         n == Least({sent - read, space})
         data == SubSeq(Stream, read + 1, read + n)
         fits == Least({n, writable})
     IN  /\ read' = read + n
         /\ inbuf' = AppendTo(WriteInPlace(inbuf, SubSeq(data, 1, fits)),
                              SubSeq(data, fits + 1, n))
  /\ UNCHANGED <<script, sent, peer, room, delivered, outbuf, wantClose, parsed,
                 armed, pc, accidents>>

(* EAGAIN: on to the parser.  End of stream or an error: close, whatever   *)
(* inbuf holds.                                                            *)
ReadEnd ==
  /\ pc = "read"
  /\ \/ /\ ~Broken /\ peer = "there" /\ sent = read
        /\ pc' = "parse"
        /\ UNCHANGED armed
     \/ /\ Broken \/ (peer = "fin" /\ sent = read)
        /\ Closing
  /\ UNCHANGED <<script, kernel, buffers, accidents>>

-----------------------------------------------------------------------------
(* tryParseOneRequest and what handle_io does with a request.  The blank   *)
(* line ends the head; the sum of the two lengths is a size_t.             *)

Input == Readable(inbuf)
HeadEnds == {k \in DOMAIN Input : Input[k][2] = HeadLen}
HeaderLen == Least(HeadEnds)
First == Input[1][1]
BodyLen == script[First].declared
NeededLen == (HeaderLen + BodyLen) % SizeMod

RequestComplete == HeadEnds # {} /\ ReadableBytes(inbuf) >= NeededLen

(* Mutant: a second request in inbuf is left for the next event.           *)
AnswerOne ==
  /\ pc = "parse" /\ RequestComplete /\ BodyLen <= MaxString
  /\ parsed' = Append(parsed, First)
  /\ inbuf' = Retrieve(inbuf, NeededLen)
  /\ wantClose' = (wantClose \/ ~script[First].keep)
  /\ outbuf' = AppendTo(AppendTo(outbuf, HeadBytes(First)), BodyBytes(First))
  /\ pc' = "write"
  /\ UNCHANGED <<script, kernel, armed, accidents>>

(* build_response and append_response; the loop goes on, whether or not    *)
(* the answer is to be the last.                                           *)
Answer ==
  /\ pc = "parse" /\ RequestComplete /\ BodyLen <= MaxString
  /\ parsed' = Append(parsed, First)
  /\ inbuf' = Retrieve(inbuf, NeededLen)
  /\ wantClose' = (wantClose \/ ~script[First].keep)
  /\ outbuf' = AppendTo(AppendTo(outbuf, HeadBytes(First)), BodyBytes(First))
  /\ UNCHANGED <<script, kernel, armed, pc, accidents>>

(* The sum has wrapped around: assign throws length_error, which leaves    *)
(* handle_io for the future of the task.                                   *)
ParseThrows ==
  /\ pc = "parse" /\ RequestComplete /\ BodyLen > MaxString
  /\ threw' = TRUE
  /\ pc' = "idle"
  /\ UNCHANGED <<script, kernel, buffers, armed, timedOut>>

ParseEnd ==
  /\ pc = "parse" /\ ~RequestComplete
  /\ pc' = "write"
  /\ UNCHANGED <<script, kernel, buffers, armed, accidents>>

-----------------------------------------------------------------------------
(* writeFromOutbuf                                                         *)

Send ==
  /\ pc = "write" /\ ~Broken
  /\ ReadableBytes(outbuf) > 0 /\ room > 0
  /\ LET n == Least({room, ReadableBytes(outbuf)})
     IN  /\ delivered' = delivered \o SubSeq(Readable(outbuf), 1, n)
         /\ room' = room - n
         /\ outbuf' = Retrieve(outbuf, n)
  /\ UNCHANGED <<script, sent, peer, read, inbuf, wantClose, parsed,
                 armed, pc, accidents>>

(* send fails: an error, which closes the connection, or, as there is no   *)
(* MSG_NOSIGNAL and it is the client's doing, a SIGPIPE, which ends the    *)
(* process.                                                                *)
SendBroken ==
  /\ pc = "write" /\ Broken /\ ReadableBytes(outbuf) > 0
  /\ \/ Closing
     \/ /\ armed # "closed"
        /\ pc' = "killed"
        /\ UNCHANGED armed
  /\ UNCHANGED <<script, kernel, buffers, accidents>>

(* epoll_ctl fails, unnoticed, for a number that was closed.               *)
RearmFor(events) ==
  /\ armed' = IF armed = "closed" THEN "closed" ELSE events
  /\ pc' = "idle"

(* Mutant: the connection is closed before the last answer has gone.       *)
FinishEarly ==
  /\ pc = "write"
  /\ ReadableBytes(outbuf) = 0 \/ (room = 0 /\ ~Broken)
  /\ IF wantClose THEN Closing
     ELSE RearmFor(IF ReadableBytes(outbuf) > 0 THEN "out" ELSE "in")
  /\ UNCHANGED <<script, kernel, buffers, accidents>>

(* Mutant: re-armed for input, whatever is left to send.                   *)
FinishDeaf ==
  /\ pc = "write"
  /\ ReadableBytes(outbuf) = 0 \/ (room = 0 /\ ~Broken)
  /\ IF wantClose /\ ReadableBytes(outbuf) = 0 THEN Closing
     ELSE RearmFor("in")
  /\ UNCHANGED <<script, kernel, buffers, accidents>>

(* Everything is sent, or the socket takes no more: close after the last   *)
(* answer, or re-arm.                                                      *)
Finish ==
  /\ pc = "write"
  /\ ReadableBytes(outbuf) = 0 \/ (room = 0 /\ ~Broken)
  /\ IF wantClose /\ ReadableBytes(outbuf) = 0 THEN Closing
     ELSE RearmFor(IF ReadableBytes(outbuf) > 0 THEN "out" ELSE "in")
  /\ UNCHANGED <<script, kernel, buffers, accidents>>

-----------------------------------------------------------------------------
Server ==
  \/ Event \/ Readv \/ ReadEnd
  \/ Answer \/ ParseThrows \/ ParseEnd
  \/ Send \/ SendBroken \/ Finish

CNext ==
  \/ Server \/ Timeout
  \/ ClientSend \/ ClientRead
  \/ \E how \in {"fin", "reset"} : ClientLeave(how)

CSpec == CInit /\ [][CNext]_cvars

(* Main loop and workers are scheduled; clients need not do anything, and  *)
(* no timer need expire.                                                   *)
CFairSpec == CSpec /\ WF_cvars(Server)

-----------------------------------------------------------------------------
(* The variables keep to the values the code can give them; both buffers   *)
(* keep their class invariant, so that nothing is written outside them.    *)
CTypeOK ==
  /\ script \in Scripts
  /\ sent \in 0..Len(Stream) /\ read \in 0..sent
  /\ peer \in {"there", "fin", "reset"}
  /\ Wellformed(inbuf) /\ Wellformed(outbuf)
  /\ wantClose \in BOOLEAN
  /\ room \in 0..Room
  /\ delivered \in Seq(Byte) /\ parsed \in Seq(DOMAIN script)
  /\ armed \in {"in", "out", "fired", "closed"}
  /\ pc \in {"idle", "read", "parse", "write", "killed"}
  /\ threw \in BOOLEAN /\ timedOut \in BOOLEAN

(* Requests cut anywhere, or several in one piece, are taken apart where   *)
(* they end: what was parsed and what waits in inbuf is what was read.     *)
BytesConserved ==
  /\ parsed = Numbers(Len(parsed))
  /\ Joined(RequestsOf[script], parsed) \o Input = SubSeq(Stream, 1, read)

(* The client gets the answers to its requests, whole, once and in order,  *)
(* however little the socket takes at a time.                              *)
AnswersInOrder ==
  delivered \o Readable(outbuf) = Joined(AnswersOf[script], parsed)

(* handle_io ends a connection whose client stays only after an answer     *)
(* that said so, and not before all answers are sent.  The timer of its    *)
(* number closes it at any time, with answers unsent or requests unread:   *)
(* a connection that was closed so is excused.                             *)
ClosedWhenDone ==
  armed = "closed" /\ peer = "there" /\ ~timedOut =>
    /\ \E i \in DOMAIN parsed : ~script[parsed[i]].keep
    /\ delivered = Joined(AnswersOf[script], parsed)

(* Between two events a connection is armed for what it needs: for output  *)
(* while some is left, else for input; and no request that has arrived as  *)
(* a whole waits in inbuf.  A connection whose request made the parser     *)
(* throw is deaf, armed for nothing, and excused.                          *)
ArmedForRest ==
  pc = "idle" /\ armed # "closed" /\ ~threw =>
    /\ armed = (IF ReadableBytes(outbuf) > 0 THEN "out" ELSE "in")
    /\ ~RequestComplete

(* A request the client has sent in full, and waits for, is answered in    *)
(* full, if the client keeps reading and earlier answers are not the last. *)
(* Excused as well, because the code does not answer them: every request   *)
(* of a connection on which the parser threw, those before the one that    *)
(* made it throw included, and of one that a timer closed first.           *)
RequestEnd(i) == Len(Joined(RequestsOf[script], Numbers(i)))
Answered(i) == Len(delivered) >= i * (AnswerHead + AnswerBody)
Excused(i) ==
  peer # "there" \/ threw \/ timedOut \/ \E j \in 1..(i - 1) : ~script[j].keep

RequestAnswered ==
  \A i \in 1..2 :
    (i \in DOMAIN script /\ sent >= RequestEnd(i)
      /\ script[i].declared = script[i].body)
      ~> (Answered(i) \/ Excused(i) \/ [](room = 0))
=============================================================================

---------------------------- MODULE HttpTransport ----------------------------
(***************************************************************************)
(* Reading one OCSP request over HTTP (src/src/tools/clu_http.c): recv()   *)
(* until the headers and the body they announce are there, then parse what *)
(* the buffer holds.                                                       *)
(*                                                                         *)
(* Bytes are counted, not spelt out.  A request is what the two functions  *)
(* can tell of it: whether it begins with "POST ", where its headers end,  *)
(* the number after the first "Content-Length:", and its size.  The text   *)
(* "Content-Length:" is taken to occur in the headers only.                *)
(***************************************************************************)
EXTENDS Integers

CONSTANTS
  bufferSz,  \* size of the request buffer
  IntMod,    \* 2^w for an int of w bits, which atoi() wraps to
  Heads,     \* where headers end: the position after the blank line
  Lengths,   \* the numbers Content-Length may announce
  Sizes,     \* the sizes of requests
  Absent     \* no Content-Length

ASSUME BufferAssumption == bufferSz \in Nat /\ bufferSz >= 2
ASSUME IntAssumption == IntMod \in Nat \ {0}
\* Five bytes are "POST ", the least a request with headers begins with.
ASSUME HeadsAssumption == \A h \in Heads : h \in Nat /\ h >= 5
ASSUME LengthsAssumption == Lengths \subseteq Int /\ Absent \notin Int
ASSUME SizesAssumption == Sizes \subseteq Nat

\* head > size: the headers never end.
Requests == [post : BOOLEAN, head : Heads, length : Lengths \cup {Absent}, size : Sizes]

VARIABLES
  \* the request and the connection it comes over
  request, arrived, gone,
  \* wolfCLU_HttpServerRecv
  pc, totalLen, headerSz, contentLen,
  \* what transportReadRequest returns
  verdict, body

netVars == <<request, arrived, gone>>
recvVars == <<totalLen, headerSz, contentLen>>
vars == <<netVars, pc, recvVars, verdict, body>>

NoBody == [at |-> 0, sz |-> 0]

Init ==
  /\ request \in Requests
  /\ arrived = 0
  /\ gone = "no"
  /\ pc = "recv"
  /\ totalLen = 0 /\ headerSz = 0 /\ contentLen = 0
  /\ verdict = "reading"
  /\ body = NoBody

\* The client's bytes arrive in segments of any size.
Arrive ==
  /\ gone = "no"
  /\ arrived' \in (arrived + 1) .. request.size
  /\ UNCHANGED <<request, gone, pc, recvVars, verdict, body>>

Leave ==
  /\ gone = "no"
  /\ gone' \in {"closed", "reset"}
  /\ UNCHANGED <<request, arrived, pc, recvVars, verdict, body>>

-----------------------------------------------------------------------------
\* atoi(): the low bits of the number, as a signed integer.
Half == IntMod \div 2
Atoi(n) == ((n + Half) % IntMod) - Half

Lesser(a, b) == IF a < b THEN a ELSE b
Greater(a, b) == IF a > b THEN a ELSE b

\* What is waited for after headers of h bytes that announce length n: never
\* more than the buffer can hold.
Clamped(n, h) ==
  IF n = Absent THEN 0 ELSE Lesser(Greater(Atoi(n), 0), bufferSz - 1 - h)

BadEnough(total, head, length) == \* the headers are counted as body
  head > 0 /\ total >= length

Enough(total, head, length) == head > 0 /\ total - head >= length

BadRecv == \* the end of the headers is looked for in the last segment only
  /\ pc = "recv"
  /\ \E n \in 1 .. Lesser(arrived - totalLen, bufferSz - 1 - totalLen) :
       totalLen' = totalLen + n
  /\ IF totalLen < request.head - 4 /\ totalLen' >= request.head
       THEN headerSz' = request.head /\ contentLen' = Clamped(request.length, request.head)
       ELSE UNCHANGED <<headerSz, contentLen>>
  /\ pc' = IF Enough(totalLen', headerSz', contentLen') \/ totalLen' >= bufferSz - 1
             THEN "parse" ELSE "recv"
  /\ UNCHANGED <<netVars, verdict, body>>

BadBound == \* no room is left for the terminator
  /\ pc = "recv"
  /\ \E n \in 1 .. Lesser(arrived - totalLen, bufferSz - totalLen) :
       totalLen' = totalLen + n
  /\ IF headerSz = 0 /\ totalLen' >= request.head
       THEN headerSz' = request.head /\ contentLen' = Clamped(request.length, request.head)
       ELSE UNCHANGED <<headerSz, contentLen>>
  /\ pc' = IF Enough(totalLen', headerSz', contentLen') \/ totalLen' >= bufferSz - 1
             THEN "parse" ELSE "recv"
  /\ UNCHANGED <<netVars, verdict, body>>

\* One turn of the loop: recv() returns some of what has arrived and fits.
Recv ==
  /\ pc = "recv"
  /\ \E n \in 1 .. Lesser(arrived - totalLen, bufferSz - 1 - totalLen) :
       totalLen' = totalLen + n
  /\ IF headerSz = 0 /\ totalLen' >= request.head
       THEN headerSz' = request.head /\ contentLen' = Clamped(request.length, request.head)
       ELSE UNCHANGED <<headerSz, contentLen>>
  /\ pc' = IF Enough(totalLen', headerSz', contentLen') \/ totalLen' >= bufferSz - 1
             THEN "parse" ELSE "recv"
  /\ UNCHANGED <<netVars, verdict, body>>

BadRecvEnds == \* a lost connection is retried like an interrupted call
  /\ pc = "recv"
  /\ gone = "closed" /\ totalLen = arrived
  /\ pc' = "recv"
  /\ UNCHANGED <<netVars, recvVars, verdict, body>>

\* recv() returns 0 after the last byte of a closed connection, or -1.
RecvEnds ==
  /\ pc = "recv"
  /\ gone = "reset" \/ (gone = "closed" /\ totalLen = arrived)
  /\ pc' = "parse"
  /\ UNCHANGED <<netVars, recvVars, verdict, body>>

-----------------------------------------------------------------------------
bodyAvail == totalLen - request.head

BadAnnounced == \* a body that is short of its length is taken as it is
  IF request.length = Absent THEN bodyAvail
  ELSE Lesser(Atoi(request.length), bodyAvail)

\* The size of the body: as announced, else all there is.
Announced == IF request.length = Absent THEN bodyAvail ELSE Atoi(request.length)

\* wolfCLU_HttpServerParseRequest, and the checks of transportReadRequest.
Parses ==
  /\ request.post
  /\ bodyAvail >= 0
  /\ Announced \in 1 .. bodyAvail

Parse ==
  /\ pc = "parse"
  /\ pc' = "done"
  /\ IF Parses
       THEN verdict' = "accepted" /\ body' = [at |-> request.head, sz |-> Announced]
       ELSE /\ verdict' = IF totalLen = 0 THEN "silent" ELSE "400"
            /\ UNCHANGED body
  /\ UNCHANGED <<netVars, recvVars>>

-----------------------------------------------------------------------------
Server == Recv \/ RecvEnds \/ Parse

Next == Arrive \/ Leave \/ Server

Spec == Init /\ [][Next]_vars

FairSpec == Spec /\ WF_vars(Server)

-----------------------------------------------------------------------------
(***************************************************************************)
(* Properties.                                                             *)
(***************************************************************************)

\* Every variable stays in its type.
TypeOK ==
  /\ request \in Requests
  /\ arrived \in Nat /\ arrived <= request.size
  /\ gone \in {"no", "closed", "reset"}
  /\ pc \in {"recv", "parse", "done"}
  /\ totalLen \in Nat /\ headerSz \in Nat /\ contentLen \in Nat
  /\ verdict \in {"reading", "accepted", "400", "silent"}
  /\ body \in [at : Nat, sz : Nat]

\* The terminator the loop writes after what it received, buffer[totalLen],
\* lies in the buffer, and nothing is counted that has not arrived.
InBuffer == totalLen <= bufferSz - 1 /\ totalLen <= arrived

\* The body handed on lies in what was received, past the headers, and has
\* the length announced: a truncated or clamped body is never handed on.
BodyIsWhole ==
  verdict = "accepted" =>
    /\ body.at = request.head
    /\ body.at + body.sz <= totalLen
    /\ body.sz >= 1
    /\ request.length # Absent => body.sz = Atoi(request.length)

Usable(r) ==
  /\ r.post
  /\ r.length # Absent
  /\ Atoi(r.length) >= 1
  /\ r.head + Atoi(r.length) <= Lesser(bufferSz - 1, r.size)

Unsized(r) == r.post /\ r.length = Absent

Whole(r) == r.head + Atoi(r.length)

Size(r) == r.size

Body(r) == [at |-> r.head, sz |-> Atoi(r.length)]

\* Once a usable request is all there the responder does not go back to
\* recv() for more, which would block until the client hangs up.
NeverWaitsForMore ==
  (pc = "recv" /\ Usable(request)) => totalLen < Whole(request)

\* A usable request that has all arrived is accepted in the end if its client
\* waits, and one whose client left is given up: reading never hangs on either.
ReadingEnds ==
  (gone # "no" \/ (Usable(request) /\ arrived >= Whole(request)))
    ~> (verdict # "reading")

\* How TCP segments the stream does not matter.
Reader == INSTANCE RequestReader

ReaderSpec == Reader!Spec

=============================================================================

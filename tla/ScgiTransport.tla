---------------------------- MODULE ScgiTransport ----------------------------
(***************************************************************************)
(* Reading one OCSP request over SCGI (src/src/tools/clu_scgi.c): a        *)
(* netstring of headers, "<length>:<headers>,", then the body.             *)
(*                                                                         *)
(* Bytes are counted, not spelt out.  A request is the number of           *)
(* characters before its colon, the length they announce for the headers,  *)
(* whether a comma follows that many bytes, the pairs of key and value in  *)
(* them, and the bytes after the comma.                                    *)
(***************************************************************************)
EXTENDS Integers, Sequences

CONSTANTS
  bufferSz,  \* size of the request buffer
  LenBuf,    \* characters of the netstring's length and its colon that are read
  Prefixes,  \* characters before the first colon
  Lengths,   \* lengths announced for the headers
  Headers,   \* what the headers may be
  Tails      \* bytes sent after the comma

\* A pair of the header section.  num is what atoi() makes of the value, post
\* that the value is "POST"; the last pair may lack its final NUL.
Pairs ==
  [key : {"CONTENT_LENGTH", "REQUEST_METHOD", "other"}, num : Int, post : BOOLEAN,
   ended : BOOLEAN]

(* What the constants have to be; ResponderInputs assumes it.              *)
ScgiConstants ==
  /\ bufferSz \in Nat \ {0} /\ LenBuf \in Nat \ {0}
  /\ Prefixes \subseteq Nat /\ Lengths \subseteq Int /\ Tails \subseteq Nat
  /\ Headers \subseteq Seq(Pairs)

Requests ==
  [prefix : Prefixes, length : Lengths, comma : BOOLEAN, headers : Headers, tail : Tails]

\* Where the header section begins in the stream, and what the client sends
\* in all.
HeadersAt(r) == r.prefix + 1
BodyAt(r) == HeadersAt(r) + r.length + 1
Size(r) == IF r.length >= 0 THEN BodyAt(r) + r.tail ELSE HeadersAt(r) + r.tail

VARIABLES
  request, arrived, gone, \* the request and the connection it comes over
  pc,       \* what is being read
  consumed, \* bytes taken from the socket
  stored,   \* bytes put in the buffer
  contentLength, post, \* parseHeaders
  verdict, body

netVars == <<request, arrived, gone>>
readVars == <<consumed, stored>>
headerVars == <<contentLength, post>>
vars == <<netVars, pc, readVars, headerVars, verdict, body>>

NoBody == [at |-> 0, sz |-> 0]

Init ==
  /\ request \in Requests
  /\ arrived = 0
  /\ gone = "no"
  /\ pc = "length"
  /\ consumed = 0 /\ stored = 0
  /\ contentLength = -1 /\ post = FALSE
  /\ verdict = "reading"
  /\ body = NoBody

Arrive ==
  /\ gone = "no"
  /\ arrived' \in (arrived + 1) .. Size(request)
  /\ UNCHANGED <<request, gone, pc, readVars, headerVars, verdict, body>>

Leave ==
  /\ gone = "no"
  /\ gone' \in {"closed", "reset"}
  /\ UNCHANGED <<request, arrived, pc, readVars, headerVars, verdict, body>>

-----------------------------------------------------------------------------
\* An error before the request is parsed is only logged.
GiveUp == pc' = "done" /\ verdict' = "silent"

BadReadFails == \* a lost connection is retried like an interrupted call
  /\ pc # "done"
  /\ gone = "closed" /\ consumed = arrived
  /\ UNCHANGED vars

\* The read functions fail when recv() returns 0 or -1.
ReadFails ==
  /\ pc # "done"
  /\ gone = "reset" \/ (gone = "closed" /\ consumed = arrived)
  /\ GiveUp
  /\ UNCHANGED <<netVars, readVars, headerVars, body>>

BadNetstringLength == \* the loop gives up one character early
  /\ pc = "length"
  /\ consumed < arrived
  /\ consumed' = consumed + 1
  /\ IF consumed = request.prefix
       THEN IF request.length \in 1 .. bufferSz - 1
              THEN pc' = "headers" /\ UNCHANGED verdict
              ELSE GiveUp
       ELSE IF consumed' = LenBuf - 1 THEN GiveUp ELSE UNCHANGED <<pc, verdict>>
  /\ UNCHANGED <<netVars, stored, headerVars, body>>

\* parseNetstringLength: one character at a time until the colon.
NetstringLength ==
  /\ pc = "length"
  /\ consumed < arrived
  /\ consumed' = consumed + 1
  /\ IF consumed = request.prefix
       THEN IF request.length \in 1 .. bufferSz - 1
              THEN pc' = "headers" /\ UNCHANGED verdict
              ELSE GiveUp
       ELSE IF consumed' = LenBuf THEN GiveUp ELSE UNCHANGED <<pc, verdict>>
  /\ UNCHANGED <<netVars, stored, headerVars, body>>

Lesser(a, b) == IF a < b THEN a ELSE b

\* readExactly: recv() returns some of what has arrived, at most what is missing.
Some(n) ==
  \E k \in 1 .. Lesser(arrived - consumed, n) :
    consumed' = consumed + k /\ stored' = stored + k

ReadHeaders ==
  /\ pc = "headers"
  /\ Some(request.length - stored)
  /\ pc' = IF stored' = request.length THEN "comma" ELSE pc
  /\ UNCHANGED <<netVars, headerVars, verdict, body>>

\* The pairs that are whole; parseHeaders stops at the first that is not.
Ended(h) == {i \in DOMAIN h : \A j \in 1 .. i : h[j].ended}
With(h, key) == {i \in Ended(h) : h[i].key = key}
LastOf(I) == CHOOSE i \in I : \A j \in I : j <= i

\* The last value of a repeated key counts.
LengthIn(h) ==
  IF With(h, "CONTENT_LENGTH") = {} THEN -1 ELSE h[LastOf(With(h, "CONTENT_LENGTH"))].num
PostIn(h) ==
  With(h, "REQUEST_METHOD") # {} /\ h[LastOf(With(h, "REQUEST_METHOD"))].post

\* transportReadRequest on a request that was read whole.
Checked(isPost, n) ==
  /\ pc' = "done"
  /\ IF ~isPost THEN verdict' = "405" /\ UNCHANGED body
     ELSE IF n = 0 THEN verdict' = "400" /\ UNCHANGED body
     ELSE verdict' = "accepted" /\ body' = [at |-> request.length, sz |-> n]

Fits(n) == n \in 0 .. bufferSz - request.length

\* The byte after the headers, parseHeaders and the check of the length.
ReadComma ==
  /\ pc = "comma"
  /\ consumed < arrived
  /\ consumed' = consumed + 1
  /\ IF request.comma
       THEN /\ contentLength' = LengthIn(request.headers)
            /\ post' = PostIn(request.headers)
            /\ IF ~Fits(contentLength') THEN GiveUp /\ UNCHANGED body
               ELSE IF contentLength' = 0 THEN Checked(post', 0)
               ELSE pc' = "body" /\ UNCHANGED <<verdict, body>>
       ELSE GiveUp /\ UNCHANGED <<headerVars, body>>
  /\ UNCHANGED <<netVars, stored>>

BadReadExtra == \* the body is read up to the end of the buffer
  /\ pc = "body"
  /\ Some(bufferSz - stored)
  /\ IF stored' >= request.length + contentLength
       THEN Checked(post, contentLength)
       ELSE UNCHANGED <<pc, verdict, body>>
  /\ UNCHANGED <<netVars, headerVars>>

ReadBody ==
  /\ pc = "body"
  /\ Some(request.length + contentLength - stored)
  /\ IF stored' = request.length + contentLength
       THEN Checked(post, contentLength)
       ELSE UNCHANGED <<pc, verdict, body>>
  /\ UNCHANGED <<netVars, headerVars>>

-----------------------------------------------------------------------------
Server == ReadFails \/ NetstringLength \/ ReadHeaders \/ ReadComma \/ ReadBody

Next == Arrive \/ Leave \/ Server

Spec == Init /\ [][Next]_vars

FairSpec == Spec /\ WF_vars(Server)

-----------------------------------------------------------------------------
(***************************************************************************)
(* Properties.                                                             *)
(***************************************************************************)

\* Every variable stays in its type; headers and body together stay in the
\* buffer.
TypeOK ==
  /\ request \in Requests
  /\ arrived \in Nat /\ consumed \in 0 .. arrived /\ stored \in 0 .. bufferSz
  /\ gone \in {"no", "closed", "reset"}
  /\ pc \in {"length", "headers", "comma", "body", "done"}
  /\ contentLength \in Int /\ post \in BOOLEAN
  /\ verdict \in {"reading", "accepted", "400", "405", "silent"}
  /\ body \in [at : 0 .. bufferSz, sz : 0 .. bufferSz]

Usable(r) ==
  /\ r.prefix < LenBuf
  /\ r.length \in 1 .. bufferSz - 1
  /\ r.comma
  /\ PostIn(r.headers)
  /\ LengthIn(r.headers) \in 1 .. Lesser(bufferSz - r.length, r.tail)

Unsized(r) == FALSE

Whole(r) == BodyAt(r) + LengthIn(r.headers)

Body(r) == [at |-> r.length, sz |-> LengthIn(r.headers)]

\* A usable request is read to its last byte and not further: no recv() is
\* left waiting for bytes that are not coming, however the stream is cut up.
ReadsItsOwnBytes ==
  Usable(request) =>
    /\ consumed <= Whole(request)
    /\ pc # "done" => consumed < Whole(request)

\* Its state is always of its types, and it reads its own bytes only: what a run
\* checks of this module as one property.
ScgiReadsItsOwn == TypeOK /\ ReadsItsOwnBytes

\* A usable request that has all arrived is accepted in the end if its client
\* waits, and one whose client left is given up: reading never hangs on either.
ReadingEnds ==
  (gone # "no" \/ (Usable(request) /\ arrived >= Whole(request)))
    ~> (verdict # "reading")

Reader == INSTANCE RequestReader

\* How TCP segments the stream does not matter: a request is accepted exactly
\* when it is whole, whatever pieces it comes in.
ScgiReaderSpec == Reader!Spec
=============================================================================

-------------------------- MODULE ScgiTransport_proofs --------------------------
(***************************************************************************)
(* That the SCGI reader reads its own bytes and implements RequestReader,  *)
(* for every buffer, every netstring and every way TCP may cut it up.      *)
(***************************************************************************)
EXTENDS ScgiTransport, WellFoundedInduction, TLAPS

\* Up to the colon: not past it, nor past the characters that are allowed.
InLength == pc = "length" => consumed <= request.prefix /\ consumed < LenBuf /\ stored = 0

\* Behind the colon the length is one that fits.
Sized ==
  pc \in {"headers", "comma", "body"} =>
    request.prefix < LenBuf /\ request.length \in 1 .. bufferSz - 1

\* Where the reader is, in the stream and in the buffer.
InHeaders ==
  pc = "headers" => stored < request.length /\ consumed = HeadersAt(request) + stored
AtComma ==
  pc = "comma" => stored = request.length /\ consumed = HeadersAt(request) + request.length
InBody ==
  pc = "body" =>
    /\ request.comma
    /\ contentLength = LengthIn(request.headers) /\ post = PostIn(request.headers)
    /\ contentLength \in 1 .. bufferSz - request.length
    /\ stored >= request.length /\ stored < request.length + contentLength
    /\ consumed = HeadersAt(request) + stored + 1

\* No more arrives than is sent, and the verdict comes at the end.
Sent == request.length >= 0 => arrived <= Size(request)
Judged == (verdict = "reading" <=> pc # "done") /\ (verdict = "reading" => body = NoBody)

Places == InLength /\ Sized /\ InHeaders /\ AtComma /\ InBody
IInv == TypeOK /\ Places /\ Sent /\ Judged /\ ReadsItsOwnBytes

-----------------------------------------------------------------------------
\* A set of places in a sequence has a last one.
LEMMA LastIsThere ==
  ASSUME NEW n \in Nat, NEW I, I \subseteq 1 .. n, I # {}
  PROVE  LastOf(I) \in I
<1> DEFINE T == {n - i : i \in I}
<1>1. T \subseteq Nat /\ T # {}
  <2>1. \A i \in I : n - i \in Nat
    BY SMT
  <2> QED BY <2>1, Zenon
<1>2. PICK t \in T : \A u \in T : ~(<<u, t>> \in OpToRel(<, Nat))
  BY <1>1, WFMin, NatLessThanWellFounded
<1>3. \A u \in T : ~(u < t)
  BY <1>1, <1>2 DEF OpToRel
<1>4. PICK i \in I : t = n - i
  OBVIOUS
<1>5. \A j \in I : j <= i
  <2> SUFFICES ASSUME NEW j \in I PROVE j <= i
    OBVIOUS
  <2>1. ~(n - j < n - i)
    BY <1>3, <1>4
  <2> QED BY <2>1
<1> QED BY <1>5 DEF LastOf

\* What parseHeaders makes of any header section.
LEMMA HeadersParts ==
  ASSUME NEW h \in Seq(Pairs)
  PROVE  LengthIn(h) \in Int /\ PostIn(h) \in BOOLEAN
<1>1. ASSUME NEW key, With(h, key) # {}
      PROVE  LastOf(With(h, key)) \in DOMAIN h
  BY <1>1, LastIsThere DEF With, Ended
<1>2. \A i \in DOMAIN h : h[i].num \in Int /\ h[i].post \in BOOLEAN
  <2>1. \A i \in DOMAIN h : h[i] \in Pairs
    OBVIOUS
  <2> QED BY <2>1 DEF Pairs
<1>3. LengthIn(h) \in Int
  BY <1>1, <1>2 DEF LengthIn
<1>4. PostIn(h) \in BOOLEAN
  BY Zenon DEF PostIn
<1> QED BY <1>3, <1>4

LEMMA RequestParts ==
  ASSUME ScgiConstants, request \in Requests
  PROVE  /\ request.prefix \in Nat /\ request.length \in Int /\ request.tail \in Nat
         /\ request.comma \in BOOLEAN
         /\ LengthIn(request.headers) \in Int /\ PostIn(request.headers) \in BOOLEAN
         /\ bufferSz \in Nat /\ bufferSz >= 1 /\ LenBuf \in Nat /\ LenBuf >= 1
<1>1. request.headers \in Seq(Pairs)
  BY DEF ScgiConstants, Requests
<1>2. LengthIn(request.headers) \in Int /\ PostIn(request.headers) \in BOOLEAN
  BY <1>1, HeadersParts
<1>3. /\ request.prefix \in Nat /\ request.length \in Int /\ request.tail \in Nat
      /\ request.comma \in BOOLEAN
  BY DEF ScgiConstants, Requests
<1>4. bufferSz \in Nat /\ bufferSz >= 1 /\ LenBuf \in Nat /\ LenBuf >= 1
  BY DEF ScgiConstants
<1> QED BY <1>2, <1>3, <1>4

-----------------------------------------------------------------------------
\* The steps of the client, and the end of the connection.
LEMMA OtherSteps ==
  ASSUME ScgiConstants, IInv, Arrive \/ Leave \/ ReadFails \/ UNCHANGED vars
  PROVE  IInv'
<1> USE RequestParts DEF IInv, TypeOK
<1>1. CASE Arrive
  <2>1. TypeOK' /\ Sent' /\ Judged'
    BY <1>1 DEF Arrive, readVars, headerVars, Sent, Judged, Size, BodyAt, HeadersAt
  <2>2. Places' /\ ReadsItsOwnBytes'
    BY <1>1 DEF Arrive, readVars, headerVars, Places, InLength, Sized, InHeaders, AtComma, InBody,
                ReadsItsOwnBytes
  <2> QED BY <2>1, <2>2
<1>2. CASE Leave
  <2>1. TypeOK' /\ Sent' /\ Judged'
    BY <1>2 DEF Leave, readVars, headerVars, Sent, Judged
  <2>2. Places' /\ ReadsItsOwnBytes'
    BY <1>2 DEF Leave, readVars, headerVars, Places, InLength, Sized, InHeaders, AtComma, InBody,
                ReadsItsOwnBytes
  <2> QED BY <2>1, <2>2
<1>3. CASE ReadFails
  <2>1. TypeOK' /\ Sent' /\ Judged'
    BY <1>3 DEF ReadFails, GiveUp, netVars, readVars, headerVars, Sent, Judged
  <2>2. Places' /\ ReadsItsOwnBytes'
    BY <1>3 DEF ReadFails, GiveUp, netVars, readVars, headerVars, Places, InLength, Sized,
                InHeaders, AtComma, InBody, ReadsItsOwnBytes
  <2> QED BY <2>1, <2>2
<1>4. CASE UNCHANGED vars
  <2>1. TypeOK' /\ Sent' /\ Judged'
    BY <1>4 DEF vars, netVars, readVars, headerVars, Sent, Judged
  <2>2. Places' /\ ReadsItsOwnBytes'
    BY <1>4 DEF vars, netVars, readVars, headerVars, Places, InLength, Sized, InHeaders, AtComma,
                InBody, ReadsItsOwnBytes
  <2> QED BY <2>1, <2>2
<1> QED BY <1>1, <1>2, <1>3, <1>4

\* What a usable request has in front of its body.
LEMMA UsableParts ==
  ASSUME ScgiConstants, IInv, Usable(request)
  PROVE  /\ request.prefix < LenBuf /\ request.length \in 1 .. bufferSz - 1 /\ request.comma
         /\ LengthIn(request.headers) \in 1 .. bufferSz - request.length
         /\ Whole(request) = request.prefix + request.length + 2 + LengthIn(request.headers)
  BY RequestParts DEF IInv, TypeOK, Usable, Lesser, Whole, BodyAt, HeadersAt

LEMMA LengthStep == ASSUME ScgiConstants, IInv, NetstringLength PROVE IInv'
<1> USE RequestParts DEF IInv, TypeOK
<1>1. /\ UNCHANGED <<request, arrived, gone, stored, contentLength, post, body>>
      /\ pc = "length" /\ consumed < arrived /\ consumed' = consumed + 1
      /\ consumed <= request.prefix /\ consumed < LenBuf /\ stored = 0
  BY DEF NetstringLength, netVars, headerVars, Places, InLength
<1>2. \/ /\ consumed = request.prefix /\ request.length \in 1 .. bufferSz - 1
         /\ pc' = "headers" /\ verdict' = verdict
      \/ pc' = "done" /\ verdict' = "silent"
      \/ /\ consumed # request.prefix /\ consumed' # LenBuf
         /\ pc' = pc /\ verdict' = verdict
  BY DEF NetstringLength, GiveUp
<1>3. TypeOK' /\ Sent' /\ Judged'
  BY <1>1, <1>2 DEF Sent, Judged
<1>4. Places'
  BY <1>1, <1>2 DEF Places, InLength, Sized, InHeaders, AtComma, InBody, HeadersAt
<1>5. ReadsItsOwnBytes'
  <2> SUFFICES ASSUME Usable(request)
               PROVE  consumed' <= Whole(request) /\ consumed' < Whole(request)
    BY <1>1 DEF ReadsItsOwnBytes
  <2> QED BY <1>1, UsableParts
<1> QED BY <1>3, <1>4, <1>5

LEMMA HeadersStep == ASSUME ScgiConstants, IInv, ReadHeaders PROVE IInv'
<1> USE RequestParts DEF IInv, TypeOK
<1>1. /\ UNCHANGED <<request, arrived, gone, contentLength, post, verdict, body>>
      /\ pc = "headers" /\ pc' = IF stored' = request.length THEN "comma" ELSE pc
      /\ stored < request.length /\ consumed = HeadersAt(request) + stored
      /\ request.prefix < LenBuf /\ request.length \in 1 .. bufferSz - 1
  BY DEF ReadHeaders, netVars, headerVars, Places, InHeaders, Sized
<1>2. PICK k \in 1 .. Lesser(arrived - consumed, request.length - stored) :
        consumed' = consumed + k /\ stored' = stored + k
  BY DEF ReadHeaders, Some
<1>3. /\ k \in Nat /\ consumed' <= arrived /\ stored' <= request.length
      /\ consumed' = HeadersAt(request) + stored'
  BY <1>1, <1>2 DEF Lesser, HeadersAt
<1>4. TypeOK' /\ Sent' /\ Judged'
  BY <1>1, <1>2, <1>3 DEF Sent, Judged
<1>5. Places'
  BY <1>1, <1>2, <1>3 DEF Places, InLength, Sized, InHeaders, AtComma, InBody, HeadersAt
<1>6. ReadsItsOwnBytes'
  <2> SUFFICES ASSUME Usable(request)
               PROVE  consumed' <= Whole(request) /\ consumed' < Whole(request)
    BY <1>1 DEF ReadsItsOwnBytes
  <2>1. /\ LengthIn(request.headers) \in Int /\ LengthIn(request.headers) >= 1
        /\ Whole(request) = request.prefix + request.length + 2 + LengthIn(request.headers)
    BY UsableParts
  <2>2. /\ request.prefix \in Int /\ request.length \in Int
        /\ stored' \in Int /\ consumed' \in Int
    BY <1>2, <1>3
  <2>3. consumed' <= request.prefix + 1 + request.length
    BY <1>1, <1>3, <2>2 DEF HeadersAt
  <2> HIDE RequestParts DEF IInv, TypeOK
  <2> QED BY <2>1, <2>2, <2>3
<1> QED BY <1>4, <1>5, <1>6

LEMMA CommaStep == ASSUME ScgiConstants, IInv, ReadComma PROVE IInv'
<1> USE RequestParts DEF IInv, TypeOK
<1>1. /\ UNCHANGED <<request, arrived, gone, stored>>
      /\ pc = "comma" /\ consumed < arrived /\ consumed' = consumed + 1
      /\ stored = request.length /\ consumed = HeadersAt(request) + request.length
      /\ request.prefix < LenBuf /\ request.length \in 1 .. bufferSz - 1
      /\ verdict = "reading" /\ body = NoBody
  BY DEF ReadComma, netVars, Places, AtComma, Sized, Judged
<1>2. \/ /\ request.comma /\ contentLength' \in 1 .. bufferSz - request.length
         /\ contentLength' = LengthIn(request.headers) /\ post' = PostIn(request.headers)
         /\ pc' = "body" /\ verdict' = verdict /\ body' = body
      \/ /\ contentLength' \in Int /\ post' \in BOOLEAN
         /\ pc' = "done" /\ verdict' \in {"405", "400", "silent"} /\ body' = body
  BY <1>1 DEF ReadComma, GiveUp, Checked, Fits, headerVars
<1>3. TypeOK' /\ Sent' /\ Judged'
  BY <1>1, <1>2 DEF Sent, Judged
<1>4. Places'
  BY <1>1, <1>2 DEF Places, InLength, Sized, InHeaders, AtComma, InBody, HeadersAt
<1>5. ReadsItsOwnBytes'
  <2> SUFFICES ASSUME Usable(request)
               PROVE  consumed' <= Whole(request) /\ consumed' < Whole(request)
    BY <1>1 DEF ReadsItsOwnBytes
  <2> QED BY <1>1, UsableParts DEF HeadersAt
<1> QED BY <1>3, <1>4, <1>5

LEMMA BodyStep == ASSUME ScgiConstants, IInv, ReadBody PROVE IInv'
<1> USE RequestParts DEF IInv, TypeOK
<1>1. /\ UNCHANGED <<request, arrived, gone, contentLength, post>>
      /\ pc = "body" /\ contentLength \in 1 .. bufferSz - request.length
      /\ contentLength = LengthIn(request.headers)
      /\ request.comma /\ post = PostIn(request.headers)
      /\ stored >= request.length /\ stored < request.length + contentLength
      /\ consumed = HeadersAt(request) + stored + 1
      /\ request.prefix < LenBuf /\ request.length \in 1 .. bufferSz - 1
      /\ verdict = "reading" /\ body = NoBody
  BY DEF ReadBody, netVars, headerVars, Places, InBody, Sized, Judged
<1>2. PICK k \in 1 .. Lesser(arrived - consumed, request.length + contentLength - stored) :
        consumed' = consumed + k /\ stored' = stored + k
  BY DEF ReadBody, Some
<1>3. /\ k \in Nat /\ consumed' <= arrived /\ stored' <= request.length + contentLength
      /\ consumed' = HeadersAt(request) + stored' + 1
  BY <1>1, <1>2 DEF Lesser, HeadersAt
<1>4. \/ /\ stored' = request.length + contentLength /\ pc' = "done"
         /\ \/ verdict' = "405" /\ body' = body
            \/ verdict' = "accepted" /\ body' = [at |-> request.length, sz |-> contentLength]
      \/ stored' # request.length + contentLength /\ UNCHANGED <<pc, verdict, body>>
  BY <1>1 DEF ReadBody, Checked
<1>5. TypeOK' /\ Sent' /\ Judged'
  BY <1>1, <1>2, <1>3, <1>4 DEF Sent, Judged
<1>6. Places'
  BY <1>1, <1>2, <1>3, <1>4 DEF Places, InLength, Sized, InHeaders, AtComma, InBody, HeadersAt
<1>7. ReadsItsOwnBytes'
  <2> SUFFICES ASSUME Usable(request)
               PROVE  consumed' <= Whole(request) /\ (pc' # "done" => consumed' < Whole(request))
    BY <1>1 DEF ReadsItsOwnBytes
  <2>1. /\ LengthIn(request.headers) \in Int
        /\ Whole(request) = request.prefix + request.length + 2 + LengthIn(request.headers)
    BY UsableParts
  <2>2. /\ request.prefix \in Int /\ request.length \in Int
        /\ stored' \in Int /\ consumed' \in Int
    BY <1>2, <1>3
  <2>3. /\ consumed' = request.prefix + 2 + stored'
        /\ stored' <= request.length + LengthIn(request.headers)
        /\ pc' # "done" => stored' < request.length + LengthIn(request.headers)
    BY <1>1, <1>3, <1>4, <2>1, <2>2 DEF HeadersAt
  <2> HIDE RequestParts DEF IInv, TypeOK
  <2> QED BY <2>1, <2>2, <2>3
<1> QED BY <1>5, <1>6, <1>7

LEMMA InitInv == ASSUME ScgiConstants, Init PROVE IInv
<1> USE RequestParts DEF Init
<1>1. TypeOK /\ Judged
  <2>1. bufferSz \in Nat
    BY RequestParts
  <2>2. NoBody \in [at : 0 .. bufferSz, sz : 0 .. bufferSz]
    BY <2>1 DEF NoBody
  <2>3. 0 \in 0 .. 0 /\ 0 \in 0 .. bufferSz /\ 0 \in Nat /\ -1 \in Int /\ FALSE \in BOOLEAN
    BY <2>1
  <2>4. TypeOK
    BY <2>2, <2>3, Zenon DEF TypeOK
  <2> QED BY <2>4 DEF Judged
<1>2. Sent
  BY DEF Sent, Size, BodyAt, HeadersAt
<1>3. Places
  BY DEF Places, InLength, Sized, InHeaders, AtComma, InBody
<1>4. ReadsItsOwnBytes
  BY DEF ReadsItsOwnBytes, Usable, Lesser, Whole, BodyAt, HeadersAt
<1> QED BY <1>1, <1>2, <1>3, <1>4 DEF IInv

\* Every reachable state satisfies the inductive invariant.
THEOREM Invariance == ASSUME ScgiConstants PROVE Spec => []IInv
<1>1. Init => IInv
  BY InitInv
<1>2. IInv /\ [Next]_vars => IInv'
  BY OtherSteps, LengthStep, HeadersStep, CommaStep, BodyStep DEF Next, Server
<1> QED BY <1>1, <1>2, PTL DEF Spec

\* Headers and body together stay in the buffer; wolfCLU_ScgiRead reads a
\* usable request to its last byte and not further, and never blocks for bytes
\* it does not have.
THEOREM ReadsNoMore == ASSUME ScgiConstants PROVE Spec => []ScgiReadsItsOwn
<1>1. IInv => ScgiReadsItsOwn
  BY DEF IInv, ScgiReadsItsOwn
<1> QED BY <1>1, Invariance, PTL

-----------------------------------------------------------------------------
\* The verdicts are those the abstract reader may give.
LEMMA GivenUpForCause ==
  ASSUME ScgiConstants, IInv, ReadFails \/ NetstringLength \/ ReadComma, verdict' # verdict
  PROVE  Reader!Refuse
<1> USE RequestParts DEF IInv, TypeOK
<1>1. CASE ReadFails
  <2>1. Usable(request) => gone = "reset" \/ (gone = "closed" /\ arrived < Whole(request))
    BY <1>1, UsableParts DEF ReadFails, ReadsItsOwnBytes
  <2> QED BY <1>1, <2>1 DEF ReadFails, GiveUp, netVars, Reader!Refuse, Judged
<1>2. CASE NetstringLength
  <2>1. ~Usable(request)
    BY <1>2 DEF NetstringLength, Places, InLength, Usable
  <2> QED BY <1>2, <2>1 DEF NetstringLength, GiveUp, netVars, Reader!Refuse, Judged
<1>3. CASE ReadComma
  <2>1. ~Usable(request)
    BY <1>3, UsableParts DEF ReadComma, Fits, Checked, Usable
  <2>2. verdict' \in {"400", "405", "silent"} /\ body' = body
    BY <1>3 DEF ReadComma, GiveUp, Checked
  <2> QED BY <1>3, <2>1, <2>2 DEF ReadComma, netVars, Reader!Refuse, Judged
<1> QED BY <1>1, <1>2, <1>3

LEMMA BodyIsTaken ==
  ASSUME ScgiConstants, IInv, ReadBody
  PROVE  Reader!Take \/ Reader!Refuse \/ UNCHANGED Reader!vars
<1> USE RequestParts DEF IInv, TypeOK
<1>1. /\ UNCHANGED <<request, arrived, gone>> /\ verdict = "reading" /\ pc = "body"
  BY DEF ReadBody, netVars, Judged
<1>2. CASE stored' # request.length + contentLength
  BY <1>1, <1>2 DEF ReadBody, Reader!vars
<1>3. CASE stored' = request.length + contentLength /\ ~post
  <2>1. ~Usable(request)
    BY <1>1, <1>3 DEF Places, InBody, Usable
  <2> QED BY <1>1, <1>3, <2>1 DEF ReadBody, Checked, Reader!Refuse
<1>4. CASE stored' = request.length + contentLength /\ post
  <2>1. IInv'
    BY BodyStep
  <2>2. /\ verdict' = "accepted" /\ body' = Body(request)
        /\ contentLength = LengthIn(request.headers) /\ contentLength >= 1
    BY <1>1, <1>4 DEF ReadBody, Checked, Body, Places, InBody
  <2>3. consumed' = HeadersAt(request) + request.length + contentLength + 1
    <3>1. PICK k \in 1 .. Lesser(arrived - consumed, request.length + contentLength - stored) :
            consumed' = consumed + k /\ stored' = stored + k
      BY DEF ReadBody, Some
    <3>2. k \in Int
      BY <3>1
    <3> QED BY <1>1, <1>4, <3>1, <3>2 DEF Places, InBody, HeadersAt
  <2>4. /\ arrived >= Whole(request) /\ contentLength <= request.tail
    <3>1. consumed' <= arrived /\ arrived <= Size(request)
      BY <1>1, <2>1 DEF Sent, Places, Sized
    <3> QED BY <1>1, <2>2, <2>3, <3>1 DEF Whole, BodyAt, HeadersAt, Size, Places, Sized
  <2>5. Usable(request)
    <3>1. PostIn(request.headers)
      BY <1>1, <1>4, Zenon DEF Places, InBody
    <3>2. /\ request.prefix < LenBuf /\ request.length \in 1 .. bufferSz - 1 /\ request.comma
          /\ contentLength \in 1 .. bufferSz - request.length
      BY <1>1 DEF Places, InBody, Sized
    <3> QED BY <2>2, <2>4, <3>1, <3>2 DEF Usable, Lesser
  <2> QED BY <1>1, <2>2, <2>4, <2>5 DEF Reader!Take
<1> QED BY <1>2, <1>3, <1>4

\* How TCP segments the stream does not matter: the reader does what
\* RequestReader says.
THEOREM Implementation == ASSUME ScgiConstants PROVE Spec => ScgiReaderSpec
<1>1. Init => Reader!Init
  BY DEF Init, Reader!Init, NoBody, Reader!NoBody
<1>2. IInv /\ [Next]_vars => [Reader!Next]_(Reader!vars)
  <2> SUFFICES ASSUME IInv, [Next]_vars PROVE Reader!Next \/ UNCHANGED Reader!vars
    OBVIOUS
  <2>1. CASE Arrive
    BY <2>1 DEF Arrive, Reader!Arrive, Reader!Next
  <2>2. CASE Leave
    BY <2>2 DEF Leave, Reader!Leave, Reader!Next
  <2>3. CASE (ReadFails \/ NetstringLength \/ ReadComma) /\ verdict' # verdict
    BY <2>3, GivenUpForCause DEF Reader!Next
  <2>4. CASE (ReadFails \/ NetstringLength \/ ReadComma) /\ verdict' = verdict
    <3>1. UNCHANGED <<request, arrived, gone>>
      BY <2>4 DEF ReadFails, NetstringLength, ReadComma, netVars
    <3>2. body' = body
      BY <2>4 DEF ReadFails, NetstringLength, ReadComma, GiveUp, Checked, IInv, Judged
    <3> QED BY <2>4, <3>1, <3>2 DEF Reader!vars
  <2>5. CASE ReadHeaders
    BY <2>5 DEF ReadHeaders, netVars, Reader!vars
  <2>6. CASE ReadBody
    BY <2>6, BodyIsTaken DEF Reader!Next
  <2>7. CASE UNCHANGED vars
    BY <2>7 DEF vars, netVars, Reader!vars
  <2> QED BY <2>1, <2>2, <2>3, <2>4, <2>5, <2>6, <2>7 DEF Next, Server
<1> QED BY <1>1, <1>2, Invariance, PTL DEF Spec, ScgiReaderSpec, Reader!Spec
===============================================================================

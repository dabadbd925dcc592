--------------------------- MODULE ResponderInputs ---------------------------
(***************************************************************************)
(* What ocspResponder reads (src/ocsp/clu_ocsp.c): the index file, once,   *)
(* and then one request after the other, all over HTTP or all over SCGI,   *)
(* whichever -scgi chose.  No reading shares state with another:           *)
(*                                                                         *)
(*   index   OcspIndex                                                     *)
(*   http    HttpTransport                                                 *)
(*   scgi    ScgiTransport                                                 *)
(***************************************************************************)
EXTENDS HttpTransport

CONSTANTS
  ScgiBufferSz, LenBuf, Prefixes, ScgiLengths, Headers, Tails, \* ScgiTransport
  Serials, Files, MaxFailures                                  \* OcspIndex

VARIABLES
  reading,  \* what is being read
  sRequest, sArrived, sGone, sPc, sConsumed, sStored, sContentLength, sPost, sVerdict, sBody,
  index, iPc, iLine, entries, entry, table, failures

Scgi == INSTANCE ScgiTransport WITH
  bufferSz <- ScgiBufferSz, Lengths <- ScgiLengths,
  request <- sRequest, arrived <- sArrived, gone <- sGone, pc <- sPc, consumed <- sConsumed,
  stored <- sStored, contentLength <- sContentLength, post <- sPost, verdict <- sVerdict,
  body <- sBody

Index == INSTANCE OcspIndex WITH pc <- iPc, line <- iLine

ASSUME ScgiAssumption == Scgi!ScgiConstants
ASSUME IndexAssumption == Index!IndexConstants

scgiVars == <<sRequest, sArrived, sGone, sPc, sConsumed, sStored, sContentLength, sPost,
              sVerdict, sBody>>
indexVars == <<index, iPc, iLine, entries, entry, table, failures>>
inputVars == <<reading, vars, scgiVars, indexVars>>

(* What is not read is of no account, but the same every time.             *)
NoHttp == request = (CHOOSE r \in Requests : TRUE) /\ Init
NoScgi == sRequest = (CHOOSE r \in Scgi!Requests : TRUE) /\ Scgi!Init
NoIndex == index = (CHOOSE f \in Files : TRUE) /\ Index!Init

InputsInit ==
  \/ reading = "index" /\ Index!Init /\ NoHttp /\ NoScgi
  \/ reading = "http"  /\ NoIndex    /\ Init   /\ NoScgi
  \/ reading = "scgi"  /\ NoIndex    /\ NoHttp /\ Scgi!Init

ReadIndex == reading = "index" /\ Index!Next /\ UNCHANGED <<reading, vars, scgiVars>>
ReadHttp == reading = "http" /\ Next /\ UNCHANGED <<reading, scgiVars, indexVars>>
ReadScgi == reading = "scgi" /\ Scgi!Next /\ UNCHANGED <<reading, vars, indexVars>>

InputsNext == ReadIndex \/ ReadHttp \/ ReadScgi

(* The responder goes on while it can; clients may stop at any time.       *)
Responder ==
  \/ ReadIndex
  \/ reading = "http" /\ Server /\ UNCHANGED <<reading, scgiVars, indexVars>>
  \/ reading = "scgi" /\ Scgi!Server /\ UNCHANGED <<reading, vars, indexVars>>

InputsSpec == InputsInit /\ [][InputsNext]_inputVars /\ WF_inputVars(Responder)

-----------------------------------------------------------------------------
(* Over SCGI headers and body together stay in the buffer, and a usable    *)
(* request is read to its last byte and not further: no recv() waits for   *)
(* bytes that are not coming, however the stream is cut up.                *)
ScgiReadsItsOwn == Scgi!ScgiReadsItsOwn

(* ScgiTransport implements RequestReader, as HttpTransport does.          *)
ScgiReaderSpec == Scgi!ScgiReaderSpec

(* When nothing failed every serial is served with what the last line      *)
(* about it says; whatever fails, none is vouched for that the index does  *)
(* not call valid.                                                         *)
IndexIsServed == Index!IndexIsServed

(* A usable request that has all arrived is accepted in the end, one whose *)
(* client left is given up, and the index is read to its end: no reading   *)
(* goes on for ever.                                                       *)
EveryReadingEnds ==
  /\ ReadingEnds
  /\ Scgi!ReadingEnds
  /\ reading = "index" ~> iPc = "listen"
=============================================================================

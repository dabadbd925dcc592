---------------------------- MODULE RequestReader ----------------------------
(***************************************************************************)
(* What the responder relies on when it reads a request from a connection, *)
(* whichever transport carries it: a request it can use is taken as soon   *)
(* as the whole of it is there, however TCP cut it up, and it is never     *)
(* taken before.  HttpTransport and ScgiTransport implement this; the      *)
(* steps ReadRequest and RefuseRequest of OcspResponder stand for it.      *)
(***************************************************************************)
EXTENDS Integers

CONSTANTS
  Requests,   \* what clients may send
  Size(_),    \* the bytes of a request, all told
  Usable(_),  \* the transport can make out a whole, small enough request
  Unsized(_), \* nothing in the request says where it ends
  Whole(_),   \* bytes of a usable request up to the end of its body
  Body(_)     \* its body: where it lies in the buffer, and its length

VARIABLES
  request, \* what the client is sending
  arrived, \* how many bytes of it have reached us
  gone,    \* the client has closed or reset its connection
  verdict, \* what became of the request
  body     \* the body handed to the OCSP layer

vars == <<request, arrived, gone, verdict, body>>

NoBody == [at |-> 0, sz |-> 0]

Init ==
  /\ request \in Requests
  /\ arrived = 0
  /\ gone = "no"
  /\ verdict = "reading"
  /\ body = NoBody

Arrive ==
  /\ gone = "no"
  /\ arrived' \in (arrived + 1) .. Size(request)
  /\ UNCHANGED <<request, gone, verdict, body>>

Leave ==
  /\ gone = "no"
  /\ gone' \in {"closed", "reset"}
  /\ UNCHANGED <<request, arrived, verdict, body>>

Take ==
  /\ verdict = "reading"
  /\ \/ Usable(request) /\ arrived >= Whole(request) /\ body' = Body(request)
     \/ Unsized(request) /\ body'.sz \in 1 .. arrived
  /\ verdict' = "accepted"
  /\ UNCHANGED <<request, arrived, gone>>

\* A usable request is refused only when its client left: before the end of
\* it, or by a reset, which may destroy bytes that had arrived.
Refuse ==
  /\ verdict = "reading"
  /\ Usable(request) => gone = "reset" \/ (gone = "closed" /\ arrived < Whole(request))
  /\ verdict' \in {"400", "405", "silent"}
  /\ UNCHANGED <<request, arrived, gone, body>>

Next == Arrive \/ Leave \/ Take \/ Refuse

Spec == Init /\ [][Next]_vars
=============================================================================

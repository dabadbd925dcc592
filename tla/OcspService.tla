----------------------------- MODULE OcspService -----------------------------
(***************************************************************************)
(* What "wolfssl ocsp" promises as a responder, with no process, socket or *)
(* buffer in sight: connections ask, each is answered at most once and     *)
(* rightly, a limited number of them successfully, and after the service   *)
(* stops nothing is answered any more.  OcspResponder implements it.       *)
(***************************************************************************)
EXTENDS Integers, Sequences

CONSTANTS
  Conns,       \* connections
  Serials,     \* serial numbers the table is about
  NoSerial,    \* the serial of a request or an answer that has none
  Requests,    \* whole requests, records with a kind and a serial
  WellFormed,  \* the requests that reach the OCSP layer
  CertStatuses,\* "good", "revoked", "unknown" or "absent"
  OcspAnswers, \* OCSP responses, records with a status, a serial and a cert
  TransportErrors, \* answers below OCSP
  Cut,         \* an answer cut short
  Limits,      \* possible limits of successful answers; 0 is none
  Nothing      \* a connection that has not asked yet

VARIABLES
  phase,       \* "starting", "serving" or "stopped"
  table,       \* status of each serial
  limit,       \* how many successful answers the service gives
  asked,       \* the request of each connection
  answers,     \* what each connection was sent, a sequence of at most one
  served       \* the successful answers given

vars == <<phase, table, limit, asked, answers, served>>

Init ==
  /\ phase = "starting"
  /\ table = [s \in Serials |-> "absent"]
  /\ limit \in Limits
  /\ asked = [c \in Conns |-> Nothing]
  /\ answers = [c \in Conns |-> << >>]
  /\ served = 0

LoadTable ==
  /\ phase = "starting"
  /\ table' \in [Serials -> CertStatuses]
  /\ UNCHANGED <<phase, limit, asked, answers, served>>

Begin ==
  /\ phase = "starting"
  /\ phase' = "serving"
  /\ UNCHANGED <<table, limit, asked, answers, served>>

\* A service that never began may be asked too, and leaves without a word.
Ask(c) ==
  /\ asked[c] = Nothing
  /\ \E r \in Requests : asked' = [asked EXCEPT ![c] = r]
  /\ UNCHANGED <<phase, table, limit, answers, served>>

Answer(c, a) ==
  /\ phase = "serving"
  /\ answers[c] = << >>
  /\ answers' = [answers EXCEPT ![c] = <<a>>]
  /\ UNCHANGED <<table, limit, asked>>

\* A successful answer states the status the table gives the serial asked
\* for, and the one that reaches the limit stops the service.
Succeed(c) ==
  /\ limit = 0 \/ served < limit
  /\ asked[c] # Nothing /\ asked[c].kind = "status"
  /\ table[asked[c].serial] # "absent"
  /\ Answer(c, [status |-> "successful", serial |-> asked[c].serial,
                cert |-> table[asked[c].serial]])
  /\ served' = served + 1
  /\ phase' = IF limit > 0 /\ served' >= limit THEN "stopped" ELSE "serving"

\* An OCSP error names neither a serial nor a status.
Err(c) ==
  /\ asked[c] \in WellFormed
  /\ \E a \in OcspAnswers : a.status # "successful" /\ Answer(c, a)
  /\ UNCHANGED <<phase, served>>

\* A request the transport refuses, or an answer cut short.
Refuse(c) ==
  /\ \E a \in TransportErrors \cup {Cut} : Answer(c, a)
  /\ UNCHANGED <<phase, served>>

Stop ==
  /\ phase' = "stopped"
  /\ UNCHANGED <<table, limit, asked, answers, served>>

Next ==
  \/ LoadTable
  \/ Begin
  \/ \E c \in Conns : Ask(c) \/ Succeed(c) \/ Err(c) \/ Refuse(c)
  \/ Stop

Spec == Init /\ [][Next]_vars

=============================================================================

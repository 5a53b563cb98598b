---------------------------- MODULE HostProtocol ----------------------------
(***************************************************************************)
(* The private wire format of the process host                             *)
(* (cordis-runtime/src/host/protocol.rs).                                  *)
(*                                                                         *)
(* A message is its kind, its request id, its encoded length, the length   *)
(* of its nested field under a negotiated limit (0 if it has none), the    *)
(* limits it offers and what it reports.  A frame is what the encoder      *)
(* writes for it: a tag byte, the id, a failure category with a host-kind  *)
(* code, and a body that may reach the decoder cut short or with trailing  *)
(* bytes.  Sizes are abstract units; the layout of the fields is left out. *)
(***************************************************************************)
EXTENDS Integers

Requests == {"Hello", "Load", "Start", "Invoke", "Cancel", "Dispose", "Shutdown"}
Replies == {"HelloAck", "Loaded", "Started", "InvokeResult", "Disposed",
            "ShutdownAck", "Failure"}
Kinds == Requests \cup Replies

HostKinds ==
  {"HandshakeIncompatible", "ProtocolViolation", "TransportClosed",
   "ProcessExited", "ProcessKilled", "MessageTooLarge", "UnsupportedFormat",
   "UnsupportedCapability", "Overloaded", "Unavailable"}

\* What a reply reports: success, a remote domain error, or a host failure.
Reports == {"ok", "domain"} \cup HostKinds

(***************************************************************************)
(* The tag byte of each message, written by encode and matched by decode.  *)
(***************************************************************************)
Tag ==
  [Hello |-> 1, HelloAck |-> 2, Load |-> 3, Loaded |-> 4, Start |-> 5,
   Started |-> 6, Dispose |-> 7, Disposed |-> 8, Shutdown |-> 9,
   ShutdownAck |-> 10, Failure |-> 11, Invoke |-> 12, InvokeResult |-> 13,
   Cancel |-> 14]

KindOfTag(t) == CHOOSE k \in Kinds : Tag[k] = t

\* Message::is_control
IsControl(kind) == kind \notin {"Load", "Loaded", "Invoke", "InvokeResult"}

\* payload_is_control, which sees only the tag byte
PayloadIsControl(frame) == frame.tag \notin {3, 4, 12, 13}

(***************************************************************************)
(* host_kind_code and decode_host_kind.  Code 1 is also the code of every  *)
(* kind the encoder does not know.                                         *)
(***************************************************************************)
HostKindCode(kind) ==
  CASE kind = "HandshakeIncompatible" -> 0
    [] kind = "TransportClosed"       -> 2
    [] kind = "ProcessExited"         -> 3
    [] kind = "ProcessKilled"         -> 4
    [] kind = "MessageTooLarge"       -> 5
    [] kind = "UnsupportedFormat"     -> 6
    [] kind = "UnsupportedCapability" -> 7
    [] kind = "Overloaded"            -> 8
    [] kind = "Unavailable"           -> 9
    [] OTHER                          -> 1

KnownCodes == 0..9
DecodeHostKind(code) == CHOOSE k \in HostKinds : HostKindCode(k) = code

(***************************************************************************)
(* The category byte: a Failure is 0 for a host failure and 1 for a domain *)
(* error, an InvokeResult is 0 for success, 1 for a domain error and 2 for *)
(* a host failure.  Other messages have none.                              *)
(***************************************************************************)
Category(kind, report) ==
  CASE kind = "Failure"      -> IF report = "domain" THEN 1 ELSE 0
    [] kind = "InvokeResult" -> IF report = "ok" THEN 0
                                ELSE IF report = "domain" THEN 1 ELSE 2
    [] OTHER -> 0

CarriesHostKind(kind, category) ==
  \/ kind = "Failure" /\ category = 0
  \/ kind = "InvokeResult" /\ category = 2

ReportOf(kind, category, code) ==
  CASE CarriesHostKind(kind, category) -> DecodeHostKind(code)
    [] kind \in {"Failure", "InvokeResult"} /\ category = 1 -> "domain"
    [] OTHER -> "ok"

KnownCategory(kind, category) ==
  category \in CASE kind = "Failure" -> {0, 1}
                 [] kind = "InvokeResult" -> {0, 1, 2}
                 [] OTHER -> {0}

Failed(error) == [ok |-> FALSE, error |-> error]
Done(value) == [ok |-> TRUE, value |-> value]

(***************************************************************************)
(* encode: the whole message is laid out before its length is compared     *)
(* with the limit.  Limits travel in Hello and HelloAck.                   *)
(***************************************************************************)
Frame(m) ==
  [tag |-> Tag[m.kind], id |-> m.id, len |-> m.len, nested |-> m.nested,
   category |-> Category(m.kind, m.report),
   code |-> IF m.report \in HostKinds THEN HostKindCode(m.report) ELSE 0,
   body |-> "whole", limits |-> m.limits]

Encode(m, limit) ==
  IF m.len > limit THEN Failed("MessageTooLarge") ELSE Done(Frame(m))

(***************************************************************************)
(* decode: the tag selects the fields, a nested field longer than its      *)
(* semantic limit is too large before its bytes are taken, and a body that *)
(* ends early or goes on after the last field is a violation.              *)
(***************************************************************************)
NestedLimit(kind, limits) ==
  CASE kind = "Load" -> limits.artifact
    [] kind = "Invoke" -> limits.request
    [] OTHER -> limits.response

Decode(frame, limits) ==
  IF \A k \in Kinds : Tag[k] # frame.tag THEN Failed("ProtocolViolation")
  ELSE LET kind == KindOfTag(frame.tag) IN
    IF \/ ~KnownCategory(kind, frame.category)
       \/ CarriesHostKind(kind, frame.category) /\ frame.code \notin KnownCodes
    THEN Failed("ProtocolViolation")
    ELSE IF frame.nested > NestedLimit(kind, limits) THEN Failed("MessageTooLarge")
    ELSE IF frame.body # "whole" THEN Failed("ProtocolViolation")
    ELSE Done([kind |-> kind, id |-> frame.id, len |-> frame.len,
               nested |-> frame.nested,
               report |-> ReportOf(kind, frame.category, frame.code),
               limits |-> frame.limits])

(***************************************************************************)
(* ExpectedResponseKind::accepts: the success kind of the request, or a    *)
(* Failure for every request but an invocation.                            *)
(***************************************************************************)
SuccessKind ==
  [Hello |-> "HelloAck", Load |-> "Loaded", Start |-> "Started",
   Dispose |-> "Disposed", Shutdown |-> "ShutdownAck", Invoke |-> "InvokeResult"]

\* Mutant: any reply answers any request.
AcceptsAny(request, m) == m.kind \in Replies

Accepts(request, m) ==
  \/ request # "Invoke" /\ m.kind = "Failure"
  \/ m.kind = SuccessKind[request]

\* remote_failure_is_session_terminal
SessionTerminal(report) ==
  report \in {"ProtocolViolation", "HandshakeIncompatible", "TransportClosed",
              "ProcessExited", "ProcessKilled"}
=============================================================================

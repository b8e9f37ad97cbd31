----------------------------- MODULE SyncTextApi -----------------------------
(* The synchronous exports (src/src/http/sync-text-api.cpp over                *)
(* sync-operations.cpp and HttpClient::Perform): a CAPL thread's call checks   *)
(* its texts, performs one transfer and reports through out-parameters the     *)
(* script keeps.  restifyRequestSync is the general call; the five verb        *)
(* exports fix the method and the options and check what is left.              *)
EXTENDS CurlTransport, RequestTexts

CONSTANTS
  BufferSizes       \* values a script passes as responseBodySize

ASSUME BufferSizesAssumption == BufferSizes \subseteq Nat
ASSUME DefaultsAssumption == 0 \in MaxBytesOptions /\ 0 \in TimeoutOptions

VARIABLES
  calling,             \* the thread is inside Execute...Sync
  room,                \* responseBodySize of its call
  reply,               \* Status the call returned, "none" while it runs
  rejected,            \* history: the call failed a check
  httpStatusCode,      \* the script's variables; each is Untouched when the
  responseBodyLength,  \* call starts, and responseBody holds the size of the
  responseBody         \* text the script reads from its buffer

outs == <<httpStatusCode, responseBodyLength, responseBody>>
syncVars == <<calling, room, reply, rejected, outs>>
allVars == <<vars, syncVars>>

------------------------------------------------------------------------------
(* The verbs take the default options. *)
OptionsOf(a, options) == IF a.export = "request" THEN options ELSE {0}

------------------------------------------------------------------------------
SyncInit ==
  /\ Init
  /\ calling = [t \in Threads |-> FALSE]
  /\ room = [t \in Threads |-> 0]
  /\ reply = [t \in Threads |-> "none"]
  /\ rejected = [t \in Threads |-> FALSE]
  /\ httpStatusCode = [t \in Threads |-> Untouched]
  /\ responseBodyLength = [t \in Threads |-> Untouched]
  /\ responseBody = [t \in Threads |-> Untouched]

(* A script calls an export with its variables marked untouched. *)
Enter(t) ==
  /\ ~ calling[t]
  /\ httpStatusCode' = [httpStatusCode EXCEPT ![t] = Untouched]
  /\ responseBodyLength' = [responseBodyLength EXCEPT ![t] = Untouched]
  /\ responseBody' = [responseBody EXCEPT ![t] = Untouched]

Reject(t, a) ==
  /\ Enter(t)
  /\ \E i \in DOMAIN Checks(a) :
       IsFirstFailure(Checks(a), i) /\ reply' = [reply EXCEPT ![t] = Checks(a)[i]]
  /\ rejected' = [rejected EXCEPT ![t] = TRUE]
  /\ UNCHANGED <<calling, room, vars>>

(* The checks pass and the request goes to the transport, which may fail      *)
(* before it has a transfer; so may the copying of the request                 *)
(* (BuildAndSend), which answers NetworkError as the transport would.          *)
Accept(t, a) ==
  /\ Passes(Checks(a))
  /\ Enter(t)
  /\ calling' = [calling EXCEPT ![t] = TRUE]
  /\ \E size \in BufferSizes : room' = [room EXCEPT ![t] = size]
  /\ reply' = [reply EXCEPT ![t] = "none"]
  /\ rejected' = [rejected EXCEPT ![t] = FALSE]
  /\ \/ \E maxBytes \in OptionsOf(a, MaxBytesOptions),
            timeout \in OptionsOf(a, TimeoutOptions) : Begin(t, maxBytes, timeout)
     \/ BeginFails(t)

\* mutant: the outcome of the copy answers the call
BugFinalStatus(status, copied) == copied
(* What FinishResponse answers: the copy's outcome only after a success. *)
FinalStatus(status, copied) == IF status = "Ok" THEN copied ELSE status

\* mutant: the out-parameters are written after a copy that succeeds
BugFinishResponse(t) ==
  LET copied == CopyStatus(body[t], room[t])
  IN  /\ calling[t] /\ phase[t] = "returned"
      /\ calling' = [calling EXCEPT ![t] = FALSE]
      /\ responseBody' = [responseBody EXCEPT ![t] = CopyText(body[t], room[t])]
      /\ reply' = [reply EXCEPT ![t] = FinalStatus(result[t], copied)]
      /\ IF copied # "Ok" THEN UNCHANGED <<httpStatusCode, responseBodyLength>>
         ELSE /\ httpStatusCode' = [httpStatusCode EXCEPT ![t] = statusCode[t]]
              /\ responseBodyLength' = [responseBodyLength EXCEPT ![t] = body[t]]
      /\ UNCHANGED <<vars, room, rejected>>
(* FinishResponse: both out-parameters, then the copy, then the answer. *)
FinishResponse(t) ==
  /\ calling[t] /\ phase[t] = "returned"
  /\ calling' = [calling EXCEPT ![t] = FALSE]
  /\ httpStatusCode' = [httpStatusCode EXCEPT ![t] = statusCode[t]]
  /\ responseBodyLength' = [responseBodyLength EXCEPT ![t] = body[t]]
  /\ responseBody' = [responseBody EXCEPT ![t] = CopyText(body[t], room[t])]
  /\ reply' = [reply EXCEPT ![t] =
                 FinalStatus(result[t], CopyStatus(body[t], room[t]))]
  /\ UNCHANGED <<vars, room, rejected>>

SyncNext ==
  \E t \in Threads :
    \/ \E a \in Arguments : Reject(t, a) \/ Accept(t, a)
    \/ Transfer(t) /\ UNCHANGED syncVars
    \/ FinishResponse(t)

SyncSpec == SyncInit /\ [][SyncNext]_allVars

SyncFairSpec ==
  /\ SyncSpec
  /\ \A t \in Threads :
       WF_allVars(\/ (TransferTimesOut(t) \/ PerformReturns(t)) /\ UNCHANGED syncVars
                  \/ FinishResponse(t))
------------------------------------------------------------------------------
Replies == Statuses \cup {"none", "InvalidArgument", "UnterminatedInputText",
             "UnknownHttpMethod", "MalformedHeaderBlock", "BufferTooSmall"}

(* Type invariant of the calls and of the script's variables. *)
SyncTypeOK ==
  /\ TypeOK
  /\ calling \in [Threads -> BOOLEAN]
  /\ room \in [Threads -> Nat]
  /\ reply \in [Threads -> Replies]
  /\ rejected \in [Threads -> BOOLEAN]
  /\ httpStatusCode \in [Threads -> {Untouched, 0, HttpCode}]
  /\ responseBodyLength \in [Threads -> Nat \cup {Untouched}]
  /\ responseBody \in [Threads -> Nat \cup {Untouched}]

Returned(t) == ~ calling[t] /\ reply[t] # "none"

(* The write-ordering rule: a call that passed its checks always writes the   *)
(* HTTP status and the body's exact length, even when the copy then fails; a   *)
(* call that failed one leaves all three variables of the script alone         *)
(* (FinishResponse and the early returns before it).                           *)
WriteOrdering ==
  \A t \in Threads :
    Returned(t) =>
      IF rejected[t]
      THEN {httpStatusCode[t], responseBodyLength[t], responseBody[t]} = {Untouched}
      ELSE httpStatusCode[t] = statusCode[t] /\ responseBodyLength[t] = body[t]

(* What a script that sees Ok may rely on: its buffer holds every byte the    *)
(* server sent, with the server's status code; what one that sees              *)
(* BufferTooSmall may rely on: the length it reads is the whole response's,    *)
(* so a buffer one larger would have taken it (CopyToBuffer, FinishResponse).  *)
OkHoldsWholeResponse ==
  \A t \in Threads :
    /\ Returned(t) /\ reply[t] = "Ok" =>
         responseBody[t] = offered[t] /\ httpStatusCode[t] = HttpCode
    /\ Returned(t) /\ reply[t] = "BufferTooSmall" =>
         /\ responseBodyLength[t] = offered[t] /\ httpStatusCode[t] = HttpCode
         /\ CopyStatus(offered[t], responseBodyLength[t] + 1) = "Ok"

(* The buffer never holds a torn text: it is the whole body of the response   *)
(* as received, or empty, and with its NUL it fits the size the script gave    *)
(* (CopyToBuffer).                                                             *)
BufferIsWholeOrEmpty ==
  \A t \in Threads :
    responseBody[t] # Untouched =>
      /\ responseBody[t] \in {0, responseBodyLength[t]}
      /\ responseBody[t] < room[t]

(* A blocking call always gives its thread back to CANoe, however the server   *)
(* behaves and whatever timeout the script asks for (Execute...Sync).          *)
SyncCallReturns == \A t \in Threads : calling[t] ~> ~ calling[t]

(* docs/capl-sync-surface.md: a transport-level error is reported with a       *)
(* status code of 0 and a body length of 0.                                    *)
TransportErrors == {"NetworkError", "Timeout", "TlsError",
                    "TransportInitFailed", "InvalidUrl", "ResponseTooLarge"}
FailureReportsNoBody ==
  \A t \in Threads :
    Returned(t) /\ reply[t] \in TransportErrors =>
      httpStatusCode[t] = 0 /\ responseBodyLength[t] = 0
==============================================================================

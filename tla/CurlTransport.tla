---------------------------- MODULE CurlTransport ----------------------------
(* CurlTransport::Perform (src/src/http/http-client.cpp): one transfer per     *)
(* thread, driven by the callbacks libcurl makes while curl_easy_perform       *)
(* runs.  A body is modelled by its size: WriteCallback only ever appends, so  *)
(* the size tells a whole body from a truncated one.  libcurl and the server   *)
(* are the environment: they deliver chunks, stall, fail or finish as they     *)
(* please, within the rules libcurl's callers rely on.                         *)
EXTENDS Integers

CONSTANTS
  Threads,          \* threads that call Perform
  Cancellable,      \* those that pass a cancel flag (the engine's workers)
  MaxBytesOptions,  \* values of RequestOptions::maxResponseBytes; 0 = default
  DefaultCap,       \* kDefaultMaxResponseBytes
  SizeModulus,      \* 2^width of std::size_t; a uint32_t cap is below it
  MaxChunk,         \* largest chunk libcurl hands to WriteCallback
  TimeoutOptions,   \* values of RequestOptions::totalTimeoutMs; 0 = default
  DefaultTimeout,   \* kDefaultTotalTimeoutMs
  LongMax,          \* LONG_MAX of the 32-bit long libcurl takes
  PageBound,        \* bound of the model: bytes a server sends at most
  OtherErrors       \* bound of the model: errors of libcurl's own that occur

ASSUME CancellableAssumption == Cancellable \subseteq Threads
ASSUME SizeAssumption ==
  /\ SizeModulus \in Nat /\ MaxChunk \in Nat /\ PageBound \in Nat
  /\ MaxChunk > 0 /\ MaxChunk < SizeModulus
  /\ DefaultCap \in 1 .. SizeModulus - 1
  /\ MaxBytesOptions \subseteq 0 .. SizeModulus - 1
ASSUME ErrorsAssumption ==
  OtherErrors \subseteq {"CURLE_RECV_ERROR", "CURLE_URL_MALFORMAT",
                        "CURLE_SSL_CONNECT_ERROR"}
ASSUME TimeoutAssumption ==
  /\ LongMax \in Nat \ {0}
  /\ DefaultTimeout \in 1 .. LongMax
  /\ TimeoutOptions \subseteq 0 .. 2 * LongMax + 1

VARIABLES
  curlInit,     \* "never", then for ever "ok" or "failed"
  phase,        \* of each thread's Perform: "idle", "transfer", "returned"
  cap,          \* WriteContext::capBytes
  timer,        \* CURLOPT_TIMEOUT_MS as libcurl holds it; 0 = none
  body,         \* response.body.size()
  statusCode,   \* response.statusCode
  capExceeded,  \* WriteContext::capExceeded
  code,         \* CURLcode curl_easy_perform is about to return, or "running"
  result,       \* Status Perform answered, "none" before it has
  cancelFlag,   \* *request.cancelFlag
  offered       \* history: bytes handed to WriteCallback in this transfer

vars == <<curlInit, phase, cap, timer, body, statusCode, capExceeded, code,
          result, cancelFlag, offered>>
response == <<body, statusCode>>

------------------------------------------------------------------------------
(* What the code decides without libcurl *)

HttpCode == 200   \* the status code of the server's response; 0 = no response

\* mutant: our own refusal of a chunk is taken for our own abort
BugMapCurlCode(c) ==
  CASE c = "CURLE_OK" -> "Ok"
    [] c \in {"CURLE_ABORTED_BY_CALLBACK", "CURLE_WRITE_ERROR"} -> "RequestCancelled"
    [] OTHER -> "NetworkError"
MapCurlCode(c) ==
  CASE c = "CURLE_OK" -> "Ok"
    [] c = "CURLE_OPERATION_TIMEDOUT" -> "Timeout"
    [] c = "CURLE_URL_MALFORMAT" -> "InvalidUrl"
    [] c = "CURLE_SSL_CONNECT_ERROR" -> "TlsError"
    [] c = "CURLE_ABORTED_BY_CALLBACK" -> "RequestCancelled"
    [] OTHER -> "NetworkError"

\* mutant: the sum wraps at the width of std::size_t
BugExceedsBySum(currentSize, incoming, capBytes) ==
  (currentSize + incoming) % SizeModulus > capBytes
WouldExceedResponseCap(currentSize, incoming, capBytes) ==
  incoming > capBytes \/ currentSize > (capBytes - incoming) % SizeModulus

\* mutant: the write error libcurl reports is the answer
BugMappedStatusOnly(exceeded, mappedStatus) == mappedStatus
ResolveTransferResult(exceeded, mappedStatus) ==
  IF exceeded THEN "ResponseTooLarge" ELSE mappedStatus

\* mutant: no flag is taken for a set one
BugCancelWithoutFlag(t) == t \in Cancellable => cancelFlag[t]
ShouldCancelTransfer(t) == t \in Cancellable /\ cancelFlag[t]

OrDefault(option, default) == IF option = 0 THEN default ELSE option

ClampToLong(milliseconds) ==
  IF milliseconds > LongMax THEN LongMax ELSE milliseconds

(* A uint32_t cast to long; libcurl refuses a negative time and keeps "none". *)
AsLong(n) == IF n > LongMax THEN n - 2 * (LongMax + 1) ELSE n
\* mutant: the value goes to libcurl unclamped
BugTimerUnclamped(option) ==
  LET ms == AsLong(OrDefault(option, DefaultTimeout)) IN IF ms < 0 THEN 0 ELSE ms
\* mutant: 0 goes to libcurl as it is
BugTimerUndefaulted(option) == ClampToLong(option)
TimerFor(option) ==
  LET ms == AsLong(ClampToLong(OrDefault(option, DefaultTimeout)))
  IN  IF ms < 0 THEN 0 ELSE ms

------------------------------------------------------------------------------
Init ==
  /\ curlInit = "never"
  /\ phase = [t \in Threads |-> "idle"]
  /\ cap = [t \in Threads |-> DefaultCap]
  /\ timer = [t \in Threads |-> DefaultTimeout]
  /\ body = [t \in Threads |-> 0]
  /\ statusCode = [t \in Threads |-> 0]
  /\ capExceeded = [t \in Threads |-> FALSE]
  /\ code = [t \in Threads |-> "running"]
  /\ result = [t \in Threads |-> "none"]
  /\ cancelFlag = [t \in Threads |-> FALSE]
  /\ offered = [t \in Threads |-> 0]

(* The caller hands over a fresh HttpResponse.  A worker's cancel flag may be  *)
(* set already: its request was discarded between the claim and this call.     *)
Fresh(t) ==
  /\ phase[t] # "transfer"
  /\ body' = [body EXCEPT ![t] = 0]
  /\ statusCode' = [statusCode EXCEPT ![t] = 0]
  /\ capExceeded' = [capExceeded EXCEPT ![t] = FALSE]
  /\ offered' = [offered EXCEPT ![t] = 0]
  /\ code' = [code EXCEPT ![t] = "running"]
  /\ \E flag \in IF t \in Cancellable THEN BOOLEAN ELSE {FALSE} :
       cancelFlag' = [cancelFlag EXCEPT ![t] = flag]

(* EnsureCurlInitialized: std::call_once, so the first caller's outcome is     *)
(* everyone's.                                                                 *)
EnsureCurlInitialized ==
  curlInit' \in IF curlInit = "never" THEN {"ok", "failed"} ELSE {curlInit}

(* Perform up to curl_easy_perform: libcurl takes the options. *)
Begin(t, maxBytes, timeout) ==
  /\ phase' = [phase EXCEPT ![t] = "transfer"]
  /\ Fresh(t)
  /\ EnsureCurlInitialized
  /\ curlInit' = "ok"
  /\ cap' = [cap EXCEPT ![t] = OrDefault(maxBytes, DefaultCap)]
  /\ timer' = [timer EXCEPT ![t] = TimerFor(timeout)]
  /\ result' = [result EXCEPT ![t] = "none"]

(* Perform fails first: curl_global_init or curl_easy_init failed, or an       *)
(* allocation threw and the catch-all answered.                                *)
BeginFails(t) ==
  /\ phase' = [phase EXCEPT ![t] = "returned"]
  /\ Fresh(t)
  /\ EnsureCurlInitialized
  /\ \E s \in IF curlInit' = "ok" THEN {"TransportInitFailed", "NetworkError"}
                                   ELSE {"TransportInitFailed"} :
       result' = [result EXCEPT ![t] = s]
  /\ UNCHANGED <<cap, timer>>

------------------------------------------------------------------------------
(* Inside curl_easy_perform *)

Running(t) == phase[t] = "transfer" /\ code[t] = "running"

Ends(t, c) ==
  /\ Running(t)
  /\ code' = [code EXCEPT ![t] = c]

UnchangedByServer == UNCHANGED <<curlInit, phase, cap, timer, statusCode,
                                  result, cancelFlag>>

(* WriteCallback appends the chunk and reports all of it consumed. *)
WriteCallback(t, incoming) ==
  /\ Running(t)
  /\ ~ WouldExceedResponseCap(body[t], incoming, cap[t])
  /\ body' = [body EXCEPT ![t] = @ + incoming]
  /\ offered' = [offered EXCEPT ![t] = @ + incoming]
  /\ UnchangedByServer /\ UNCHANGED <<capExceeded, code>>

(* It refuses the chunk: returning 0 makes libcurl end the transfer. *)
WriteRefused(t, incoming) ==
  /\ Ends(t, "CURLE_WRITE_ERROR")
  /\ WouldExceedResponseCap(body[t], incoming, cap[t])
  /\ capExceeded' = [capExceeded EXCEPT ![t] = TRUE]
  /\ offered' = [offered EXCEPT ![t] = @ + incoming]
  /\ UnchangedByServer /\ UNCHANGED body

\* mutant: the callback swallows the exception and reports the chunk consumed
BugWriteThrowsConsumed(t, incoming) ==
  /\ Running(t)
  /\ ~ WouldExceedResponseCap(body[t], incoming, cap[t])
  /\ offered' = [offered EXCEPT ![t] = @ + incoming]
  /\ UnchangedByServer /\ UNCHANGED <<body, capExceeded, code>>
(* Appending throws std::bad_alloc: also 0, and the cap is not to blame. *)
WriteThrows(t, incoming) ==
  /\ Ends(t, "CURLE_WRITE_ERROR")
  /\ ~ WouldExceedResponseCap(body[t], incoming, cap[t])
  /\ offered' = [offered EXCEPT ![t] = @ + incoming]
  /\ UnchangedByServer /\ UNCHANGED <<body, capExceeded>>

Deliver(t) ==
  \E incoming \in 1 .. MaxChunk :
    /\ offered[t] + incoming =< PageBound
    /\ \/ WriteCallback(t, incoming)
       \/ WriteRefused(t, incoming)
       \/ WriteThrows(t, incoming)

\* mutant: CURLOPT_NOPROGRESS left at its default, so the callback never runs
BugNoProgress(t) == FALSE
(* XferInfoCallback: a nonzero answer makes libcurl abort. *)
XferInfoCallback(t) ==
  /\ ShouldCancelTransfer(t)
  /\ Ends(t, "CURLE_ABORTED_BY_CALLBACK")
  /\ UnchangedByServer /\ UNCHANGED <<body, capExceeded, offered>>

(* The total timeout strikes, whatever the server is doing. *)
TransferTimesOut(t) ==
  /\ timer[t] > 0
  /\ Ends(t, "CURLE_OPERATION_TIMEDOUT")
  /\ UnchangedByServer /\ UNCHANGED <<body, capExceeded, offered>>

(* The server completes its response, or the transfer breaks; URL and TLS      *)
(* errors come before any body byte.                                           *)
TransferEnds(t) ==
  /\ \E c \in {"CURLE_OK"} \cup OtherErrors :
       /\ c \in {"CURLE_URL_MALFORMAT", "CURLE_SSL_CONNECT_ERROR"}
            => offered[t] = 0
       /\ Ends(t, c)
  /\ UnchangedByServer /\ UNCHANGED <<body, capExceeded, offered>>

(* curl_easy_perform returns, and Perform with it. *)
PerformReturns(t) ==
  LET status == ResolveTransferResult(capExceeded[t], MapCurlCode(code[t]))
  IN  /\ phase[t] = "transfer" /\ code[t] # "running"
      /\ phase' = [phase EXCEPT ![t] = "returned"]
      /\ result' = [result EXCEPT ![t] = status]
      /\ statusCode' = [statusCode EXCEPT ![t] =
                          IF status = "Ok" THEN HttpCode ELSE @]
      /\ UNCHANGED <<curlInit, cap, timer, body, capExceeded, code, cancelFlag,
                     offered>>

(* Other threads discard requests that workers are performing, DiscardAll all  *)
(* of them at once.                                                            *)
Cancel(S) ==
  /\ S # {}
  /\ S \subseteq {t \in Cancellable : phase[t] # "idle" /\ ~ cancelFlag[t]}
  /\ cancelFlag' = [t \in Threads |-> t \in S \/ cancelFlag[t]]
  /\ UNCHANGED <<curlInit, phase, cap, timer, response, capExceeded, code,
                 result, offered>>

(* The caller has taken the response; Perform's locals and the caller's own    *)
(* are gone, and the flag is no longer about this thread's transfer.           *)
Forget(t) ==
  /\ phase[t] = "returned"
  /\ phase' = [phase EXCEPT ![t] = "idle"]
  /\ cap' = [cap EXCEPT ![t] = DefaultCap]
  /\ timer' = [timer EXCEPT ![t] = DefaultTimeout]
  /\ body' = [body EXCEPT ![t] = 0]
  /\ statusCode' = [statusCode EXCEPT ![t] = 0]
  /\ capExceeded' = [capExceeded EXCEPT ![t] = FALSE]
  /\ code' = [code EXCEPT ![t] = "running"]
  /\ result' = [result EXCEPT ![t] = "none"]
  /\ cancelFlag' = [cancelFlag EXCEPT ![t] = FALSE]
  /\ offered' = [offered EXCEPT ![t] = 0]
  /\ UNCHANGED curlInit

Transfer(t) ==
  \/ Deliver(t) \/ XferInfoCallback(t) \/ TransferTimesOut(t)
  \/ TransferEnds(t) \/ PerformReturns(t)

Next ==
  \/ \E t \in Threads :
       \/ \E maxBytes \in MaxBytesOptions, timeout \in TimeoutOptions :
            Begin(t, maxBytes, timeout)
       \/ BeginFails(t)
       \/ Transfer(t)
       \/ Forget(t)
  \/ \E S \in SUBSET Cancellable : Cancel(S)

Spec == Init /\ [][Next]_vars

(* The thread runs its callbacks; the server owes nothing, and libcurl's       *)
(* timer is left out, so only the cancel hook can end a stalled transfer.      *)
CancelFairSpec ==
  Spec /\ \A t \in Threads : WF_vars(XferInfoCallback(t) \/ PerformReturns(t))

------------------------------------------------------------------------------
Statuses == {"Ok", "Timeout", "InvalidUrl", "TlsError", "RequestCancelled",
             "NetworkError", "ResponseTooLarge", "TransportInitFailed"}
CurlCodes == {"CURLE_OK", "CURLE_OPERATION_TIMEDOUT", "CURLE_URL_MALFORMAT",
              "CURLE_SSL_CONNECT_ERROR", "CURLE_ABORTED_BY_CALLBACK",
              "CURLE_WRITE_ERROR", "CURLE_RECV_ERROR"}

(* Type invariant of the transfers; a size fits std::size_t, and libcurl       *)
(* always holds a time limit it accepted.                                      *)
TypeOK ==
  /\ curlInit \in {"never", "ok", "failed"}
  /\ phase \in [Threads -> {"idle", "transfer", "returned"}]
  /\ cap \in [Threads -> 1 .. SizeModulus - 1]
  /\ timer \in [Threads -> 1 .. LongMax]
  /\ body \in [Threads -> 0 .. SizeModulus - 1]
  /\ statusCode \in [Threads -> {0, HttpCode}]
  /\ capExceeded \in [Threads -> BOOLEAN]
  /\ code \in [Threads -> CurlCodes \cup {"running"}]
  /\ result \in [Threads -> Statuses \cup {"none"}]
  /\ cancelFlag \in [Threads -> BOOLEAN]
  /\ offered \in [Threads -> Nat]

(* However the server cuts its response into chunks, the body the process      *)
(* holds never passes the cap of the request, at any width of std::size_t      *)
(* (WriteCallback, WouldExceedResponseCap).                                    *)
BodyWithinCap == \A t \in Threads : body[t] =< cap[t]

(* A transfer is answered ResponseTooLarge exactly when the server offered     *)
(* more than the cap: a body of exactly the cap is accepted, and a breach is   *)
(* never reported as the generic write error libcurl makes of it               *)
(* (ResolveTransferResult).                                                    *)
Ended(t) == phase[t] = "returned" /\ code[t] # "running"
TooLargeExactly ==
  \A t \in Threads :
    Ended(t) => (result[t] = "ResponseTooLarge" <=> offered[t] > cap[t])

(* Ok and a status code are reported together, and only for a response whose   *)
(* every byte is in the body: no lost, refused or unallocatable chunk can be   *)
(* answered as a success (WriteCallback, Perform).                             *)
OkIsWhole ==
  \A t \in Threads :
    phase[t] = "returned" =>
      /\ result[t] = "Ok" <=> statusCode[t] = HttpCode
      /\ result[t] = "Ok" => code[t] = "CURLE_OK" /\ body[t] = offered[t]

(* RequestCancelled is the answer only to a request that someone discarded:    *)
(* without a flag, as for every synchronous caller, it is never seen           *)
(* (ShouldCancelTransfer).                                                     *)
CancelledOnRequest ==
  \A t \in Threads : result[t] = "RequestCancelled" => t \in Cancellable /\ cancelFlag[t]

(* A discarded request comes back from Perform on the cancel hook alone, even  *)
(* if the server stalls and the timer never strikes (XferInfoCallback).        *)
CancelEnds ==
  \A t \in Threads :
    cancelFlag[t] /\ phase[t] = "transfer" ~> phase[t] = "returned"
==============================================================================

----------------------------- MODULE RequestTexts -----------------------------
(* The texts a script passes to a request export and gets back in its buffer:  *)
(* the checks of src/src/http/sync-text-api.cpp and async-text-api.cpp, in      *)
(* their order, and CopyToBuffer (src/src/core/buffer-copy.cpp).               *)
EXTENDS Integers, Sequences

(* A text argument is what the checks tell apart: no usable pointer or size,  *)
(* no NUL within the stated size, or a text, possibly empty or of bad grammar. *)
Unusable == {"null", "unterminated"}
Methods == {"GET", "POST"}          \* one that forbids a body and one that does not
Exports == {"request", "body", "noBody"}   \* the general call, and the verbs
Arguments == [export : Exports,
              method : Unusable \cup Methods \cup {"nonsense"},
              url : Unusable \cup {"empty", "url"},
              headers : Unusable \cup {"empty", "malformed", "headers"},
              body : Unusable \cup {"empty", "body"}]

BoundedText(text) ==
  CASE text = "null" -> "InvalidArgument"
    [] text = "unterminated" -> "UnterminatedInputText"
    [] OTHER -> "Ok"
ParseMethodText(text) == IF text \in Methods THEN "Ok" ELSE "UnknownHttpMethod"
ParseHeaderBlock(text) ==
  IF text = "malformed" THEN "MalformedHeaderBlock" ELSE "Ok"
MethodForbidsBody(method) == method = "GET"
RequestCheck(a) ==
  IF MethodForbidsBody(a.method) /\ a.body # "empty" THEN "InvalidArgument" ELSE "Ok"
UrlCheck(a) == IF a.url = "empty" THEN "InvalidArgument" ELSE "Ok"

(* The checks of ExecuteRequestSync, and of the verbs with and without a body, *)
(* then those of Request and HttpClient::Perform; the first that fails answers. *)
RequestChecks(a) == << BoundedText(a.method), BoundedText(a.url),
                       BoundedText(a.headers), BoundedText(a.body),
                       ParseMethodText(a.method), ParseHeaderBlock(a.headers),
                       RequestCheck(a), UrlCheck(a) >>
BodyVerbChecks(a) == << BoundedText(a.url), BoundedText(a.headers), BoundedText(a.body),
                        ParseHeaderBlock(a.headers), UrlCheck(a) >>
NoBodyVerbChecks(a) == << BoundedText(a.url), BoundedText(a.headers),
                          ParseHeaderBlock(a.headers), UrlCheck(a) >>
Checks(a) == CASE a.export = "request" -> RequestChecks(a)
               [] a.export = "body" -> BodyVerbChecks(a)
               [] a.export = "noBody" -> NoBodyVerbChecks(a)

(* The same for the Dispatch...Async calls, which look at the url themselves   *)
(* and, in DispatchRequestAsync, before they look at the method's rule.        *)
AsyncRequestChecks(a) == << BoundedText(a.method), BoundedText(a.url),
                            BoundedText(a.headers), BoundedText(a.body),
                            ParseMethodText(a.method), ParseHeaderBlock(a.headers),
                            UrlCheck(a), RequestCheck(a) >>
AsyncChecks(a) == CASE a.export = "request" -> AsyncRequestChecks(a)
                    [] a.export = "body" -> BodyVerbChecks(a)
                    [] a.export = "noBody" -> NoBodyVerbChecks(a)

Passes(checks) == \A i \in DOMAIN checks : checks[i] = "Ok"
IsFirstFailure(checks, i) ==
  checks[i] # "Ok" /\ \A j \in 1 .. i - 1 : checks[j] = "Ok"

------------------------------------------------------------------------------
Untouched == -1   \* of a buffer the call has not written to

(* CopyToBuffer: the text with its NUL, or the empty text, or nothing at all. *)
CopyStatus(size, bufferSize) ==
  CASE bufferSize = 0 -> "InvalidArgument"
    [] bufferSize > 0 /\ size >= bufferSize -> "BufferTooSmall"
    [] OTHER -> "Ok"
\* mutant: a text as long as the buffer is let in, its NUL beyond the end
BugCopyText(size, bufferSize) ==
  CASE bufferSize = 0 -> Untouched
    [] bufferSize > 0 /\ size > bufferSize -> 0
    [] OTHER -> size
CopyText(size, bufferSize) ==
  CASE bufferSize = 0 -> Untouched
    [] bufferSize > 0 /\ size >= bufferSize -> 0
    [] OTHER -> size
==============================================================================

------------------------------- MODULE Fetch -------------------------------
(***************************************************************************)
(* One call of fetch(): the binding (web/fetch.hpp), the client's redirect *)
(* loop (fetch/client.hpp), the chain of middleware, and the exchange of a *)
(* hop as the Beast transport and the SOCKS5 handshake drive it, one       *)
(* asynchronous operation after another. The body of the response goes on  *)
(* in Decoding.                                                            *)
(*                                                                         *)
(* All of it runs on the thread of the io_context; a coroutine is resumed  *)
(* through that context's queue, so that script runs, and may abort,       *)
(* between the end of an operation and what the coroutine makes of it.     *)
(***************************************************************************)
EXTENDS Decoding, SequencesExt

CONSTANTS Urls,
          Scheme,        \* of each URL: "http", "https", "data" or "other"
          Blocked,       \* URLs whose port is_blocked_port() lists
          Routed,        \* URLs the Route of a Socks5ProxyMiddleware sends to its proxy
          Auth,          \* the proxy has a user and a password
          Requests,      \* what the script may ask for
          MaxRedirects   \* Options::max_redirects

Methods   == {"GET", "HEAD", "POST", "PUT"}
Redirects == {"follow", "error", "manual"}
Statuses  == {200, 204, 301, 303, 307}

\* body: has content; auto: neither accept-encoding nor range is among the headers.
RequestType ==
  [method : Methods, url : Urls, body : BOOLEAN, redirect : Redirects,
   integrity : Integrities, auto : BOOLEAN]

ASSUME FetchAssumption ==
  /\ Scheme \in [Urls -> {"http", "https", "data", "other"}]
  /\ Blocked \subseteq Urls /\ Routed \subseteq Urls /\ Auth \in BOOLEAN
  /\ MaxRedirects \in Nat
  /\ Requests \subseteq RequestType
  /\ \A r \in Requests : r.body => r.method \notin {"GET", "HEAD"}

VARIABLES
  req,        \* the request of the call
  promise,    \* "none", "pending", "response", "TypeError", "AbortError"
  aborted,    \* AbortSignalImpl::aborted, and the state of its stop_source
  draining,   \* the call is reading the request's body
  hop, method, url, body,   \* locals of Client::fetch
  step, op,   \* the operation of the exchange, and what has become of it
  sock,       \* a socket is open
  sent        \* the requests written so far

call  == <<req, draining>>
local == <<hop, method, url, body>>
fvars == <<req, promise, aborted, draining, hop, method, url, body, step, op, sock, sent>>
vars  == <<fvars, dvars>>

Message == [method : Methods, url : Urls, body : BOOLEAN]

\* A location: a URL, none, or one that resolve_url() cannot parse.
NoUrl  == "no location"
BadUrl == "bad location"

Responses == [status : Statuses, location : Urls \cup {NoUrl, BadUrl}, coded : BOOLEAN]

FInit ==
  /\ req \in Requests /\ promise = "none" /\ aborted = FALSE /\ draining = FALSE
  /\ hop = 0 /\ method = req.method /\ url = req.url /\ body = req.body
  /\ step = 0 /\ op = "none" /\ sock = FALSE /\ sent = <<>>
  /\ DInit

-----------------------------------------------------------------------------
(* The exchange of a hop.                                                  *)

\* socks5_connect(): the operations between the connection to the proxy and the tunnel.
Socks == <<"greeting", "choice">> \o (IF Auth THEN <<"userpass", "verdict">> ELSE <<>>)
         \o <<"command", "reply", "address">>

\* connect_tcp(), request(), request_via_socks5(): the operations awaited for a URL.
Path(u) ==
  <<"resolve", "connect">> \o (IF u \in Routed THEN Socks ELSE <<>>)
  \o (IF Scheme[u] = "https" THEN <<"handshake">> ELSE <<>>) \o <<"write", "head">>

At == Path(url)[step]

\* sock->cancel() reaches what waits on the socket. Resolving does not; an operation of
\* several reads or writes has none outstanding from the end of one to the next.
OnSocket == At # "resolve"
Composed == At \notin {"resolve", "connect"}

Settle(p) == promise' = p /\ op' = "none" /\ step' = 0

\* Client::fetch(): the check that every hop starts with, and the first operation.
StartHop(u) ==
  IF u \in Blocked \/ Scheme[u] \notin {"http", "https"}
  THEN Settle("TypeError")
  ELSE promise' = "pending" /\ op' = "waiting" /\ step' = 1

\* Client::fetch(): a data URL is answered from the URL, another one by the network. A data
\* URL that cannot be parsed counts as one of another scheme.
Begin ==
  /\ draining' = FALSE
  /\ IF Scheme[req.url] = "data"
     THEN /\ Settle("response")
          /\ IF method = "HEAD" THEN UNCHANGED dvars ELSE Open(FALSE, "none")
     ELSE StartHop(req.url) /\ UNCHANGED dvars
  /\ UNCHANGED <<req, aborted, local, sock, sent>>

\* fetch(): the signal is looked at once; then the body of the request is read.
Call ==
  /\ promise = "none"
  /\ IF aborted
     THEN Settle("AbortError") /\ UNCHANGED <<call, aborted, local, sock, sent, dvars>>
     ELSE IF req.body
     THEN /\ promise' = "pending" /\ draining' = TRUE
          /\ UNCHANGED <<req, aborted, local, step, op, sock, sent, dvars>>
     ELSE Begin

Drained == promise = "pending" /\ draining /\ Begin

DrainFails ==
  /\ promise = "pending" /\ draining /\ draining' = FALSE
  /\ Settle("TypeError")
  /\ UNCHANGED <<req, aborted, local, sock, sent, dvars>>

\* The peer, the proxy or the resolver ends the operation: its completion is queued.
Complete ==
  /\ op = "waiting" /\ op' \in {"ok", "error"}
  /\ UNCHANGED <<req, promise, aborted, draining, local, step, sock, sent, dvars>>

\* AbortSignalImpl::abort(): request_stop() runs the callback of the exchange, if any.
Abort ==
  /\ ~aborted /\ aborted' = TRUE
  /\ IF op = "waiting" /\ OnSocket
     THEN op' = "aborted" \/ (Composed /\ op' = "waiting")
     ELSE op' = op
  /\ UNCHANGED <<req, promise, draining, local, step, sock, sent, dvars>>

\* Fault: a cancelled operation is one that failed.
MutantFail ==
  /\ op \in {"error", "aborted"}
  /\ Settle("TypeError") /\ sock' = FALSE
  /\ UNCHANGED <<call, aborted, local, sent, dvars>>

\* An operation failed: the exception becomes a TypeError, a cancelled operation stops the
\* whole chain of tasks; the socket goes with their frames.
Fail ==
  /\ op \in {"error", "aborted"}
  /\ Settle(IF op = "error" THEN "TypeError" ELSE "AbortError") /\ sock' = FALSE
  /\ UNCHANGED <<call, aborted, local, sent, dvars>>

\* An operation succeeded, and the next one starts.
Advance ==
  /\ op = "ok" /\ step < Len(Path(url))
  /\ step' = step + 1 /\ op' = "waiting"
  /\ sock' = (sock \/ At = "connect")
  /\ sent' = IF Path(url)[step + 1] = "write"
             THEN Append(sent, [method |-> method, url |-> url, body |-> body]) ELSE sent
  /\ UNCHANGED <<call, promise, aborted, local, dvars>>

-----------------------------------------------------------------------------
(* The response of a hop.                                                  *)

is_redirect_status(s) == s \in {301, 303, 307}

\* 303 turns all but GET and HEAD into GET, 301 and 302 turn POST into it.
status_requires_get(s, m) ==
  \/ s = 303 /\ m \notin {"GET", "HEAD"}
  \/ s = 301 /\ m = "POST"

HasBody(r) == method # "HEAD" /\ r.status # 204

Mode(r) == IF is_redirect_status(r.status) THEN req.redirect ELSE "none"

Follows(r) == Mode(r) = "follow" /\ r.location # NoUrl

Answered(r) == op = "ok" /\ step = Len(Path(url)) /\ r \in Responses

\* A redirect that is an error: its mode, its location, or one too many.
RedirectError(r) ==
  /\ Answered(r)
  /\ \/ Mode(r) = "error"
     \/ Follows(r) /\ (hop = MaxRedirects \/ r.location = BadUrl)
  /\ Settle("TypeError") /\ sock' = FALSE
  /\ UNCHANGED <<call, aborted, local, sent, dvars>>

\* Fault: the body goes with the request whatever its method.
MutantFollow(r) ==
  /\ Answered(r) /\ Follows(r) /\ hop < MaxRedirects /\ r.location \in Urls
  /\ hop' = hop + 1 /\ url' = r.location
  /\ method' = IF status_requires_get(r.status, method) THEN "GET" ELSE method
  /\ body' = body
  /\ StartHop(url') /\ sock' = FALSE
  /\ UNCHANGED <<call, aborted, sent, dvars>>

\* The next hop goes through the whole chain again, with what the status leaves of the
\* request.
Follow(r) ==
  /\ Answered(r) /\ Follows(r) /\ hop < MaxRedirects /\ r.location \in Urls
  /\ hop' = hop + 1 /\ url' = r.location
  /\ method' = IF status_requires_get(r.status, method) THEN "GET" ELSE method
  /\ body' = (body /\ ~status_requires_get(r.status, method))
  /\ StartHop(url') /\ sock' = FALSE
  /\ UNCHANGED <<call, aborted, sent, dvars>>

\* redirect: "manual" makes an opaque response of it.
Opaque(r) ==
  /\ Answered(r) /\ Mode(r) = "manual"
  /\ Settle("response") /\ sock' = FALSE
  /\ UNCHANGED <<call, aborted, local, sent, dvars>>

Final(r) == Answered(r) /\ (Mode(r) = "none" \/ (Mode(r) = "follow" /\ r.location = NoUrl))

\* Fault: the stream of a response without a body outlives it.
MutantNullBody(r) ==
  /\ Final(r) /\ ~HasBody(r)
  /\ Settle(IF req.integrity = "none" THEN "response" ELSE "TypeError")
  /\ UNCHANGED <<call, aborted, local, sock, sent, dvars>>

\* check_integrity(): a response without a body has no digest to compare.
NullBody(r) ==
  /\ Final(r) /\ ~HasBody(r)
  /\ Settle(IF req.integrity = "none" THEN "response" ELSE "TypeError") /\ sock' = FALSE
  /\ UNCHANGED <<call, aborted, local, sent, dvars>>

\* The body keeps the socket; AcceptEncodingMiddleware and the integrity check wrap it.
WithBody(r) ==
  /\ Final(r) /\ HasBody(r)
  /\ Settle("response") /\ Open(r.coded /\ req.auto, req.integrity)
  /\ UNCHANGED <<call, aborted, local, sock, sent>>

Answer == \E r \in Responses :
  RedirectError(r) \/ Follow(r) \/ Opaque(r) \/ NullBody(r) \/ WithBody(r)

Body == DNext /\ UNCHANGED fvars

FNext == \/ Call \/ Drained \/ DrainFails \/ Complete \/ Abort \/ Fail \/ Advance
         \/ Answer \/ Body

Spec == FInit /\ [][FNext]_vars

\* The thread of the io_context runs what is queued, and every operation ends: the client
\* has no timeout of its own, so the second is asked of the peer.
FairSpec == Spec /\ WF_vars(Call \/ Fail \/ Advance \/ Answer) /\ WF_vars(Complete)

-----------------------------------------------------------------------------
TypeOK ==
  /\ req \in RequestType /\ promise \in {"none", "pending", "response", "TypeError", "AbortError"}
  /\ aborted \in BOOLEAN /\ draining \in BOOLEAN
  /\ hop \in 0..MaxRedirects /\ method \in Methods /\ url \in Urls /\ body \in BOOLEAN
  /\ step \in Nat /\ op \in {"none", "waiting", "ok", "error", "aborted"}
  /\ (op # "none" => promise = "pending" /\ step \in 1..Len(Path(url)))
  /\ sock \in BOOLEAN /\ sent \in Seq(Message)
  /\ DTypeOK

\* Over a chain of redirects (Client::fetch): no request goes to a blocked port, none with
\* GET or HEAD carries a body, the body is dropped exactly where POST or PUT becomes GET,
\* the method changes to GET only, and the limit holds.
RedirectsFaithful ==
  /\ Len(sent) <= MaxRedirects + 1
  /\ \A i \in DOMAIN sent :
       /\ sent[i].url \notin Blocked
       /\ sent[i].body => sent[i].method \notin {"GET", "HEAD"}
       /\ i > 1 => \/ sent[i].method = sent[i-1].method /\ sent[i].body = sent[i-1].body
                   \/ sent[i].method = "GET" /\ sent[i-1].method \in {"POST", "PUT"}

\* No socket is left behind: one is open only while an exchange is under way or the body
\* of a response from the network may be read.
SocketOwned ==
  sock => \/ promise = "pending" /\ op # "none"
          \/ promise = "response" /\ reading # "none"

\* The call's state is sound whatever hop, answer or abort comes next: every operation in
\* flight belongs to a pending promise, and every socket to an exchange or a live body.
StateSound == TypeOK /\ SocketOwned

\* An abort that cancelled an operation ends the call: nothing more is sent, and the
\* promise is rejected with an AbortError, as no other call's is.
AbortEndsCall ==
  [][ /\ op = "aborted" => sent' = sent /\ promise' \in {"pending", "AbortError"}
      /\ promise' = "AbortError" => aborted' ]_vars

\* An exchange ends: the chain of redirects is bounded, and each way an operation can end
\* leads on or settles the promise.
CallSettles == op # "none" ~> promise # "pending"

\* A call ends, and as it was told to: an abort of the operation in flight with AbortError,
\* any other end with a response or a TypeError.
CallEnds == AbortEndsCall /\ CallSettles

=============================================================================

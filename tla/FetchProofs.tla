---------------------------- MODULE FetchProofs ----------------------------
(***************************************************************************)
(* The chain of redirects of a call, for any URLs, proxy, limit and        *)
(* request. RedirectsFaithful speaks of the requests that were sent; it    *)
(* follows from what the locals of Client::fetch are between two of them:  *)
(* a hop under way is to a URL that may be asked, has written its request  *)
(* once and only in the step "write", and otherwise holds the method and   *)
(* the body that the status of the hop before left. Then the body of the   *)
(* response: what the decoder, the digest and the limit make of it, for    *)
(* any decoder, blocks and limit; and last the sockets.                    *)
(***************************************************************************)
EXTENDS Fetch, SequenceTheorems, WellFoundedInduction, TLAPS

\* What the status of a redirect may make of the method m and the body b.
Continues(m, b, n, c) == (n = m /\ c = b) \/ (n = "GET" /\ m \in {"POST", "PUT"})

\* The type of the locals of Client::fetch and of what a call has sent.
ChainTypeOK ==
  /\ req \in RequestType
  /\ hop \in 0..MaxRedirects /\ method \in Methods /\ url \in Urls /\ body \in BOOLEAN
  /\ step \in Nat /\ op \in {"none", "waiting", "ok", "error", "aborted"}
  /\ op # "none" => step \in 1..Len(Path(url))
  /\ sent \in Seq(Message)

Written == op # "none" /\ step >= Len(Path(url)) - 1

\* A hop under way: the request it sends, or has sent, fits the one before.
HopFaithful ==
  /\ body => method \notin {"GET", "HEAD"}
  /\ op # "none" => url \notin Blocked
  /\ op # "none" => Len(sent) = IF Written THEN hop + 1 ELSE hop
  /\ op # "none" /\ Written => sent[Len(sent)].method = method /\ sent[Len(sent)].body = body
  /\ op # "none" /\ ~Written /\ sent # <<>> =>
       Continues(sent[Len(sent)].method, sent[Len(sent)].body, method, body)

\* Before the first hop nothing has been sent.
NotBegun == promise = "none" \/ draining => sent = <<>> /\ hop = 0 /\ op = "none" /\ url = req.url

ChainInv == ChainTypeOK /\ HopFaithful /\ NotBegun /\ RedirectsFaithful

\* The steps of SOCKS5 are some of the exchange's, none of them "write".
Others == {"resolve", "connect", "greeting", "choice", "userpass", "verdict", "command", "reply",
           "address", "handshake"}

\* An exchange writes its request in the last step but one, and in no other.
LEMMA PathWrites ==
  ASSUME NEW u \in Urls
  PROVE  /\ Path(u) \in Seq(Others \cup {"write", "head"}) /\ Len(Path(u)) >= 4
         /\ \A i \in 1..Len(Path(u)) : Path(u)[i] = "write" <=> i = Len(Path(u)) - 1
<1> DEFINE a == <<"resolve", "connect">>
           s == IF u \in Routed THEN Socks ELSE <<>>
           h == IF Scheme[u] = "https" THEN <<"handshake">> ELSE <<>>
           t == <<"write", "head">>
           All == Others \cup {"write", "head"}
           ash == (a \o s) \o h
<1>1. Socks \in Seq(Others)
  <2> DEFINE x == <<"greeting", "choice">>
             y == IF Auth THEN <<"userpass", "verdict">> ELSE <<>>
             z == <<"command", "reply", "address">>
  <2>1. x \in Seq(Others) /\ z \in Seq(Others)
    BY DEF Others
  <2>2. y \in Seq(Others)
    <3>1. <<"userpass", "verdict">> \in Seq(Others) /\ <<>> \in Seq(Others)
      BY DEF Others
    <3>2. QED BY <3>1
  <2>3. Socks = (x \o y) \o z
    BY DEF Socks
  <2> HIDE DEF x, y, z
  <2>4. x \o y \in Seq(Others)
    BY <2>1, <2>2, ConcatProperties
  <2>5. QED BY <2>1, <2>3, <2>4, ConcatProperties
<1>2. a \in Seq(Others) /\ Len(a) = 2
  BY DEF Others
<1>3. s \in Seq(Others) /\ h \in Seq(Others)
  <2>1. <<"handshake">> \in Seq(Others) /\ <<>> \in Seq(Others)
    BY DEF Others
  <2>2. QED BY <1>1, <2>1
<1>4. t \in Seq(All) /\ Len(t) = 2 /\ t[1] = "write" /\ t[2] = "head"
  BY DEF Others
<1>5. Path(u) = ash \o t
  BY DEF Path
<1> HIDE DEF a, s, h, t
<1>6. a \o s \in Seq(Others) /\ Len(a \o s) = Len(a) + Len(s)
  BY <1>2, <1>3, ConcatProperties
<1>7. ash \in Seq(Others) /\ Len(ash) = Len(a \o s) + Len(h)
  BY <1>3, <1>6, ConcatProperties
<1>8. Len(ash) \in Nat /\ Len(ash) >= 2
  BY <1>2, <1>3, <1>6, <1>7
<1> HIDE DEF ash
<1>9. ash \in Seq(All)
  BY <1>7
<1> HIDE DEF All
<1>10. /\ ash \o t \in Seq(All) /\ Len(ash \o t) = Len(ash) + 2
       /\ \A i \in 1..Len(ash) + 2 : (ash \o t)[i] = IF i <= Len(ash) THEN ash[i] ELSE t[i - Len(ash)]
  <2>1. Len(t) = 2 /\ t \in Seq(All)
    BY <1>4
  <2>2. /\ ash \o t \in Seq(All) /\ Len(ash \o t) = Len(ash) + Len(t)
        /\ \A i \in 1..Len(ash) + Len(t) :
             (ash \o t)[i] = IF i <= Len(ash) THEN ash[i] ELSE t[i - Len(ash)]
    BY <1>9, <2>1, ConcatProperties
  <2>3. QED BY <2>1, <2>2
<1>11. \A i \in 1..Len(ash) : ash[i] \in Others
  BY <1>7
<1>12. "write" \notin Others
  BY DEF Others
<1>13. ASSUME NEW i \in 1..Len(ash) + 2
       PROVE  (ash \o t)[i] = "write" <=> i = Len(ash) + 1
  <2>1. CASE i <= Len(ash)
    BY <1>8, <1>10, <1>11, <1>12, <2>1
  <2>2. CASE i = Len(ash) + 1
    BY <1>4, <1>8, <1>10, <2>2
  <2>3. CASE i = Len(ash) + 2
    BY <1>4, <1>8, <1>10, <2>3
  <2>4. i <= Len(ash) \/ i = Len(ash) + 1 \/ i = Len(ash) + 2
    BY <1>8, <1>13
  <2>5. QED BY <2>1, <2>2, <2>3, <2>4
<1>14. QED BY <1>5, <1>8, <1>10, <1>13 DEF All

\* One more request, after the last one.
LEMMA SentAppend ==
  ASSUME sent \in Seq(Message), NEW m \in Message, sent' = Append(sent, m)
  PROVE  /\ sent' \in Seq(Message) /\ Len(sent') = Len(sent) + 1
         /\ \A i \in 1..Len(sent) : sent'[i] = sent[i]
         /\ sent'[Len(sent) + 1] = m
BY AppendProperties

\* A new call satisfies the invariant.
LEMMA ChainInit == FInit => ChainInv
BY FetchAssumption
DEF FInit, ChainInv, ChainTypeOK, HopFaithful, NotBegun, RedirectsFaithful, RequestType, Continues

\* A hop that ends settles the promise, whatever with.
LEMMA ChainEnds ==
  ASSUME ChainInv, UNCHANGED <<call, local, sent>>, NEW p \in {"response", "TypeError", "AbortError"},
         Settle(p), ~draining
  PROVE  ChainInv'
BY FetchAssumption
DEF ChainInv, ChainTypeOK, HopFaithful, NotBegun, RedirectsFaithful, Settle, Written, call, local

\* Every step keeps it.
LEMMA ChainStep == ChainInv /\ [FNext]_vars => ChainInv'
<1> SUFFICES ASSUME ChainInv, [FNext]_vars PROVE ChainInv'
  OBVIOUS
<1> USE FetchAssumption DEF ChainInv
<1>1. ASSUME promise = "none" \/ draining, Begin PROVE ChainInv'
  <2>1. /\ sent = <<>> /\ hop = 0 /\ url = req.url /\ UNCHANGED <<req, aborted, local, sent>> /\ ~draining'
    BY <1>1 DEF NotBegun, Begin
  <2>2. Len(Path(url)) >= 4
    BY PathWrites DEF ChainTypeOK
  <2>3. CASE Scheme[req.url] = "data"
    BY <1>1, <2>1, <2>3
    DEF Begin, Settle, ChainTypeOK, HopFaithful, NotBegun, RedirectsFaithful, Written, local
  <2>4. CASE Scheme[req.url] # "data"
    BY <1>1, <2>1, <2>2, <2>4, PathWrites
    DEF Begin, StartHop, Settle, ChainTypeOK, HopFaithful, NotBegun, RedirectsFaithful, Written, local
  <2>5. QED BY <2>3, <2>4
<1>2. CASE Call
  <2>1. CASE aborted
    BY <1>2, <2>1
    DEF Call, Settle, ChainTypeOK, HopFaithful, NotBegun, RedirectsFaithful, Written, call, local
  <2>2. CASE ~aborted /\ req.body
    BY <1>2, <2>2
    DEF Call, ChainTypeOK, HopFaithful, NotBegun, RedirectsFaithful, Written, local
  <2>3. CASE ~aborted /\ ~req.body
    BY <1>1, <1>2, <2>3 DEF Call
  <2>4. QED BY <2>1, <2>2, <2>3
<1>3. CASE Drained
  BY <1>1, <1>3 DEF Drained
<1>4. CASE DrainFails
  BY <1>4
  DEF DrainFails, Settle, ChainTypeOK, HopFaithful, NotBegun, RedirectsFaithful, Written, local
<1>5. CASE Complete \/ Abort
  BY <1>5
  DEF Complete, Abort, ChainTypeOK, HopFaithful, NotBegun, RedirectsFaithful, Written, call, local
<1>6. CASE Fail
  BY <1>6, ChainEnds DEF Fail, NotBegun
<1>7. CASE Advance
  <2>1. /\ op = "ok" /\ op' = "waiting" /\ step' = step + 1 /\ step < Len(Path(url))
        /\ UNCHANGED <<req, draining, hop, method, url, body, promise>>
    BY <1>7 DEF Advance, call, local
  <2>2. /\ step \in 1..Len(Path(url)) /\ Len(Path(url)) \in Nat /\ Len(Path(url)) >= 4
        /\ Path(url)[step + 1] = "write" <=> step + 1 = Len(Path(url)) - 1
    BY <2>1, PathWrites DEF ChainTypeOK
  <2>3. promise # "none" /\ ~draining
    BY <2>1 DEF NotBegun
  <2>4. CASE step + 1 # Len(Path(url)) - 1
    <3>1. sent' = sent /\ (Written' <=> Written)
      BY <1>7, <2>1, <2>2, <2>4 DEF Advance, Written
    <3>2. QED
      BY <2>1, <2>2, <2>3, <3>1 DEF ChainTypeOK, HopFaithful, NotBegun, RedirectsFaithful
  <2>5. CASE step + 1 = Len(Path(url)) - 1
    <3> DEFINE m == [method |-> method, url |-> url, body |-> body]
    <3>1. sent' = Append(sent, m) /\ ~Written /\ Written'
      BY <1>7, <2>1, <2>2, <2>5 DEF Advance, Written
    <3>2. /\ m \in Message /\ m.method = method /\ m.url = url /\ m.body = body
      BY DEF ChainTypeOK, Message
    <3> HIDE DEF m
    <3>3. /\ sent \in Seq(Message) /\ Len(sent) = hop /\ hop \in 0..MaxRedirects
          /\ url \notin Blocked /\ (body => method \notin {"GET", "HEAD"})
          /\ sent # <<>> => Continues(sent[Len(sent)].method, sent[Len(sent)].body, method, body)
      BY <2>1, <3>1 DEF ChainTypeOK, HopFaithful
    <3>4. /\ sent' \in Seq(Message) /\ Len(sent') = hop + 1
          /\ \A i \in 1..hop : sent'[i] = sent[i]
          /\ sent'[hop + 1] = m
      BY <3>1, <3>2, <3>3, SentAppend
    <3>5. ChainTypeOK'
      BY <2>1, <2>2, <3>4 DEF ChainTypeOK
    <3>6. HopFaithful'
      BY <2>1, <3>1, <3>2, <3>3, <3>4 DEF HopFaithful, ChainTypeOK
    <3>7. NotBegun'
      BY <2>1, <2>3 DEF NotBegun
    <3>8. RedirectsFaithful'
      <4>1. Len(sent') <= MaxRedirects + 1
        BY <3>3, <3>4
      <4>2. ASSUME NEW i \in 1..hop + 1
            PROVE  /\ sent'[i].url \notin Blocked
                   /\ sent'[i].body => sent'[i].method \notin {"GET", "HEAD"}
                   /\ i > 1 => Continues(sent'[i - 1].method, sent'[i - 1].body,
                                     sent'[i].method, sent'[i].body)
        <5>1. CASE i <= hop
          <6>1. i \in DOMAIN sent /\ sent'[i] = sent[i] /\ (i > 1 => sent'[i - 1] = sent[i - 1])
            BY <3>3, <3>4, <4>2, <5>1
          <6>2. QED BY <6>1 DEF RedirectsFaithful, Continues
        <5>2. CASE i = hop + 1
          <6>1. i > 1 => sent # <<>> /\ sent'[i - 1] = sent[Len(sent)]
            BY <3>3, <3>4, <5>2
          <6>2. QED BY <3>2, <3>3, <3>4, <5>2, <6>1
        <5>3. QED BY <3>3, <5>1, <5>2
      <4>3. DOMAIN sent' = 1..hop + 1
        BY <3>4
      <4>4. QED BY <4>1, <4>2, <4>3 DEF RedirectsFaithful, Continues
    <3>9. QED BY <3>5, <3>6, <3>7, <3>8
  <2>6. QED BY <2>4, <2>5
<1>8. ASSUME NEW r \in Responses, Follow(r) PROVE ChainInv'
  <2>1. /\ op = "ok" /\ step = Len(Path(url)) /\ hop < MaxRedirects
        /\ hop' = hop + 1 /\ url' = r.location /\ url' \in Urls
        /\ method' = (IF status_requires_get(r.status, method) THEN "GET" ELSE method)
        /\ body' = (body /\ ~status_requires_get(r.status, method))
        /\ StartHop(url') /\ UNCHANGED <<req, draining, sent>>
    BY <1>8 DEF Follow, Answered, call
  <2>2. Written /\ Len(sent) = hop + 1 /\ promise # "none" /\ ~draining
    BY <2>1, PathWrites DEF Written, HopFaithful, NotBegun, ChainTypeOK
  <2>3. /\ method' \in Methods /\ body' \in BOOLEAN /\ (body' => method' \notin {"GET", "HEAD"})
        /\ Continues(method, body, method', body')
    BY <2>1 DEF status_requires_get, ChainTypeOK, HopFaithful, Continues, Methods
  <2>4. Len(Path(url')) \in Nat /\ Len(Path(url')) >= 4
    BY <2>1, PathWrites
  <2>5. promise' # "none"
    BY <2>1 DEF StartHop, Settle
  <2>6. ChainTypeOK'
    BY <2>1, <2>3, <2>4 DEF ChainTypeOK, StartHop, Settle
  <2>7. HopFaithful'
    BY <2>1, <2>2, <2>3, <2>4 DEF HopFaithful, StartHop, Settle, Written, ChainTypeOK
  <2>8. QED BY <2>1, <2>2, <2>5, <2>6, <2>7 DEF NotBegun, RedirectsFaithful
<1>9. ASSUME NEW r \in Responses, RedirectError(r) \/ Opaque(r) \/ NullBody(r) PROVE ChainInv'
  <2>1. ~draining
    BY <1>9 DEF RedirectError, Opaque, NullBody, Final, Answered, NotBegun
  <2>2. QED
    BY <1>9, <2>1, ChainEnds DEF RedirectError, Opaque, NullBody, Final, Answered
<1>10. ASSUME NEW r \in Responses, WithBody(r) PROVE ChainInv'
  <2>1. ~draining
    BY <1>10 DEF WithBody, Final, Answered, NotBegun
  <2>2. QED
    BY <1>10, <2>1, ChainEnds DEF WithBody
<1>11. CASE Body \/ UNCHANGED vars
  BY <1>11
  DEF Body, vars, fvars, ChainTypeOK, HopFaithful, NotBegun, RedirectsFaithful, Written
<1>12. QED
  BY <1>2, <1>3, <1>4, <1>5, <1>6, <1>7, <1>8, <1>9, <1>10, <1>11 DEF FNext, Answer

\* The invariant holds in every reachable state.
THEOREM ChainInvariant == Spec => []ChainInv
BY ChainInit, ChainStep, PTL DEF Spec

\* Whatever the servers answer, no request goes where it may not, and each differs from the
\* one before only as the status of the redirect allows.
THEOREM RedirectsAreFaithful == Spec => []RedirectsFaithful
<1>1. ChainInv => RedirectsFaithful
  BY DEF ChainInv
<1>2. QED BY <1>1, ChainInvariant, PTL

-----------------------------------------------------------------------------
\* Only an abort cancels an operation, and only that makes an AbortError.
AbortInv ==
  /\ op # "none" => promise = "pending"
  /\ op = "aborted" \/ promise = "AbortError" => aborted

\* It holds for a new call.
LEMMA AbortInit == FInit => AbortInv
BY DEF FInit, AbortInv

\* Every step keeps it, and takes a cancelled operation to the rejection and to nothing else.
LEMMA AbortStep ==
  AbortInv /\ NotBegun /\ [FNext]_vars =>
    /\ AbortInv'
    /\ op = "aborted" => sent' = sent /\ promise' \in {"pending", "AbortError"}
    /\ promise' = "AbortError" => aborted'
<1> SUFFICES ASSUME AbortInv, NotBegun, [FNext]_vars
             PROVE  /\ AbortInv'
                    /\ op = "aborted" => sent' = sent /\ promise' \in {"pending", "AbortError"}
                    /\ promise' = "AbortError" => aborted'
  OBVIOUS
<1> USE DEF AbortInv, Settle, call, local
<1>1. ASSUME promise = "none" \/ draining, Begin
      PROVE  op # "aborted" /\ AbortInv' /\ (promise' = "AbortError" => aborted')
  BY <1>1 DEF Begin, StartHop, NotBegun
<1>2. CASE Call
  BY <1>1, <1>2 DEF Call, NotBegun
<1>3. CASE Drained
  BY <1>1, <1>3 DEF Drained
<1>4. CASE DrainFails
  BY <1>4 DEF DrainFails, NotBegun
<1>5. CASE Complete \/ Abort \/ Fail \/ Advance
  BY <1>5 DEF Complete, Abort, Fail, Advance
<1>6. CASE Answer
  BY <1>6
  DEF Answer, RedirectError, Follow, Opaque, NullBody, WithBody, Final, Answered, StartHop
<1>7. CASE Body \/ UNCHANGED vars
  BY <1>7 DEF Body, vars, fvars
<1>8. QED
  BY <1>2, <1>3, <1>4, <1>5, <1>6, <1>7 DEF FNext

\* An abort that cancelled an operation ends the call: nothing more is sent, and its promise is
\* rejected with the AbortError that no other call gets.
THEOREM AbortsEndCalls == Spec => AbortEndsCall
<1>1. AbortInv /\ NotBegun /\ [FNext]_vars =>
        [ /\ op = "aborted" => sent' = sent /\ promise' \in {"pending", "AbortError"}
          /\ promise' = "AbortError" => aborted' ]_vars
  BY AbortStep
<1>2. ChainInv => NotBegun
  BY DEF ChainInv
<1>3. QED
  BY <1>1, <1>2, AbortInit, AbortStep, ChainInvariant, PTL DEF Spec, AbortEndsCall

-----------------------------------------------------------------------------
(* The body: what the reader has got, what the decoder holds back and what *)
(* it has taken belong together after every block, whatever the network    *)
(* makes of the body.                                                      *)

\* The end of a stream is a symbol of its own, as the checksum of gzip and zlib is: only then
\* is the decoder, which is not called without input, called again while it holds bytes back.
Trailer == Ends[N] = Decoded(N - 1)

\* Before a response is handed to the reader.
Fresh ==
  reading = "none" => /\ ~coded /\ ~eof_upstream /\ ~stream_end
                      /\ fed = 0 /\ taken = 0 /\ held = 0 /\ got = 0

\* A body that is not coded is passed on as it comes.
Passed == ~coded => held = 0 /\ taken = fed /\ got = Decoded(fed) /\ ~stream_end

\* A coded one is given out in the decoder's order, up to its end.
InOrder ==
  coded /\ reading # "error" =>
    /\ got + held = Decoded(taken)
    /\ IF stream_end THEN taken = fed /\ held = 0 /\ got = Whole ELSE taken <= N
    /\ reading = "upstream" => ~eof_upstream

DecodeInv == DTypeOK /\ Fresh /\ Passed /\ InOrder /\ DoneMeansAll /\ DecodedOnce

\* The decoder is never left with bytes and no input to be called for.
BeforeTrailer == coded /\ reading # "error" /\ ~stream_end => taken < N

\* A set of numbers has a least one.
LEMMA MinOf ==
  ASSUME NEW S \in SUBSET Nat, S # {}
  PROVE  Min(S) \in S /\ \A y \in S : Min(S) <= y
<1>1. PICK x \in S : \A y \in S : ~(<<y, x>> \in OpToRel(<, Nat))
  BY WFMin, NatLessThanWellFounded
<1>2. \A y \in S : <<y, x>> \in Nat \X Nat /\ (y < x => <<y, x>> \in OpToRel(<, Nat))
  BY DEF OpToRel
<1>3. \A y \in S : ~(y < x)
  BY <1>1, <1>2
<1>4. \A y \in S : x <= y
  BY <1>3
<1>5. QED BY <1>4 DEF Min

\* The decoded bytes grow with the symbols, up to the whole body.
LEMMA DecodedGrows ==
  /\ N \in Nat \ {0}
  /\ \A i \in Nat : Decoded(i) \in Nat /\ Decoded(i) <= Whole
  /\ \A i, j \in Nat : i <= j => Decoded(i) <= Decoded(j)
  /\ \A i \in Nat : i >= N => Decoded(i) = Whole
  /\ Decoded(0) = 0
<1>1. Ends \in Seq(Nat) /\ N \in Nat \ {0} /\ \A i, j \in 1..N : i <= j => Ends[i] <= Ends[j]
  BY DecodingAssumption DEF N
<1>2. \A i \in 1..N : Ends[i] \in Nat
  BY <1>1 DEF N
<1> HIDE DEF N
<1>3. \A i \in Nat : i # 0 => (IF i < N THEN i ELSE N) \in 1..N
  BY <1>1
<1>4. \A i \in Nat : Decoded(i) \in Nat
  BY <1>2, <1>3 DEF Decoded
<1>5. ASSUME NEW i \in Nat, NEW j \in Nat, i <= j PROVE Decoded(i) <= Decoded(j)
  <2>1. CASE i = 0
    BY <1>4, <2>1 DEF Decoded
  <2>2. CASE i # 0
    <3> DEFINE a == IF i < N THEN i ELSE N
               b == IF j < N THEN j ELSE N
    <3>1. a \in 1..N /\ b \in 1..N /\ a <= b /\ j # 0
      BY <1>1, <1>5, <2>2
    <3>2. Decoded(i) = Ends[a] /\ Decoded(j) = Ends[b]
      BY <2>2, <3>1 DEF Decoded
    <3>3. QED BY <1>1, <3>1, <3>2
  <2>3. QED BY <2>1, <2>2
<1>6. ASSUME NEW i \in Nat, i >= N PROVE Decoded(i) = Whole
  BY <1>1, <1>6 DEF Decoded, Whole
<1>7. ASSUME NEW i \in Nat PROVE Decoded(i) <= Whole
  <2>1. i <= N \/ i >= N
    BY <1>1
  <2>2. Whole = Decoded(N) /\ Whole \in Nat
    BY <1>1, <1>4 DEF Whole
  <2>3. QED BY <1>1, <1>5, <1>6, <2>1, <2>2
<1>8. QED BY <1>1, <1>4, <1>5, <1>6, <1>7 DEF Decoded

\* A pump gives out the next bytes in order, and reports the end when it is at the end of the
\* stream with nothing held back; with all symbols at hand it gives out something or ends.
LEMMA PumpInOrder ==
  ASSUME NEW f \in Nat, taken \in 0..f, held \in Nat, stream_end \in BOOLEAN,
         ~stream_end => taken <= N
  PROVE  /\ Pump(f).taken \in taken..f /\ Pump(f).held \in Nat /\ Pump(f).out \in Nat
         /\ Pump(f).end \in BOOLEAN
         /\ Pump(f).out + Pump(f).held + Decoded(taken) = held + Decoded(Pump(f).taken)
         /\ stream_end => Pump(f).end /\ Pump(f).taken = taken /\ Pump(f).held = held
         /\ ~stream_end => Pump(f).taken <= N
         /\ ~stream_end /\ Pump(f).end => Pump(f).taken = N /\ Pump(f).held = 0
         /\ ~stream_end /\ taken < f /\ f >= N /\ Pump(f).out = 0 => Pump(f).end
         /\ Trailer /\ ~stream_end /\ taken < N => Pump(f).end \/ Pump(f).taken < N
<1> DEFINE p == Pump(f)
<1>0. N \in Nat \ {0} /\ MaxChunk \in Nat \ {0} /\ taken \in Nat
  BY DecodingAssumption, DecodedGrows
<1> HIDE DEF N
<1>1. CASE stream_end \/ taken = f
  <2>1. /\ Pump(f) = [taken |-> taken, held |-> held, out |-> 0, end |-> stream_end]
    BY <1>1 DEF Pump
  <2>2. Decoded(taken) \in Nat
    BY <1>0, DecodedGrows
  <2>3. QED BY <1>0, <1>1, <2>1, <2>2
<1>2. CASE ~stream_end /\ taken # f
  <2> DEFINE avail(i) == held + Decoded(i) - Decoded(taken)
             end == IF f < N THEN f ELSE N
             full == {i \in taken..end : avail(i) >= MaxChunk}
             to == IF full = {} THEN end ELSE Min(full)
             out == IF avail(to) < MaxChunk THEN avail(to) ELSE MaxChunk
  <2>1. Pump(f) = [taken |-> to, held |-> avail(to) - out, out |-> out,
                   end |-> to = N /\ avail(to) = out]
    BY <1>2 DEF Pump
  <2>2. taken < f /\ taken <= N /\ end \in taken..f /\ end <= N /\ (f >= N => end = N)
    BY <1>0, <1>2
  <2>3. \A i \in taken..end : avail(i) \in Nat /\ avail(i) + Decoded(taken) = held + Decoded(i)
    <3>1. \A i \in taken..end : Decoded(taken) <= Decoded(i) /\ Decoded(i) \in Nat
      BY <1>0, <2>2, DecodedGrows
    <3>2. Decoded(taken) \in Nat
      BY <1>0, DecodedGrows
    <3>3. QED BY <3>1, <3>2
  <2>4. Trailer /\ taken < N /\ end = N => N - 1 \in taken..end /\ avail(N) = avail(N - 1)
    <3>1. SUFFICES ASSUME Trailer, taken < N, end = N
                   PROVE  N - 1 \in taken..end /\ avail(N) = avail(N - 1)
      OBVIOUS
    <3>2. Decoded(N) = Decoded(N - 1)
      BY <1>0, <3>1 DEF Trailer, Decoded
    <3>3. N - 1 \in taken..end
      BY <1>0, <2>2, <3>1
    <3>4. QED BY <3>2, <3>3
  <2> HIDE DEF avail, end
  <2>5. /\ to \in taken..end
        /\ \A i \in taken..end : i < to => avail(i) < MaxChunk
        /\ avail(to) < MaxChunk => to = end
    <3>1. CASE full = {}
      BY <1>0, <2>2, <2>3, <3>1
    <3>2. CASE full # {}
      <4>1. full \in SUBSET Nat /\ full \subseteq taken..end
        BY <1>0, <2>2
      <4> DEFINE m == Min(full)
      <4>2. m \in full /\ \A y \in full : m <= y
        BY <3>2, <4>1, MinOf
      <4>3. to = m
        BY <3>2
      <4> HIDE DEF m
      <4>4. m \in taken..end /\ avail(m) >= MaxChunk
        BY <4>2
      <4>5. ASSUME NEW i \in taken..end, i < m PROVE avail(i) < MaxChunk
        <5>1. ~(avail(i) >= MaxChunk)
          BY <1>0, <2>2, <4>2, <4>4, <4>5
        <5>2. QED BY <1>0, <2>3, <5>1
      <4>6. avail(m) \in Nat
        BY <2>3, <4>4
      <4>7. QED BY <1>0, <4>3, <4>4, <4>5, <4>6
    <3>3. QED BY <3>1, <3>2
  <2> HIDE DEF full, to
  <2>6. /\ avail(to) \in Nat /\ avail(to) + Decoded(taken) = held + Decoded(to)
        /\ out \in Nat /\ avail(to) - out \in Nat /\ out + (avail(to) - out) = avail(to)
        /\ out = 0 => avail(to) = 0 /\ to = end
        /\ avail(to) < MaxChunk => avail(to) = out
    BY <1>0, <2>3, <2>5
  <2>7. Trailer /\ taken < N /\ to = N => avail(to) = out
    <3>1. SUFFICES ASSUME Trailer, taken < N, to = N PROVE avail(to) = out
      OBVIOUS
    <3>2. end = N
      BY <1>0, <2>2, <2>5, <3>1
    <3>3. N - 1 \in taken..end /\ avail(N) = avail(N - 1)
      BY <2>4, <3>1, <3>2
    <3>4. avail(N) < MaxChunk
      BY <1>0, <2>5, <3>1, <3>3
    <3>5. QED BY <2>6, <3>1, <3>4
  <2> HIDE DEF out
  <2> DEFINE ended == to = N /\ avail(to) = out
  <2>a. ended \in BOOLEAN
    OBVIOUS
  <2>b. ended <=> to = N /\ avail(to) = out
    OBVIOUS
  <2> HIDE DEF ended
  <2>c. p.taken = to /\ p.held = avail(to) - out /\ p.out = out /\ p.end = ended
    BY <2>1 DEF ended
  <2>8. /\ p.taken = to /\ p.held = avail(to) - out /\ p.out = out
        /\ p.end \in BOOLEAN /\ (p.end <=> to = N /\ avail(to) = out)
    BY <2>a, <2>b, <2>c
  <2>9. p.taken \in taken..f /\ p.taken <= N /\ p.taken \in Nat
    BY <1>0, <2>2, <2>5, <2>8
  <2>10. p.out + p.held + Decoded(taken) = held + Decoded(p.taken) /\ p.held \in Nat /\ p.out \in Nat
    <3>1. Decoded(taken) \in Nat /\ Decoded(to) \in Nat
      BY <1>0, <2>8, <2>9, DecodedGrows
    <3>2. QED BY <2>6, <2>8, <3>1
  <2>11. p.end \in BOOLEAN /\ (p.end => p.taken = N /\ p.held = 0)
    BY <2>6, <2>8
  <2>12. f >= N /\ p.out = 0 => p.end
    BY <1>0, <2>2, <2>6, <2>8
  <2>13. Trailer /\ taken < N => p.end \/ p.taken < N
    BY <1>0, <2>7, <2>8, <2>9
  <2> HIDE DEF p
  <2>14. QED BY <1>2, <2>9, <2>10, <2>11, <2>12, <2>13 DEF p
<1>3. QED BY <1>1, <1>2

\* What a pump makes of a body that is in order: the reader's bytes, the pump's and those
\* held back are a prefix of the body, all of it when the stream has ended.
LEMMA PumpKeepsOrder ==
  ASSUME DecodeInv, coded, reading # "error", NEW f \in Nat, fed <= f
  PROVE  /\ Pump(f).taken \in taken..f /\ Pump(f).held \in Nat /\ Pump(f).out \in Nat
         /\ Pump(f).end \in BOOLEAN
         /\ got + Pump(f).out + Pump(f).held = Decoded(IF Pump(f).end THEN f ELSE Pump(f).taken)
         /\ got + Pump(f).out <= Whole
         /\ Pump(f).end => Pump(f).held = 0 /\ got + Pump(f).out = Whole
         /\ ~Pump(f).end => Pump(f).taken <= N
<1> DEFINE p == Pump(f)
<1>1. /\ fed \in Nat /\ taken \in Nat /\ taken <= fed /\ held \in Nat /\ got \in Nat
      /\ stream_end \in BOOLEAN
  BY DecodedGrows, DecodingAssumption DEF DecodeInv, DTypeOK
<1>2. /\ got + held = Decoded(taken)
      /\ stream_end => taken = fed /\ held = 0 /\ got = Whole
      /\ ~stream_end => taken <= N
  BY DEF DecodeInv, InOrder
<1>3. N \in Nat \ {0} /\ Whole \in Nat
  BY DecodedGrows DEF Whole
<1> HIDE DEF N
<1>4. taken \in 0..f
  BY <1>1
<1>5. /\ p.taken \in taken..f /\ p.held \in Nat /\ p.out \in Nat /\ p.end \in BOOLEAN
      /\ p.out + p.held + Decoded(taken) = held + Decoded(p.taken)
      /\ stream_end => p.end /\ p.taken = taken /\ p.held = held
      /\ ~stream_end => p.taken <= N
      /\ ~stream_end /\ p.end => p.taken = N /\ p.held = 0
  BY <1>1, <1>2, <1>4, PumpInOrder
<1> HIDE DEF p
<1>6. /\ Decoded(taken) \in Nat /\ Decoded(p.taken) \in Nat /\ Decoded(p.taken) <= Whole
      /\ Decoded(fed) <= Decoded(f) /\ Decoded(f) \in Nat /\ Decoded(f) <= Whole
      /\ (f >= N => Decoded(f) = Whole) /\ (p.taken >= N => Decoded(p.taken) = Whole)
  BY <1>1, <1>5, DecodedGrows
<1>7. got + p.out + p.held = Decoded(p.taken)
  BY <1>1, <1>2, <1>5, <1>6
<1>8. p.end => Decoded(p.taken) = Whole /\ Decoded(f) = Whole /\ p.held = 0
  <2>1. CASE stream_end
    <3>1. p.taken = taken /\ p.held = 0 /\ taken = fed /\ Decoded(taken) = Whole
      BY <1>1, <1>2, <1>3, <1>5, <2>1
    <3>2. QED BY <1>3, <1>6, <3>1
  <2>2. CASE ~stream_end
    BY <1>3, <1>5, <1>6, <2>2
  <2>3. QED BY <1>1, <2>1, <2>2
<1>9. got + p.out <= Whole
  BY <1>1, <1>3, <1>5, <1>6, <1>7
<1>10. p.end => got + p.out = Whole
  BY <1>1, <1>5, <1>7, <1>8
<1>11. got + p.out + p.held = Decoded(IF p.end THEN f ELSE p.taken)
  BY <1>7, <1>8
<1>12. ~p.end => p.taken <= N
  BY <1>5
<1>13. QED BY <1>5, <1>8, <1>9, <1>10, <1>11, <1>12 DEF p

\* One round of DecompressSource::read() keeps the body in order.
LEMMA RoundKeeps ==
  ASSUME DecodeInv, coded, reading \in {"idle", "upstream"}, NEW f \in fed..(N + Trailing),
         NEW eof \in BOOLEAN, Round(f, eof), UNCHANGED <<limit, coded, integrity>>
  PROVE  DecodeInv'
<1> DEFINE p == Pump(f)
<1>1. /\ f \in Nat /\ fed <= f /\ limit \in Nat /\ got \in Nat /\ Whole \in Nat /\ N \in Nat
      /\ f \in 0..(N + Trailing)
  BY DecodedGrows, DecodingAssumption DEF DecodeInv, DTypeOK, Whole
<1>2. /\ p.taken \in taken..f /\ p.held \in Nat /\ p.out \in Nat /\ p.end \in BOOLEAN
      /\ got + p.out + p.held = Decoded(IF p.end THEN f ELSE p.taken)
      /\ p.end => p.held = 0 /\ got + p.out = Whole
      /\ ~p.end => p.taken <= N
  BY <1>1, PumpKeepsOrder
<1>3. /\ fed' = f /\ eof_upstream' = eof /\ held' = p.held /\ stream_end' = p.end
      /\ taken' = (IF p.end THEN f ELSE p.taken)
      /\ got' = (IF After(f, eof) = "block" THEN got + p.out ELSE got)
      /\ reading' = CASE After(f, eof) = "block" -> "idle" [] After(f, eof) = "pull" -> "upstream"
                      [] OTHER -> Checked(After(f, eof))
  BY DEF Round, Outcome
<1>4. /\ After(f, eof) \in {"block", "error", "done", "pull"}
      /\ After(f, eof) = "block" => limit = 0 \/ got + p.out <= limit
      /\ After(f, eof) \in {"done", "pull"} => p.out = 0
      /\ After(f, eof) = "done" => p.end
      /\ After(f, eof) = "pull" => ~eof
  <2>1. CASE p.out > 0
    <3>1. After(f, eof) = IF limit # 0 /\ got + p.out > limit THEN "error" ELSE "block"
      BY <2>1 DEF After
    <3>2. QED BY <1>1, <1>2, <3>1
  <2>2. CASE ~(p.out > 0)
    <3> DEFINE rest == IF p.end THEN 0 ELSE f - p.taken
    <3>1. After(f, eof) = IF eof /\ rest = 0 THEN IF p.end THEN "done" ELSE "error"
                          ELSE IF eof THEN "error" ELSE "pull"
      BY <2>2 DEF After
    <3> HIDE DEF rest, p
    <3>2. p.out = 0
      BY <1>2, <2>2
    <3>3. QED BY <3>1, <3>2
  <2>3. QED BY <2>1, <2>2
<1>5. Checked("error") = "error" /\ Checked("done") \in {"done", "error"}
  BY DEF Checked
<1> HIDE DEF p
<1> DEFINE o == After(f, eof)
<1> HIDE DEF o
<1>6. /\ o \in {"block", "error", "done", "pull"}
      /\ o = "block" => limit = 0 \/ got + p.out <= limit
      /\ o \in {"done", "pull"} => p.out = 0
      /\ o = "done" => p.end
      /\ o = "pull" => ~eof
      /\ got' = (IF o = "block" THEN got + p.out ELSE got)
      /\ reading' = CASE o = "block" -> "idle" [] o = "pull" -> "upstream" [] OTHER -> Checked(o)
  BY <1>3, <1>4 DEF o
<1>7. /\ o = "block" => reading' = "idle"
      /\ o = "pull" => reading' = "upstream"
      /\ o = "error" => reading' = "error"
      /\ o = "done" => reading' \in {"done", "error"}
  BY <1>5, <1>6
<1>8. /\ reading' \in {"idle", "upstream", "done", "error"} /\ got' \in Nat
      /\ taken' \in 0..f
  <2>1. taken \in Nat
    BY DEF DecodeInv, DTypeOK
  <2>2. QED BY <1>1, <1>2, <1>3, <1>6, <1>7, <2>1
<1>9. DTypeOK'
  BY <1>1, <1>2, <1>3, <1>8 DEF DecodeInv, DTypeOK
<1>10. reading' # "error" => o # "error" /\ got' = got + p.out
  BY <1>1, <1>2, <1>6, <1>7
<1>11. InOrder'
  BY <1>1, <1>2, <1>3, <1>6, <1>7, <1>10 DEF InOrder
<1>12. DoneMeansAll' /\ DecodedOnce'
  BY <1>1, <1>2, <1>3, <1>6, <1>7, <1>10 DEF DoneMeansAll, DecodedOnce, DecodeInv
<1>13. Fresh' /\ Passed'
  BY <1>8 DEF Fresh, Passed
<1>14. QED BY <1>9, <1>11, <1>12, <1>13 DEF DecodeInv

\* With a trailer, a round refuses no body that is complete and within its limit.
LEMMA RoundCompletes ==
  ASSUME Trailer, DecodeInv, BeforeTrailer, coded, reading \in {"idle", "upstream"},
         NEW f \in fed..(N + Trailing), NEW eof \in BOOLEAN, Round(f, eof),
         UNCHANGED <<limit, coded, integrity>>
  PROVE  BeforeTrailer' /\ CompleteIsDecoded'
<1> DEFINE p == Pump(f)
           o == After(f, eof)
<1>1. /\ f \in Nat /\ fed <= f /\ limit \in Nat /\ got \in Nat /\ Whole \in Nat /\ N \in Nat
      /\ taken \in 0..f /\ taken \in Nat /\ held \in Nat /\ stream_end \in BOOLEAN
  BY DecodedGrows, DecodingAssumption DEF DecodeInv, DTypeOK, Whole
<1>2. /\ p.taken \in taken..f /\ p.out \in Nat /\ p.end \in BOOLEAN
      /\ got + p.out <= Whole
      /\ p.end => got + p.out = Whole
  BY <1>1, PumpKeepsOrder
<1>3. /\ ~stream_end => taken < N
      /\ stream_end => p.end
      /\ ~stream_end /\ taken < f /\ f >= N /\ p.out = 0 => p.end
      /\ ~stream_end /\ taken < N => p.end \/ p.taken < N
  <2>1. ~stream_end => taken < N
    BY DEF BeforeTrailer
  <2>2. ~stream_end => taken <= N
    BY DEF DecodeInv, InOrder
  <2>3. QED BY <1>1, <2>1, <2>2, PumpInOrder
<1>4. /\ fed' = f /\ eof_upstream' = eof /\ stream_end' = p.end
      /\ taken' = (IF p.end THEN f ELSE p.taken)
      /\ reading' = CASE o = "block" -> "idle" [] o = "pull" -> "upstream" [] OTHER -> Checked(o)
  BY DEF Round, Outcome
<1>5. BeforeTrailer'
  <2>1. ~p.end => p.taken < N
    BY <1>2, <1>3
  <2>2. QED BY <1>4, <2>1 DEF BeforeTrailer
<1>6. ASSUME o = "error" PROVE (limit # 0 /\ Whole > limit) \/ f < N \/ ~eof
  <2>1. CASE p.out > 0
    <3>1. limit # 0 /\ got + p.out > limit
      BY <1>6, <2>1 DEF After
    <3>2. QED BY <1>1, <1>2, <3>1
  <2>2. CASE ~(p.out > 0)
    <3> DEFINE rest == IF p.end THEN 0 ELSE f - p.taken
    <3>1. o = IF eof /\ rest = 0 THEN IF p.end THEN "done" ELSE "error"
              ELSE IF eof THEN "error" ELSE "pull"
      BY <2>2 DEF After
    <3>2. p.end => rest = 0
      OBVIOUS
    <3> HIDE DEF rest, p, o
    <3>3. eof /\ ~p.end
      BY <1>2, <1>6, <3>1, <3>2
    <3>4. p.out = 0
      BY <1>2, <2>2
    <3>5. QED BY <1>1, <1>3, <3>3, <3>4
  <2>3. QED BY <2>1, <2>2
<1>7. ASSUME o = "done" PROVE reading' = "error" => integrity = "mismatch"
  <2>1. p.end /\ p.out = 0
    <3> DEFINE rest == IF p.end THEN 0 ELSE f - p.taken
    <3>1. o = IF p.out > 0 THEN IF limit # 0 /\ got + p.out > limit THEN "error" ELSE "block"
              ELSE IF eof /\ rest = 0 THEN IF p.end THEN "done" ELSE "error"
              ELSE IF eof THEN "error" ELSE "pull"
      BY DEF After
    <3> HIDE DEF rest, p, o
    <3>2. QED BY <1>2, <1>7, <3>1
  <2> HIDE DEF p, o
  <2>2. got = Whole
    BY <1>1, <1>2, <2>1
  <2>3. reading' = Checked("done")
    BY <1>4, <1>7
  <2>4. QED BY <2>2, <2>3 DEF Checked
<1> HIDE DEF p, o
<1>8. reading' = "error" => o \notin {"block", "pull"}
  BY <1>4
<1>9. o \in {"block", "pull", "error", "done"}
  BY DEF o, After
<1>10. CompleteIsDecoded'
  BY <1>4, <1>6, <1>7, <1>8, <1>9 DEF CompleteIsDecoded
<1>11. QED BY <1>5, <1>10

\* A step of the reader or of the network keeps the body in order.
LEMMA BodyKeeps ==
  ASSUME DecodeInv, DNext PROVE DecodeInv'
<1>1. /\ fed \in 0..(N + Trailing) /\ N \in Nat /\ Trailing \in Nat /\ eof_upstream \in BOOLEAN
      /\ coded \in BOOLEAN
  BY DecodedGrows, DecodingAssumption DEF DecodeInv, DTypeOK
<1>2. CASE ReadBody
  <2>1. CASE ~coded \/ (~eof_upstream /\ taken = fed)
    <3>1. /\ reading = "idle" /\ reading' = "upstream"
          /\ UNCHANGED <<limit, coded, integrity, fed, taken, held, eof_upstream, stream_end, got>>
      BY <1>2, <2>1 DEF ReadBody
    <3>2. QED
      BY <2>1, <3>1 DEF DecodeInv, DTypeOK, Fresh, Passed, InOrder, DoneMeansAll, DecodedOnce
  <2>2. CASE ~(~coded \/ (~eof_upstream /\ taken = fed))
    <3>1. fed \in fed..(N + Trailing)
      BY <1>1
    <3>2. QED BY <1>1, <1>2, <2>2, <3>1, RoundKeeps DEF ReadBody
  <2>3. QED BY <2>1, <2>2
<1>3. CASE UpstreamBlock
  <2>1. PICK f \in (fed + 1)..(N + Trailing) :
          IF coded THEN Round(f, FALSE)
          ELSE /\ fed' = f /\ taken' = f /\ got' = Decoded(f) /\ reading' = "idle"
               /\ UNCHANGED <<held, eof_upstream, stream_end>>
    BY <1>3 DEF UpstreamBlock
  <2>2. reading = "upstream" /\ UNCHANGED <<limit, coded, integrity>>
    BY <1>3 DEF UpstreamBlock
  <2>3. f \in fed..(N + Trailing) /\ f \in 0..(N + Trailing) /\ f \in 0..f /\ f \in Nat
    BY <1>1
  <2>4. CASE coded
    BY <2>1, <2>2, <2>3, <2>4, RoundKeeps
  <2>5. CASE ~coded
    <3>1. Decoded(f) \in Nat
      BY <2>3, DecodedGrows
    <3>2. QED
      BY <2>1, <2>2, <2>3, <2>5, <3>1
      DEF DecodeInv, DTypeOK, Fresh, Passed, InOrder, DoneMeansAll, DecodedOnce
  <2>6. QED BY <2>4, <2>5
<1>4. CASE UpstreamEnd
  <2>1. CASE coded
    <3>1. fed \in fed..(N + Trailing)
      BY <1>1
    <3>2. QED BY <1>4, <2>1, <3>1, RoundKeeps DEF UpstreamEnd
  <2>2. CASE ~coded
    <3>1. /\ reading' = Checked("done") /\ eof_upstream' = TRUE
          /\ UNCHANGED <<limit, coded, integrity, fed, taken, held, stream_end, got>>
      BY <1>4, <2>2 DEF UpstreamEnd, Outcome
    <3>2. reading' \in {"done", "error"} /\ (reading' = "done" /\ integrity # "none" => got = Whole)
      BY <3>1 DEF Checked
    <3>3. QED
      BY <2>2, <3>1, <3>2 DEF DecodeInv, DTypeOK, Fresh, Passed, InOrder, DoneMeansAll, DecodedOnce
  <2>3. QED BY <2>1, <2>2
<1>5. CASE UpstreamError
  BY <1>5 DEF UpstreamError, DecodeInv, DTypeOK, Fresh, Passed, InOrder, DoneMeansAll, DecodedOnce
<1>6. QED BY <1>2, <1>3, <1>4, <1>5 DEF DNext

\* With a trailer such a step refuses no complete body.
LEMMA BodyCompletes ==
  ASSUME Trailer, DecodeInv, BeforeTrailer, CompleteIsDecoded, DNext
  PROVE  BeforeTrailer' /\ CompleteIsDecoded'
<1>1. /\ fed \in 0..(N + Trailing) /\ N \in Nat /\ Trailing \in Nat /\ eof_upstream \in BOOLEAN
      /\ coded \in BOOLEAN
  BY DecodedGrows, DecodingAssumption DEF DecodeInv, DTypeOK
<1>2. CASE ReadBody
  <2>1. CASE ~coded \/ (~eof_upstream /\ taken = fed)
    BY <1>2, <2>1 DEF ReadBody, BeforeTrailer, CompleteIsDecoded
  <2>2. CASE ~(~coded \/ (~eof_upstream /\ taken = fed))
    <3>1. fed \in fed..(N + Trailing)
      BY <1>1
    <3>2. QED BY <1>1, <1>2, <2>2, <3>1, RoundCompletes DEF ReadBody
  <2>3. QED BY <2>1, <2>2
<1>3. CASE UpstreamBlock
  <2>1. PICK f \in (fed + 1)..(N + Trailing) :
          IF coded THEN Round(f, FALSE)
          ELSE /\ fed' = f /\ taken' = f /\ got' = Decoded(f) /\ reading' = "idle"
               /\ UNCHANGED <<held, eof_upstream, stream_end>>
    BY <1>3 DEF UpstreamBlock
  <2>2. reading = "upstream" /\ UNCHANGED <<limit, coded, integrity>>
    BY <1>3 DEF UpstreamBlock
  <2>3. f \in fed..(N + Trailing)
    BY <1>1
  <2>4. CASE coded
    BY <2>1, <2>2, <2>3, <2>4, RoundCompletes
  <2>5. CASE ~coded
    BY <2>1, <2>2, <2>5 DEF BeforeTrailer, CompleteIsDecoded
  <2>6. QED BY <2>4, <2>5
<1>4. CASE UpstreamEnd
  <2>1. CASE coded
    <3>1. fed \in fed..(N + Trailing)
      BY <1>1
    <3>2. QED BY <1>4, <2>1, <3>1, RoundCompletes DEF UpstreamEnd
  <2>2. CASE ~coded
    BY <1>4, <2>2 DEF UpstreamEnd, BeforeTrailer, CompleteIsDecoded
  <2>3. QED BY <2>1, <2>2
<1>5. CASE UpstreamError
  BY <1>5 DEF UpstreamError, BeforeTrailer, CompleteIsDecoded, DecodeInv, InOrder
<1>6. QED BY <1>2, <1>3, <1>4, <1>5 DEF DNext

\* A response's body is handed over once; after that only the reader and the network touch it.
LEMMA BodySteps ==
  ASSUME ChainTypeOK, [FNext]_vars
  PROVE  \/ UNCHANGED dvars
         \/ DNext
         \/ \E c \in BOOLEAN, k \in Integrities : Open(c, k)
<1> DEFINE Goal == \/ UNCHANGED dvars
                   \/ DNext
                   \/ \E c \in BOOLEAN, k \in Integrities : Open(c, k)
<1>1. ASSUME Begin PROVE Goal
  <2>1. "none" \in Integrities
    BY DEF Integrities
  <2>2. UNCHANGED dvars \/ Open(FALSE, "none")
    BY <1>1 DEF Begin
  <2>3. QED BY <2>1, <2>2
<1>2. ASSUME NEW r \in Responses, WithBody(r) PROVE Goal
  <2>1. Open(r.coded /\ req.auto, req.integrity)
    BY <1>2 DEF WithBody
  <2>2. r.coded \in BOOLEAN /\ req.auto \in BOOLEAN /\ req.integrity \in Integrities
    BY DEF ChainTypeOK, RequestType, Responses
  <2>3. QED BY <2>1, <2>2
<1>3. CASE Call \/ Drained
  BY <1>1, <1>3 DEF Call, Drained
<1>4. CASE DrainFails \/ Complete \/ Abort \/ Fail \/ Advance
  BY <1>4 DEF DrainFails, Complete, Abort, Fail, Advance
<1>5. CASE Answer
  BY <1>2, <1>5 DEF Answer, RedirectError, Follow, Opaque, NullBody
<1>6. CASE Body \/ UNCHANGED vars
  BY <1>6 DEF Body, vars
<1>7. QED BY <1>3, <1>4, <1>5, <1>6 DEF FNext

\* Nothing has been read of a body that is handed over.
LEMMA OpenKeeps ==
  ASSUME DecodeInv, NEW c \in BOOLEAN, NEW k \in Integrities, Open(c, k)
  PROVE  DecodeInv' /\ BeforeTrailer' /\ CompleteIsDecoded'
<1>1. /\ fed = 0 /\ taken = 0 /\ held = 0 /\ got = 0 /\ ~eof_upstream /\ ~stream_end
      /\ reading' = "idle" /\ coded' = c /\ integrity' = k
      /\ UNCHANGED <<limit, fed, taken, held, eof_upstream, stream_end, got>>
  BY DEF Open, DecodeInv, Fresh
<1>2. N \in Nat \ {0} /\ Decoded(0) = 0 /\ Trailing \in Nat
  BY DecodedGrows, DecodingAssumption
<1> HIDE DEF N
<1>3. DTypeOK'
  BY <1>1, <1>2 DEF DecodeInv, DTypeOK
<1>4. DecodedOnce'
  <2>1. limit' \in Nat
    BY <1>3, DecodingAssumption DEF DTypeOK
  <2>2. QED BY <1>1, <1>2, <2>1 DEF DecodedOnce
<1>5. InOrder' /\ Passed' /\ Fresh' /\ DoneMeansAll'
  BY <1>1, <1>2 DEF InOrder, Passed, Fresh, DoneMeansAll
<1>6. BeforeTrailer' /\ CompleteIsDecoded'
  BY <1>1, <1>2 DEF BeforeTrailer, CompleteIsDecoded
<1>7. QED BY <1>3, <1>4, <1>5, <1>6 DEF DecodeInv

\* The body of a call that has not answered is fresh.
LEMMA DecodeInit == FInit => DecodeInv /\ BeforeTrailer /\ CompleteIsDecoded
<1>1. N \in Nat \ {0} /\ Decoded(0) = 0 /\ Trailing \in Nat /\ Limits \subseteq Nat
  BY DecodedGrows, DecodingAssumption
<1> HIDE DEF N
<1>2. SUFFICES ASSUME FInit PROVE DecodeInv /\ BeforeTrailer /\ CompleteIsDecoded
  OBVIOUS
<1>3. /\ limit \in Limits /\ coded = FALSE /\ integrity = "none" /\ reading = "none"
      /\ fed = 0 /\ taken = 0 /\ held = 0 /\ got = 0
      /\ eof_upstream = FALSE /\ stream_end = FALSE
  BY <1>2 DEF FInit, DInit
<1>4. DTypeOK
  <2>1. 0 \in 0..(N + Trailing) /\ 0 \in 0..0
    BY <1>1
  <2>2. "none" \in Integrities
    BY DEF Integrities
  <2>3. QED BY <1>3, <2>1, <2>2 DEF DTypeOK
<1>5. Fresh /\ Passed /\ InOrder /\ DoneMeansAll /\ DecodedOnce /\ BeforeTrailer /\ CompleteIsDecoded
  BY <1>1, <1>3
  DEF Fresh, Passed, InOrder, DoneMeansAll, DecodedOnce, BeforeTrailer, CompleteIsDecoded
<1>6. QED BY <1>4, <1>5 DEF DecodeInv

\* Bytes, digest and limit are in order at any moment of any call, whatever the decoder is.
THEOREM BodyInOrder == Spec => []DecodeInv
<1>1. ChainTypeOK /\ DecodeInv /\ [FNext]_vars => DecodeInv'
  <2>1. ASSUME DecodeInv, UNCHANGED dvars PROVE DecodeInv'
    BY <2>1 DEF dvars, DecodeInv, DTypeOK, Fresh, Passed, InOrder, DoneMeansAll, DecodedOnce
  <2>2. QED BY <2>1, BodySteps, BodyKeeps, OpenKeeps
<1>2. ChainInv => ChainTypeOK
  BY DEF ChainInv
<1>3. QED BY <1>1, <1>2, DecodeInit, ChainInvariant, PTL DEF Spec

\* What the reader gets is a prefix of the body, within the limit, and reported complete only
\* if it is all of it: for any body, blocks, limit and digest.
THEOREM NothingPassesForWhole == Spec => [](DoneMeansAll /\ DecodedOnce)
<1>1. DecodeInv => DoneMeansAll /\ DecodedOnce
  BY DEF DecodeInv
<1>2. QED BY <1>1, BodyInOrder, PTL

\* And a body that ends with a trailer is never refused when it is complete and within the
\* limit.
THEOREM BodiesAreDecodedWhole ==
  ASSUME Trailer PROVE Spec => []DecodedWhole
<1>1. ASSUME ChainTypeOK, DecodeInv, BeforeTrailer, CompleteIsDecoded, [FNext]_vars
      PROVE  BeforeTrailer' /\ CompleteIsDecoded'
  <2>1. CASE UNCHANGED dvars
    BY <1>1, <2>1 DEF dvars, BeforeTrailer, CompleteIsDecoded
  <2>2. QED BY <1>1, <2>1, BodySteps, BodyCompletes, OpenKeeps
<1>2. ChainInv => ChainTypeOK
  BY DEF ChainInv
<1>3. Spec => [](BeforeTrailer /\ CompleteIsDecoded)
  BY <1>1, <1>2, DecodeInit, BodyInOrder, ChainInvariant, PTL DEF Spec
<1>4. QED BY <1>3, NothingPassesForWhole, PTL DEF DecodedWhole

-----------------------------------------------------------------------------
\* The rest of the types, and who owns the socket.
SocketInv ==
  /\ promise \in {"none", "pending", "response", "TypeError", "AbortError"}
  /\ aborted \in BOOLEAN /\ draining \in BOOLEAN /\ sock \in BOOLEAN
  /\ SocketOwned

\* Once handed over, a body stays with its reader.
LEMMA ReaderStays ==
  ASSUME DNext PROVE reading # "none" /\ reading' # "none"
<1>1. \A o \in {"block", "pull", "done", "error"} : Outcome(o) => reading' # "none"
  BY DEF Outcome, Checked
<1>2. \A f, eof : Round(f, eof) => reading' # "none"
  <2>1. \A f, eof : After(f, eof) \in {"block", "pull", "done", "error"}
    BY DEF After
  <2>2. QED BY <1>1, <2>1 DEF Round
<1>3. QED BY <1>1, <1>2 DEF DNext, ReadBody, UpstreamBlock, UpstreamEnd, UpstreamError

\* No step leaves a socket without an exchange or a body that owns it.
LEMMA SocketStep ==
  ASSUME ChainTypeOK, NotBegun, AbortInv, SocketInv, [FNext]_vars PROVE SocketInv'
<1> USE DEF SocketInv, SocketOwned, Settle, call, local
<1>1. ASSUME promise = "none" \/ (promise = "pending" /\ draining), Begin PROVE SocketInv'
  <2>1. sock = FALSE /\ sock' = FALSE
    BY <1>1 DEF NotBegun, Begin
  <2>2. /\ promise' \in {"pending", "response", "TypeError"} /\ draining' = FALSE
        /\ aborted' = aborted
    BY <1>1 DEF Begin, StartHop
  <2>3. QED BY <2>1, <2>2
<1>2. CASE Call
  <2>1. CASE aborted
    BY <1>2, <2>1 DEF Call
  <2>2. CASE ~aborted /\ req.body
    BY <1>2, <2>2 DEF Call
  <2>3. CASE ~aborted /\ ~req.body
    BY <1>1, <1>2, <2>3 DEF Call
  <2>4. QED BY <2>1, <2>2, <2>3
<1>3. CASE Drained
  BY <1>1, <1>3 DEF Drained
<1>4. CASE DrainFails
  BY <1>4 DEF DrainFails, NotBegun
<1>5. CASE Complete \/ Abort
  <2>1. /\ op # "none" => op' # "none"
        /\ aborted' \in BOOLEAN /\ UNCHANGED <<promise, draining, sock, reading>>
    BY <1>5 DEF Complete, Abort, dvars
  <2>2. QED BY <2>1
<1>6. CASE Fail
  BY <1>6 DEF Fail
<1>7. CASE Advance
  BY <1>7 DEF Advance, AbortInv
<1>8. ASSUME NEW r \in Responses, RedirectError(r) \/ Follow(r) \/ Opaque(r) \/ NullBody(r)
      PROVE  SocketInv'
  <2>1. sock' = FALSE /\ promise' \in {"pending", "response", "TypeError"} /\ UNCHANGED <<aborted, draining>>
    BY <1>8 DEF RedirectError, Follow, Opaque, NullBody, StartHop
  <2>2. QED BY <2>1
<1>9. ASSUME NEW r \in Responses, WithBody(r) PROVE SocketInv'
  BY <1>9 DEF WithBody, Open
<1>10. CASE Body
  <2>1. reading # "none" /\ reading' # "none" /\ UNCHANGED fvars
    BY <1>10, ReaderStays DEF Body
  <2>2. QED BY <2>1 DEF fvars
<1>11. CASE UNCHANGED vars
  BY <1>11 DEF vars, fvars, dvars
<1>12. QED
  BY <1>2, <1>3, <1>4, <1>5, <1>6, <1>7, <1>8, <1>9, <1>10, <1>11 DEF FNext, Answer

\* Every operation in flight belongs to a pending promise and every socket to an exchange or
\* to a body that may be read, through hops, aborts and failures in any order.
THEOREM CallStateSound == Spec => []StateSound
<1>1. FInit => SocketInv
  BY DEF FInit, SocketInv, SocketOwned
<1>2. ChainInv => ChainTypeOK /\ NotBegun
  BY DEF ChainInv
<1>3. Spec => []AbortInv
  BY <1>2, AbortInit, AbortStep, ChainInvariant, PTL DEF Spec
<1>4. Spec => []SocketInv
  BY <1>1, <1>2, <1>3, SocketStep, ChainInvariant, PTL DEF Spec
<1>5. ChainTypeOK /\ AbortInv /\ DecodeInv /\ SocketInv => StateSound
  BY DEF ChainTypeOK, AbortInv, DecodeInv, SocketInv, StateSound, TypeOK
<1>6. QED BY <1>2, <1>3, <1>4, <1>5, BodyInOrder, ChainInvariant, PTL

=============================================================================

------------------------------- MODULE Bodies -------------------------------
(***************************************************************************)
(* The bodies of Request and Response objects                              *)
(* (include/qjsbind/web/request_response.hpp, with the calls of stream.hpp *)
(* and fetch.hpp that they make). A body is a stream over a source; taking *)
(* a body for a second object replaces it by one branch of a TeeSource     *)
(* over that source and gives the other branch to the new object, so that  *)
(* the streams form trees whose roots hold the blocks.                     *)
(*                                                                         *)
(* One block travels in one step: what may happen while a source is being  *)
(* read is the subject of module ReadableStream. A header list is reduced  *)
(* to its content-type, an error of a source is left out, and so are the   *)
(* streams that garbage collection removes: nothing reads them. What the   *)
(* streams of a tree give after a script went past the checks (spoiled) is *)
(* not followed either: only their marks and locks are.                    *)
(***************************************************************************)
EXTENDS Naturals, Sequences, FiniteSets, SequencesExt

CONSTANTS Blocks,      \* a source holds the blocks 1, ..., Blocks
          Types, Form, \* content types, and the one that formData() parses
          None,        \* no header, no cached object
          MaxStreams, MaxObjects, MaxCalls,
          MaxNew,      \* objects made from no other, before any that is
          MaxEdits,    \* Headers objects that the script changes
          MaxReaders,  \* streams of which it takes a reader
          MaxCuts      \* streams that it cancels before their end

ASSUME BodiesAssumption ==
  /\ {Blocks, MaxStreams, MaxObjects, MaxCalls, MaxNew, MaxEdits, MaxReaders, MaxCuts} \subseteq Nat
  /\ Form \in Types /\ None \notin Types

VARIABLES
  streams,  \* every ReadableStreamImpl, oldest first; TeeSource in parent and buf
  objects,  \* the Request and Response objects of the script
  calls,    \* text(), formData() ... and fetch(), as they read their stream
  spoiled   \* roots whose blocks a script took, or gave up, by a way around the checks

vars == <<streams, objects, calls, spoiled>>

Stream(p) == [parent |-> p, given |-> 0, buf |-> <<>>,
              disturbed |-> FALSE, locked |-> FALSE, reader |-> FALSE,
              cut |-> FALSE]   \* cancelled before its end

Object(k, b, t) == [kind |-> k, body |-> b, list |-> t, body_js |-> 0, headers_js |-> None]

Init == streams = <<>> /\ objects = <<>> /\ calls = <<>> /\ spoiled = {}

Roots == LET r[s \in DOMAIN streams] ==
               IF streams[s].parent = 0 THEN s ELSE r[streams[s].parent]
         IN r

Branches(s) == {b \in DOMAIN streams : streams[b].parent = s}

\* Mutant: only the lock is checked.
MutantFree(b) == b # 0 => ~streams[b].locked

\* A body that nobody has locked or read.
Free(b) == b # 0 => ~streams[b].locked /\ ~streams[b].disturbed

Used(o) == objects[o].body # 0 /\ streams[objects[o].body].disturbed

\* content_type_of: the script's Headers object once it has one.
Visible(o) == IF objects[o].headers_js = None THEN objects[o].list ELSE objects[o].headers_js

(***************************************************************************)
(* Sources.                                                                *)
(***************************************************************************)
\* From the stream that asks up to the branch or the root with the next block.
Chain == LET c[s \in DOMAIN streams] ==
               IF streams[s].parent = 0 \/ streams[s].buf # <<>>
               THEN <<s>> ELSE <<s>> \o c[streams[s].parent]
         IN c

NextBlock(s) == LET h == streams[Last(Chain[s])]
                IN IF h.buf # <<>> THEN Head(h.buf) ELSE h.given + 1

AtEnd(s) == NextBlock(s) > Blocks

\* Mutant: a block is not kept for the other branches.
MutantPulled(s) ==
  IF AtEnd(s) THEN streams
  ELSE LET h == Last(Chain[s])
       IN [streams EXCEPT ![h] = IF @.buf # <<>> THEN [@ EXCEPT !.buf = Tail(@)]
                                 ELSE [@ EXCEPT !.given = @ + 1]]

\* The block goes to the stream that asked, and into the other branches on its way
\* (into those that were cancelled too: nobody reads them any more).
Pulled(s) ==
  LET way == ToSet(Chain[s])
      h   == Last(Chain[s])
      Passed(t) ==
        IF t = h
        THEN IF streams[t].buf # <<>> THEN [streams[t] EXCEPT !.buf = Tail(@)]
             ELSE [streams[t] EXCEPT !.given = @ + 1]
        ELSE IF t \notin way /\ streams[t].parent \in way \ {s}
        THEN [streams[t] EXCEPT !.buf = Append(@, NextBlock(s))]
        ELSE streams[t]
  IN IF AtEnd(s) THEN streams ELSE [t \in DOMAIN streams |-> Passed(t)]

Disturb(ss, s) == [ss EXCEPT ![s].disturbed = TRUE]

(***************************************************************************)
(* The script's stream objects: `body`, getReader(), read(), releaseLock() *)
(* and cancel().                                                           *)
(***************************************************************************)
BodyGetter(o) ==
  /\ objects[o].body # 0 /\ objects[o].body_js = 0
  /\ objects' = [objects EXCEPT ![o].body_js = objects[o].body]
  /\ UNCHANGED <<streams, calls, spoiled>>

GetReader(o) ==
  LET s == objects[o].body_js
  IN /\ s # 0 /\ Free(s)
     /\ Cardinality({t \in DOMAIN streams : streams[t].reader}) < MaxReaders
     /\ streams' = [streams EXCEPT ![s].locked = TRUE, ![s].reader = TRUE]
     /\ UNCHANGED <<objects, calls, spoiled>>

ReleaseLock(s) ==
  /\ streams[s].locked
  /\ streams' = [streams EXCEPT ![s].locked = FALSE]
  /\ UNCHANGED <<objects, calls, spoiled>>

\* A reader goes on reading after releaseLock(), and after its stream's source
\* has been given to two branches. A cancelled stream gives nothing.
ReaderRead(s) ==
  /\ streams[s].reader /\ ~streams[s].cut
  /\ streams' = Disturb(Pulled(s), s)
  /\ spoiled' = IF streams[s].locked /\ Branches(s) = {} THEN spoiled
                ELSE spoiled \cup {Roots[s]}
  /\ UNCHANGED <<objects, calls>>

\* cancel() of a stream that was read to its end does nothing. Otherwise it counts as a
\* read, and nothing more comes: for a branch the other one keeps the source; but if the
\* source was given to two branches, it is taken away from both.
Cancel(s, locked) ==
  /\ Cardinality({t \in DOMAIN streams : streams[t].cut}) < MaxCuts
  /\ streams' = [streams EXCEPT ![s].disturbed = TRUE, ![s].locked = locked,
                                ![s].cut = @ \/ ~AtEnd(s)]
  /\ spoiled' = IF Branches(s) = {} THEN spoiled ELSE spoiled \cup {Roots[s]}
  /\ UNCHANGED <<objects, calls>>

\* Through the stream object a script need not hold the lock.
CancelBody(o) ==
  LET s == objects[o].body_js
  IN s # 0 /\ Cancel(s, streams[s].locked)

\* A reader gives the lock back, too.
CancelReader(s) == streams[s].reader /\ Cancel(s, FALSE)

(***************************************************************************)
(* Headers: the script's Headers object is a copy of the list.             *)
(***************************************************************************)
SetHeader(o, t) ==
  /\ Visible(o) # t
  /\ Cardinality({p \in DOMAIN objects : objects[p].headers_js # None}) < MaxEdits
  /\ objects' = [objects EXCEPT ![o].headers_js = t]
  /\ UNCHANGED <<streams, calls, spoiled>>

(***************************************************************************)
(* Consumption: text(), json(), arrayBuffer(), bytes(), blob() and, with a *)
(* form content type, formData(). A null body gives "" and changes nothing.*)
(***************************************************************************)
Reading(o, s, t) == [object |-> o, stream |-> s, got |-> <<>>, done |-> s = 0, sent |-> t, shown |-> t]

\* Mutant: the body counts as used only once the first block is there.
MutantConsume(o, form) ==
  LET s == objects[o].body
  IN /\ Len(calls) < MaxCalls
     /\ s # 0 /\ Free(s)
     /\ form => Visible(o) = Form
     /\ calls' = Append(calls, Reading(o, s, Visible(o)))
     /\ UNCHANGED <<streams, objects, spoiled>>

Consume(o, form) ==
  LET s == objects[o].body
  IN /\ Len(calls) < MaxCalls
     /\ s # 0 /\ Free(s)
     /\ form => Visible(o) = Form
     /\ streams' = Disturb(streams, s)
     /\ calls' = Append(calls, Reading(o, s, Visible(o)))
     /\ UNCHANGED <<objects, spoiled>>

ConsumeStep(c) ==
  LET s == calls[c].stream
  IN /\ ~calls[c].done
     /\ streams' = IF streams[s].cut THEN streams ELSE Pulled(s)
     /\ calls' = IF streams[s].cut \/ AtEnd(s) THEN [calls EXCEPT ![c].done = TRUE]
                 ELSE [calls EXCEPT ![c].got = Append(@, NextBlock(s))]
     /\ UNCHANGED <<objects, spoiled>>

(***************************************************************************)
(* Objects made from others.                                               *)
(***************************************************************************)
Room(n) == Len(objects) < MaxObjects /\ Len(streams) + n <= MaxStreams

\* The source of s goes to a tee: the next two streams are its branches.
Tee(s)    == IF s = 0 THEN streams ELSE streams \o <<Stream(s), Stream(s)>>
BranchA(s) == IF s = 0 THEN 0 ELSE Len(streams) + 1
BranchB(s) == IF s = 0 THEN 0 ELSE Len(streams) + 2

\* extract_body: a string, a form or other bytes of the script; or the response of a fetch.
NewObject(k, t) ==
  /\ Room(1) /\ Len(objects) < MaxNew
  /\ streams' = Append(streams, Stream(0))
  /\ objects' = Append(objects, Object(k, Len(streams) + 1, t))
  /\ UNCHANGED <<calls, spoiled>>

Clone(o) ==
  LET s == objects[o].body
  IN /\ Room(2) /\ Free(s)
     /\ streams' = Tee(s)
     /\ objects' = Append([objects EXCEPT ![o].body = BranchA(s)],
                          Object(objects[o].kind, BranchB(s), objects[o].list))
     /\ UNCHANGED <<calls, spoiled>>

\* try_extract_init_body takes o's body; the constructor's end marks it as used.
Extract(o, t) ==
  LET s == objects[o].body
  IN /\ Room(2) /\ Free(s)
     /\ streams' = IF s = 0 THEN streams ELSE Disturb(Tee(s), BranchA(s))
     /\ objects' = Append([objects EXCEPT ![o].body = BranchA(s)],
                          Object("Request", BranchB(s), t))
     /\ UNCHANGED <<calls, spoiled>>

\* new Request(o): o's list comes along, its Headers object does not.
RequestFrom(o) == objects[o].kind = "Request" /\ Extract(o, objects[o].list)

\* new Request(url, {body: o})
RequestWith(o) == Extract(o, None)

\* The constructor fails after the extraction: nothing is marked, branch B is dropped.
RequestFails(o) ==
  LET s == objects[o].body
  IN /\ s # 0 /\ Free(s) /\ Len(streams) < MaxStreams
     /\ streams' = Append(streams, Stream(s))
     /\ objects' = [objects EXCEPT ![o].body = BranchA(s)]
     /\ UNCHANGED <<calls, spoiled>>

\* new Request(o, {body: "..."}): o's own body is not taken and yet marked.
RequestOver(o, t) ==
  LET s == objects[o].body
      ss == IF s = 0 THEN streams ELSE Disturb(streams, s)
  IN /\ Room(1) /\ objects[o].kind = "Request"
     /\ streams' = Append(ss, Stream(0))
     /\ objects' = Append(objects, Object("Request", Len(streams) + 1,
                            IF objects[o].list = None THEN t ELSE objects[o].list))
     /\ UNCHANGED <<calls, spoiled>>

\* new Request(o, {body: null}): null counts as a body, so that nothing is taken
\* and the copy shares o's stream, which is then marked.
RequestOverNull(o) ==
  LET s == objects[o].body
  IN /\ Room(0) /\ objects[o].kind = "Request"
     /\ streams' = IF s = 0 THEN streams ELSE Disturb(streams, s)
     /\ objects' = Append(objects, Object("Request", s, objects[o].list))
     /\ spoiled' = IF s = 0 THEN spoiled ELSE spoiled \cup {Roots[s]}
     /\ UNCHANGED calls

(***************************************************************************)
(* fetch(o): the call reads a request of its own, made as above, and sends *)
(* that request's list; sync_headers finds no Headers object in the copy.  *)
(***************************************************************************)
Fetch(o) ==
  LET s == objects[o].body
  IN /\ objects[o].kind = "Request" /\ Free(s)
     /\ Len(calls) < MaxCalls /\ Len(streams) + 2 <= MaxStreams
     /\ streams' = IF s = 0 THEN streams
                   ELSE Disturb(Disturb(Tee(s), BranchA(s)), BranchB(s))
     /\ objects' = [objects EXCEPT ![o].body = BranchA(s)]
     /\ calls' = Append(calls, [Reading(0, BranchB(s), objects[o].list)
                                  EXCEPT !.shown = Visible(o)])
     /\ UNCHANGED spoiled

\* fetch(o, {body: null}): o's own stream is read, whatever its state.
FetchNull(o) ==
  LET s == objects[o].body
  IN /\ objects[o].kind = "Request" /\ s # 0 /\ Len(calls) < MaxCalls
     /\ streams' = Disturb(streams, s)
     /\ calls' = Append(calls, [Reading(0, s, objects[o].list) EXCEPT !.shown = Visible(o)])
     /\ spoiled' = spoiled \cup {Roots[s]}
     /\ UNCHANGED objects

Next ==
  \/ \E k \in {"Request", "Response"}, t \in Types : NewObject(k, t)
  \/ \E o \in DOMAIN objects :
       \/ BodyGetter(o) \/ GetReader(o) \/ CancelBody(o)
       \/ Clone(o) \/ RequestFrom(o) \/ RequestWith(o) \/ RequestFails(o) \/ RequestOverNull(o)
       \/ Fetch(o) \/ FetchNull(o)
       \/ \E form \in BOOLEAN : Consume(o, form)
       \/ \E t \in Types : SetHeader(o, t) \/ RequestOver(o, t)
  \/ \E s \in DOMAIN streams : ReleaseLock(s) \/ ReaderRead(s) \/ CancelReader(s)
  \/ \E c \in DOMAIN calls : ConsumeStep(c)

Spec == Init /\ [][Next]_vars

(***************************************************************************)
(* Properties.                                                             *)
(***************************************************************************)
TypeOK ==
  /\ \A s \in DOMAIN streams :
       /\ streams[s].parent \in 0..(s - 1) /\ streams[s].given \in 0..Blocks
       /\ streams[s].buf \in Seq(1..Blocks)
       /\ {streams[s].disturbed, streams[s].locked, streams[s].reader, streams[s].cut} \subseteq BOOLEAN
  /\ \A o \in DOMAIN objects :
       /\ {objects[o].body, objects[o].body_js} \subseteq 0..Len(streams)
       /\ {objects[o].list, objects[o].headers_js} \subseteq Types \cup {None}
  /\ \A c \in DOMAIN calls : calls[c].stream \in 0..Len(streams) /\ calls[c].got \in Seq(1..Blocks)
  /\ spoiled \subseteq DOMAIN streams

\* What a stream that is read to its end still gives: its buffer, then its parents'.
Remaining == LET rem[s \in DOMAIN streams] ==
                   streams[s].buf \o
                   (IF streams[s].parent # 0 THEN rem[streams[s].parent]
                    ELSE [i \in 1..(Blocks - streams[s].given) |-> streams[s].given + i])
             IN rem

All == [i \in 1..Blocks |-> i]

\* A consumption has the blocks in order from the first, and when it ends it has the whole
\* body, unless the script cancelled its stream meanwhile; a body that is not yet used is
\* still whole and can be read. So it is however often bodies were cloned or passed on,
\* whichever branch was read first and whatever became of the other branches, but for
\* trees in which the script went past the checks: a reader after releaseLock(), a read or
\* cancel() of a stream object of before clone(), or body: null.
WholeBody ==
  /\ TypeOK
  /\ \A c \in DOMAIN calls :
       calls[c].stream # 0 /\ Roots[calls[c].stream] \notin spoiled
         => /\ calls[c].got \o Remaining[calls[c].stream] = All
            /\ calls[c].done => calls[c].got = All \/ streams[calls[c].stream].cut
  /\ \A o \in DOMAIN objects :
       objects[o].body # 0 /\ ~Used(o) /\ Roots[objects[o].body] \notin spoiled
         => Remaining[objects[o].body] = All /\ ~streams[objects[o].body].cut

\* An object's body is consumed once: of text(), json() ... only the first call is
\* served, however the body was replaced in between.
ConsumedOnce ==
  \A c, d \in DOMAIN calls :
    c # d /\ calls[c].object = calls[d].object => calls[c].object = 0

\* bodyUsed stays true: cloning, passing on or a failed construction never gives a
\* used body back.
UsedIsForGood == [][\A o \in DOMAIN objects : Used(o) => Used(o)']_vars

\* docs/fetch_design.md:49: the edits made through r.headers are part of the request.
HeadersSent == \A c \in DOMAIN calls : calls[c].sent = calls[c].shown

=============================================================================

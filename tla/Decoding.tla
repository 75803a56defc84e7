------------------------------ MODULE Decoding ------------------------------
(***************************************************************************)
(* The body of a response as include/fetch/middleware.hpp reads it: the    *)
(* network's blocks, a DecompressSource over them when the response is     *)
(* coded, an IntegritySource over that when the request asked for one.     *)
(*                                                                         *)
(* A coded body is the sequence Ends: the first i input symbols decode to  *)
(* Ends[i] bytes, and the last symbol ends the stream. The decoder itself  *)
(* (zlib, brotli) is external: it takes symbols in order and may hold      *)
(* bytes that did not fit the caller's buffer. Bytes are counted, not      *)
(* spelled out: decoders write them in order, so that a count stands for a *)
(* prefix.                                                                 *)
(***************************************************************************)
EXTENDS Naturals, Sequences, FiniteSets, FiniteSetsExt

CONSTANTS Ends,       \* where the bytes of each symbol end
          Trailing,   \* symbols after the end of the stream
          MaxChunk,   \* DecompressSource::kMaxChunk
          Limits      \* values of max_decompressed_bytes, 0 for none

N == Len(Ends)

ASSUME DecodingAssumption ==
  /\ Ends \in Seq(Nat) /\ N > 0 /\ Trailing \in Nat /\ MaxChunk \in Nat \ {0}
  /\ \A i, j \in 1..N : i <= j => Ends[i] <= Ends[j]
  /\ Limits \subseteq Nat

VARIABLES
  limit,               \* DecompressSource::total_limit_
  coded, integrity,    \* which sources wrap the network's
  reading,             \* of the reader: "none", "idle", "upstream", "done", "error"
  fed, taken,          \* symbols the network gave, symbols the decoder took
  held,                \* bytes the decoder could not write yet
  eof_upstream, stream_end,
  got                  \* bytes returned so far

dvars == <<limit, coded, integrity, reading, fed, taken, held, eof_upstream, stream_end, got>>

Integrities == {"none", "match", "mismatch"}

\* Bytes of the first i symbols.
Decoded(i) == IF i = 0 THEN 0 ELSE Ends[IF i < N THEN i ELSE N]

Whole == Decoded(N)

DInit ==
  /\ limit \in Limits
  /\ coded = FALSE /\ integrity = "none" /\ reading = "none"
  /\ fed = 0 /\ taken = 0 /\ held = 0 /\ eof_upstream = FALSE /\ stream_end = FALSE /\ got = 0

\* The response is handed to the reader with the sources that its headers and its request
\* call for.
Open(c, k) ==
  /\ reading = "none" /\ reading' = "idle"
  /\ coded' = c /\ integrity' = k
  /\ UNCHANGED <<limit, fed, taken, held, eof_upstream, stream_end, got>>

-----------------------------------------------------------------------------
\* pump_zlib(), pump_brotli(): symbols are decoded until none is left or a chunk is full;
\* with no symbol at hand the decoder is not called, whatever it holds.
Pump(f) ==
  IF stream_end \/ taken = f THEN [taken |-> taken, held |-> held, out |-> 0, end |-> stream_end]
  ELSE LET avail(i) == held + Decoded(i) - Decoded(taken)
           last == IF f < N THEN f ELSE N
           full == {i \in taken..last : avail(i) >= MaxChunk}
           to   == IF full = {} THEN last ELSE Min(full)
           out  == IF avail(to) < MaxChunk THEN avail(to) ELSE MaxChunk
       IN [taken |-> to, held |-> avail(to) - out, out |-> out,
           end |-> to = N /\ avail(to) = out]

\* Fault: the decoder is given up on at the end of the network's body, finished or not.
MutantAfter(f, eof) ==
  LET p == Pump(f)
      rest == IF p.end THEN 0 ELSE f - p.taken
  IN IF p.out > 0 THEN IF limit # 0 /\ got + p.out > limit THEN "error" ELSE "block"
     ELSE IF eof /\ rest = 0 THEN "done"
     ELSE IF eof THEN "error" ELSE "pull"

\* What one round of DecompressSource::read() comes to, with f symbols fed.
After(f, eof) ==
  LET p == Pump(f)
      rest == IF p.end THEN 0 ELSE f - p.taken
  IN IF p.out > 0 THEN IF limit # 0 /\ got + p.out > limit THEN "error" ELSE "block"
     ELSE IF eof /\ rest = 0 THEN IF p.end THEN "done" ELSE "error"
     ELSE IF eof THEN "error" ELSE "pull"

\* IntegritySource::read(): the digest of everything returned is compared at the end.
Checked(o) ==
  IF o = "done" /\ integrity # "none" /\ (integrity = "mismatch" \/ got # Whole)
  THEN "error" ELSE o

Outcome(o) ==
  reading' = CASE o = "block" -> "idle" [] o = "pull" -> "upstream" [] OTHER -> Checked(o)

Round(f, eof) ==
  LET p == Pump(f) IN
  /\ Outcome(After(f, eof))
  /\ fed' = f /\ eof_upstream' = eof
  /\ taken' = IF p.end THEN f ELSE p.taken
  /\ held' = p.held /\ stream_end' = p.end
  /\ got' = IF After(f, eof) = "block" THEN got + p.out ELSE got

\* The consumer asks for the next block.
ReadBody ==
  /\ reading = "idle"
  /\ IF ~coded \/ (~eof_upstream /\ taken = fed)
     THEN reading' = "upstream" /\ UNCHANGED <<fed, taken, held, eof_upstream, stream_end, got>>
     ELSE Round(fed, eof_upstream)
  /\ UNCHANGED <<limit, coded, integrity>>

\* The network gives a block of one or more symbols.
UpstreamBlock ==
  /\ reading = "upstream"
  /\ \E f \in (fed + 1)..(N + Trailing) :
       IF coded THEN Round(f, FALSE)
       ELSE /\ fed' = f /\ taken' = f /\ got' = Decoded(f) /\ reading' = "idle"
            /\ UNCHANGED <<held, eof_upstream, stream_end>>
  /\ UNCHANGED <<limit, coded, integrity>>

\* The network's body ends, perhaps too early: a body without a length ends with its
\* connection.
UpstreamEnd ==
  /\ reading = "upstream"
  /\ IF coded THEN Round(fed, TRUE)
     ELSE /\ Outcome("done") /\ eof_upstream' = TRUE
          /\ UNCHANGED <<fed, taken, held, stream_end, got>>
  /\ UNCHANGED <<limit, coded, integrity>>

UpstreamError ==
  /\ reading = "upstream" /\ reading' = "error"
  /\ UNCHANGED <<limit, coded, integrity, fed, taken, held, eof_upstream, stream_end, got>>

DNext == ReadBody \/ UpstreamBlock \/ UpstreamEnd \/ UpstreamError

-----------------------------------------------------------------------------
DTypeOK ==
  /\ limit \in Limits /\ coded \in BOOLEAN /\ integrity \in Integrities
  /\ reading \in {"none", "idle", "upstream", "done", "error"}
  /\ fed \in 0..(N + Trailing) /\ taken \in 0..fed /\ held \in Nat
  /\ eof_upstream \in BOOLEAN /\ stream_end \in BOOLEAN /\ got \in Nat

\* A coded body, or one with a digest, is reported complete only when all of it was
\* returned, wherever the connection broke (finish(), IntegritySource::read()).
DoneMeansAll == (reading = "done" /\ (coded \/ integrity # "none")) => got = Whole

\* However the network splits the body, the decoder's bytes are returned in order and once,
\* and never more of them than the limit (DecompressSource::read()).
DecodedOnce ==
  /\ coded => (got + held = Decoded(taken) \/ reading = "error")
  /\ (coded /\ limit # 0) => got <= limit

\* A body that has a valid end, within the limit, is decoded to its end: kMaxChunk bounds
\* a block and nothing else.
CompleteIsDecoded ==
  reading = "error" => \/ ~coded
                       \/ integrity = "mismatch"
                       \/ limit # 0 /\ Whole > limit
                       \/ fed < N
                       \/ ~eof_upstream

\* A body is decoded whole or reported broken: nothing lost, repeated or passed off as
\* complete, and no complete one refused.
DecodedWhole == DoneMeansAll /\ DecodedOnce /\ CompleteIsDecoded

=============================================================================

------------------------------- MODULE HttpRelay ------------------------------
(***************************************************************************)
(* proxy_upgrade of the front door (info_page.rs): the backend's answer to *)
(* an upgrade request is read from a raw connection, in pieces of any      *)
(* size.  A 101 starts a tunnel; any other answer is decoded by its        *)
(* framing and passed on whole; a gateway error or a failure shows the     *)
(* landing page instead.                                                   *)
(*                                                                         *)
(* The stream is a sequence of symbols: the bytes of the body are numbered *)
(* 1, 2, ...; the lines of the framing are negative.                       *)
(***************************************************************************)
EXTENDS Integers, Sequences

CONSTANTS
  MaxBody,      \* bound: bytes of a body
  BodyCap       \* MAX_PROXY_RESPONSE_BYTES

ASSUME HttpRelayAssumption == MaxBody \in Nat /\ BodyCap \in Nat

VARIABLES
  answer,       \* the backend's answer: [kind, size, first]
  stream,       \* what of it has not been read
  cut,          \* the backend hung up early
  at,           \* where the relay is
  buf,          \* read and not consumed
  got           \* what the client gets

relayvars == <<answer, stream, cut, at, buf, got>>

HeadLine == -1
EndOfHead == -2
Crlf == -3
Trailer == -4
Blank == -5
Size(n) == -10 - n

Bytes(a, b) == [i \in 1 .. b - a + 1 |-> a + i - 1]
Chunk(a, b) == IF a > b THEN <<>> ELSE <<Size(b - a + 1)>> \o Bytes(a, b) \o <<Crlf>>

(* What a backend sends; a chunked body comes in two chunks, the first of  *)
(* the given size, and may have a trailer.                                 *)
Sent(r) ==
  <<HeadLine, EndOfHead>> \o
  IF r.kind = "chunked"
  THEN Chunk(1, r.first) \o Chunk(r.first + 1, r.size) \o <<Size(0), Trailer, Blank>>
  ELSE Bytes(1, r.size)

RelayInit ==
  /\ answer \in [kind : {"101", "length", "chunked", "eof", "gateway"},
                 size : 0 .. MaxBody, first : 0 .. MaxBody]
  /\ answer.first <= answer.size
  /\ \E n \in 0 .. Len(Sent(answer)) :
       stream = SubSeq(Sent(answer), 1, n) /\ cut = (n < Len(Sent(answer)))
  /\ at = "dial" /\ buf = <<>> /\ got = <<>>

Reading == at \in {"head", "length", "size", "chunk", "trailer", "eof"}
Over(end) == at' = end /\ UNCHANGED <<answer, stream, cut, buf, got>>

-------------------------------------------------------------------------------
(* proxy_upgrade: the request, its body within the cap, is written to the  *)
(* backend, or the backend cannot be reached in time.                      *)
proxy_upgrade ==
  /\ at = "dial" /\ at' \in {"head", "late"}
  /\ UNCHANGED <<answer, stream, cut, buf, got>>

(* What has been read does not suffice for the next piece.                 *)
chunk_size == -10 - Head(buf)
Short ==
  CASE at = "head" -> \A i \in DOMAIN buf : buf[i] # EndOfHead
    [] at = "length" -> Len(buf) < answer.size
    [] at = "chunk" -> Len(buf) - 1 < chunk_size + 1
    [] at \in {"size", "trailer"} -> buf = <<>>
    [] OTHER -> TRUE

(* read_some, and the reads of read_response_head.                         *)
read_some(n) ==
  /\ Reading /\ Short /\ n \in 1 .. Len(stream)
  /\ buf' = buf \o SubSeq(stream, 1, n) /\ stream' = SubSeq(stream, n + 1, Len(stream))
  /\ UNCHANGED <<answer, cut, at, got>>

(* read_response_head: what was read past the head is the start of the     *)
(* body.  With a bug it is lost.                                           *)
LeftoverLost(b) == <<>>
Leftover(b) == LET i == CHOOSE i \in DOMAIN b : b[i] = EndOfHead IN SubSeq(b, i + 1, Len(b))

(* should_fall_back, and which framing read_response_body decodes.         *)
AfterHead ==
  CASE answer.kind = "101" -> "tunnel" [] answer.kind = "gateway" -> "landing"
    [] answer.kind = "chunked" -> "size" [] OTHER -> answer.kind

read_response_head ==
  /\ at = "head" /\ ~Short
  /\ buf' = Leftover(buf) /\ at' = AfterHead
  /\ UNCHANGED <<answer, stream, cut, got>>

(* copy the leftover, then copy_bidirectional.                             *)
Tunnel ==
  /\ at = "tunnel" /\ buf \o stream # <<>>
  /\ IF buf # <<>>
     THEN got' = got \o buf /\ buf' = <<>> /\ UNCHANGED stream
     ELSE got' = Append(got, Head(stream)) /\ stream' = Tail(stream) /\ UNCHANGED buf
  /\ UNCHANGED <<answer, cut, at>>

(* read_response_body with a Content-Length.                               *)
LengthRead ==
  /\ at = "length" /\ ~Short
  /\ at' = "whole" /\ got' = SubSeq(buf, 1, answer.size)
  /\ UNCHANGED <<answer, stream, cut, buf>>

(* take_line for a chunk's size, then its payload with the CRLF.           *)
SizeLine ==
  /\ at = "size" /\ ~Short
  /\ at' = CASE chunk_size = 0 -> "trailer"
             [] chunk_size # 0 /\ Len(got) + chunk_size > BodyCap -> "landing"
             [] OTHER -> "chunk"
  /\ buf' = IF at' = "chunk" THEN buf ELSE Tail(buf)
  /\ UNCHANGED <<answer, stream, cut, got>>

ChunkRead ==
  /\ at = "chunk" /\ ~Short
  /\ got' = got \o SubSeq(buf, 2, chunk_size + 1)
  /\ buf' = SubSeq(buf, chunk_size + 3, Len(buf))
  /\ at' = "size" /\ UNCHANGED <<answer, stream, cut>>

TrailerLine ==
  /\ at = "trailer" /\ ~Short
  /\ at' = (IF Head(buf) = Blank THEN "whole" ELSE at) /\ buf' = Tail(buf)
  /\ UNCHANGED <<answer, stream, cut, got>>

(* The stream ends.                                                        *)
Eof ==
  /\ Reading /\ Short /\ stream = <<>>
  /\ IF at = "eof" THEN at' = "whole" /\ got' = buf /\ UNCHANGED <<answer, stream, cut, buf>>
     ELSE Over("landing")

(* One of the deadlines passes.                                            *)
Deadline == Reading /\ Over("late")

RelayNext ==
  \/ \E n \in 1 .. Len(stream) : read_some(n)
  \/ proxy_upgrade \/ read_response_head \/ Tunnel \/ LengthRead \/ SizeLine \/ ChunkRead \/ TrailerLine
  \/ Eof \/ Deadline

RelaySpec == RelayInit /\ [][RelayNext]_relayvars

-------------------------------------------------------------------------------
(* However the stream is cut into reads, a client gets the backend's bytes *)
(* in order and none of the framing; an answer passed on as whole is       *)
(* whole; and only a gateway error, an early end, a body over the cap or a *)
(* deadline shows the landing page.                                        *)
RelayIsExact ==
  /\ \A i \in DOMAIN got : got[i] = i
  /\ at = "whole" /\ answer.kind # "eof" => Len(got) = answer.size
  /\ at = "whole" /\ ~cut => Len(got) = answer.size
  /\ at = "landing" => cut \/ answer.kind = "gateway" \/ answer.size > BodyCap
===============================================================================

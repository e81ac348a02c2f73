-------------------------------- MODULE LogTail -------------------------------
(***************************************************************************)
(* A worker's log: capture_stream drains stdout and stderr, chunk by       *)
(* chunk, into the worker's ring (worker.rs), and malkuth_logs pages the   *)
(* ring within a line window and a byte budget (mcp.rs).                   *)
(*                                                                         *)
(* A line is its length in bytes, the terminator not counted.  A chunk     *)
(* with several newlines is several reads here: only the ring is shared.   *)
(***************************************************************************)
EXTENDS Integers, Sequences, FiniteSetsExt

CONSTANTS
  Stream,      \* the pipes of the child
  Piece,       \* lengths a read may return between newlines
  LineMax,     \* LOG_LINE_MAX_BYTES
  RingCap,     \* LOG_RING_CAPACITY
  Ellipsis,    \* bytes of the truncation mark
  Reserve,     \* LOG_MARKER_RESERVE
  LinesMax,    \* LOGS_MAX_LINES
  MinBytes, MaxBytes,   \* LOGS_MIN_BYTES and LOGS_MAX_BYTES
  Budgets,     \* values of max_bytes a caller passes
  MaxLogged    \* bound: lines the child writes

ASSUME LogTailAssumption ==
  /\ Piece \subseteq Nat /\ LineMax \in Nat \ {0} /\ RingCap \in Nat \ {0} /\ Ellipsis \in Nat
  /\ LinesMax \in Nat \ {0} /\ Budgets \subseteq Nat
  /\ MinBytes \in Nat /\ MaxBytes \in Nat /\ MinBytes <= MaxBytes
  /\ Reserve \in Nat /\ Reserve >= 5  \* the widest marker
  /\ MinBytes >= Reserve + 2           \* the widest character

VARIABLES
  ring,        \* the lines held, oldest first
  line,        \* line[s]: bytes of the unfinished line
  overran,     \* overran[s]: truncated
  said,        \* said[s]: history, what the child wrote of that line
  logged       \* history: the lines the child finished, in order

logvars == <<ring, line, overran, said, logged>>

LogInit ==
  /\ ring = <<>> /\ logged = <<>>
  /\ line = [s \in Stream |-> 0] /\ said = [s \in Stream |-> 0]
  /\ overran = [s \in Stream |-> FALSE]

Least(a, b) == IF a < b THEN a ELSE b
LastOf(q, n) == SubSeq(q, Len(q) - Least(n, Len(q)) + 1, Len(q))

(* deposit: what fits of the piece, and whether it overran.  With a bug, a *)
(* line that just fills the buffer counts as cut.                          *)
depositFull(s, n) ==
  /\ line' = [line EXCEPT ![s] = Least(LineMax, @ + n)]
  /\ overran' = [overran EXCEPT ![s] = @ \/ line[s] + n >= LineMax]
deposit(s, n) ==
  /\ line' = [line EXCEPT ![s] = Least(LineMax, @ + n)]
  /\ overran' = [overran EXCEPT ![s] = @ \/ (n > 0 /\ line[s] + n > LineMax)]

Read(s, n) ==
  /\ n > 0 /\ said[s] <= LineMax
  /\ Len(logged) < MaxLogged
  /\ deposit(s, n)
  /\ said' = [said EXCEPT ![s] = @ + n]
  /\ UNCHANGED <<ring, logged>>

(* WorkerLogRing::insert.                                                  *)
insert(l) == ring' = Append(IF Len(ring) = RingCap THEN Tail(ring) ELSE ring, l)

(* flush_line, on a newline or at the end of the stream.                   *)
flush_line(s) ==
  /\ Len(logged) < MaxLogged
  /\ IF line[s] = 0 /\ ~overran[s]
     THEN UNCHANGED ring
     ELSE insert(line[s] + IF overran[s] THEN Ellipsis ELSE 0)
  /\ line' = [line EXCEPT ![s] = 0] /\ overran' = [overran EXCEPT ![s] = FALSE]
  /\ said' = [said EXCEPT ![s] = 0]
  /\ logged' = IF said[s] = 0 THEN logged ELSE Append(logged, said[s])

LogNext == \E s \in Stream : flush_line(s) \/ \E n \in Piece : Read(s, n)

LogSpec == LogInit /\ [][LogNext]_logvars

-------------------------------------------------------------------------------
(* The omission marker; the widths of its two numbers vary.                *)
Digits(n) == IF n < 4 THEN 1 ELSE 2
Marker(lines, bytes) == 1 + Digits(lines) + Digits(bytes)

(* The bytes of the last n lines of q, joined by newlines, as the loop     *)
(* adds them up from the end; and so of the lines from i on.               *)
Sizes(q) ==
  LET size[n \in 0 .. Len(q)] ==
        IF n = 0 THEN 0
        ELSE size[n - 1] + q[Len(q) - n + 1] + IF n > 1 THEN 1 ELSE 0
  IN size
Joined(q, i) == IF i \in DOMAIN q THEN Sizes(q)[Len(q) - i + 1] ELSE 0

(* The first character boundary at or after cut, with characters of w      *)
(* bytes.                                                                  *)
Boundary(cut, w) == w * ((cut + w - 1) \div w)

body_budget_whole(max_bytes) == max_bytes
body_budget(max_bytes) == max_bytes - Reserve

(* page_logs: whole lines from the end while they fit; if none does, the   *)
(* tail of the newest one.  The marker fits its reserve, so the splice     *)
(* returns in its first round.                                             *)
page_logs(all, max_lines, max_bytes, w) ==
  LET window == LastOf(all, max_lines)
      room == body_budget(max_bytes)
      kept_from == Least(Len(window),
                         Min({i \in 1 .. Len(window) + 1 : Joined(window, i) <= room}))
      body == Joined(window, kept_from)
      lines == IF window = <<>> THEN 0 ELSE Len(window) - kept_from + 1
      cut == IF body > room THEN Least(body, Boundary(body - room, w)) ELSE 0
      omitted == Len(all) - lines
      marker == IF omitted > 0 \/ cut > 0 THEN Marker(omitted, cut) ELSE 0
  IN [lines |-> lines, omitted_lines |-> omitted, omitted_bytes |-> cut,
      text |-> body - cut, bytes |-> marker + body - cut]

(* logs_payload clamps what the caller asks for and pages the whole ring.  *)
Clamp(n, low, high) == IF n < low THEN low ELSE Least(n, high)
logs_payload(lines, max_bytes, w) ==
  page_logs(ring, Clamp(lines, 1, LinesMax), Clamp(max_bytes, MinBytes, MaxBytes), w)

-------------------------------------------------------------------------------
(* The ring holds the newest lines, in the order they were finished, each  *)
(* cut and marked exactly when it was longer than the limit, however the   *)
(* pipes were cut into reads and the two streams interleaved.              *)
RingIsTail ==
  LET Kept(n) == IF n > LineMax THEN LineMax + Ellipsis ELSE n IN
  ring = LastOf([i \in DOMAIN logged |-> Kept(logged[i])], RingCap)

(* A page stays within the clamped max_bytes, marker included, always      *)
(* shows something of the newest line, and leaves out a line only when the *)
(* line window or the byte budget has no room for it (the contract of      *)
(* LogPage).                                                               *)
PageIsNewest ==
  \A lines \in 0 .. LinesMax + 1, asked \in Budgets, w \in 1 .. 2 :
    LET p == logs_payload(lines, asked, w)
        max_bytes == Clamp(asked, MinBytes, MaxBytes)
    IN
    /\ p.bytes <= max_bytes
    /\ ring # <<>> => p.text > 0
    /\ p.omitted_bytes > 0 => p.lines = 1
    /\ p.omitted_lines > 0 =>
         \/ p.lines = Clamp(lines, 1, LinesMax)
         \/ Joined(ring, p.omitted_lines) > max_bytes - Reserve
===============================================================================

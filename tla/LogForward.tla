------------------------------- MODULE LogForward -----------------------------
(***************************************************************************)
(* log_forward.rs: the task that drains one stream of a pod, keeps its     *)
(* newest lines for the info page and re-emits them to tracing within a    *)
(* rate, counting what it drops.                                           *)
(*                                                                         *)
(* A line is blank, short, longer than MAX_LOG_LINE_BYTES, or longer with  *)
(* a character across that byte ("split").  Time passes in seconds.        *)
(***************************************************************************)
EXTENDS Naturals

CONSTANTS
  RateLimit,      \* RATE_LIMIT_PER_SEC
  SummaryEvery,   \* SUMMARY_EVERY
  RingMax,        \* RING_MAX_LINES
  MaxPodLines,    \* bound: lines the pod writes
  MaxSeconds      \* bound: the clock

VARIABLES
  reader,         \* "reading", "ended" with the stream, or "panicked"
  clock,
  rate,           \* [start, count]: the rate limiter's window
  dropped,        \* dropped_since_summary
  last_summary,
  held,           \* lines in runtime_log
  seen, emitted, summed   \* history: lines read, emitted, and in a summary

fwdvars == <<reader, clock, rate, dropped, last_summary, held, seen, emitted, summed>>

ForwardInit ==
  /\ reader = "reading" /\ clock = 0
  /\ rate = [start |-> 0, count |-> 0]
  /\ dropped = 0 /\ last_summary = 0 /\ held = 0
  /\ seen = 0 /\ emitted = 0 /\ summed = 0

(* The window a line read now falls into.                                  *)
Window == IF clock - rate.start >= 1 THEN [start |-> clock, count |-> 0] ELSE rate

Emit ==
  /\ Window.count < RateLimit
  /\ rate' = [Window EXCEPT !.count = @ + 1]
  /\ emitted' = emitted + 1
  /\ UNCHANGED <<dropped, last_summary, summed>>

(* A dropped line is counted, and the count reported now and then; with a  *)
(* bug, the report does not start a new count.                             *)
ShedKeeps ==
  /\ Window.count >= RateLimit /\ rate' = Window
  /\ dropped' = dropped + 1
  /\ IF clock - last_summary >= SummaryEvery
     THEN summed' = summed + dropped + 1 /\ last_summary' = clock
     ELSE UNCHANGED <<summed, last_summary>>
  /\ UNCHANGED emitted
Shed ==
  /\ Window.count >= RateLimit /\ rate' = Window
  /\ IF clock - last_summary >= SummaryEvery
     THEN summed' = summed + dropped + 1 /\ dropped' = 0 /\ last_summary' = clock
     ELSE dropped' = dropped + 1 /\ UNCHANGED <<summed, last_summary>>
  /\ UNCHANGED emitted

(* One turn of the loop with a line.  A blank one is skipped; String's     *)
(* truncate panics inside a character, and the task is gone.               *)
Line(kind) ==
  /\ reader = "reading" /\ seen < MaxPodLines
  /\ CASE kind = "blank" -> UNCHANGED <<reader, rate, dropped, last_summary, held, seen, emitted, summed>>
       [] kind = "split" -> /\ reader' = "panicked"
                            /\ UNCHANGED <<rate, dropped, last_summary, held, seen, emitted, summed>>
       [] OTHER -> /\ held' = IF held = RingMax THEN held ELSE held + 1
                   /\ seen' = seen + 1
                   /\ Emit \/ Shed
                   /\ UNCHANGED reader
  /\ UNCHANGED clock

(* The stream closes: the final summary.                                   *)
Close ==
  /\ reader = "reading" /\ reader' = "ended"
  /\ summed' = summed + dropped /\ dropped' = 0
  /\ UNCHANGED <<clock, rate, last_summary, held, seen, emitted>>

Second ==
  /\ reader = "reading" /\ clock < MaxSeconds /\ clock' = clock + 1
  /\ UNCHANGED <<reader, rate, dropped, last_summary, held, seen, emitted, summed>>

ForwardNext == Close \/ Second \/ \E k \in {"blank", "short", "long", "split"} : Line(k)
ForwardSpec == ForwardInit /\ [][ForwardNext]_fwdvars

-------------------------------------------------------------------------------
(* When the stream has ended, every line was either emitted or counted in  *)
(* exactly one summary.                                                    *)
DropsAreReported ==
  reader = "ended" => seen = emitted + summed

(* The robustness contract at the head of the file: the reader never stops *)
(* draining while the stream is open.                                      *)
NeverStopsDraining ==
  reader # "panicked"
===============================================================================

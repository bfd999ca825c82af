----------------------------- MODULE AccessLog ------------------------------
(***************************************************************************)
(* The access log (logger.go): handlers send their lines over the bounded  *)
(* channel logChan to one goroutine that appends them to a file per day.   *)
(*                                                                         *)
(* Lines are not told apart: the channel is known by the number of lines   *)
(* in it.  Of the last line's time only its day matters, and only whether  *)
(* it is the present one, so that the calendar needs no bound.  Midnight   *)
(* may fall between any two of the goroutine's readings of the clock.      *)
(***************************************************************************)
EXTENDS Integers

CONSTANT
  Cap      \* capacity of logChan (10000)

ASSUME LogAssumption == Cap \in Nat \ {0}

VARIABLES
  logChan,     \* number of lines in the channel
  lpc,         \* where the logging goroutine is
  lastLogging, \* the last line was written today
  logFile      \* logFile is not nil

logVars == <<logChan, lpc, lastLogging, logFile>>

LogTypeOK ==
  /\ logChan \in 0..Cap
  /\ lpc \in {"select", "open", "write"}
  /\ lastLogging \in BOOLEAN
  /\ logFile \in BOOLEAN

LogInit ==
  /\ logChan = 0
  /\ lpc = "select"
  /\ lastLogging = FALSE
  /\ logFile = FALSE

\* Mutant: the channel is not bounded.
writeToLog_Unbounded ==
  /\ logChan' = logChan + 1
  /\ UNCHANGED <<lpc, lastLogging, logFile>>

\* The send blocks while the channel is full.
writeToLog ==
  /\ logChan < Cap
  /\ logChan' = logChan + 1
  /\ UNCHANGED <<lpc, lastLogging, logFile>>

\* A line arrives; is it the first of its day?
LogReceive ==
  /\ lpc = "select"
  /\ logChan > 0
  /\ logChan' = logChan - 1
  /\ lpc' = IF lastLogging THEN "write" ELSE "open"
  /\ UNCHANGED <<lastLogging, logFile>>

\* The old file is closed and the one of the day opened ...
LogOpen ==
  /\ lpc = "open"
  /\ logFile' = TRUE
  /\ lpc' = "write"
  /\ UNCHANGED <<logChan, lastLogging>>

\* Mutant: the day counts as begun although its file could not be opened.
LogOpenFails_Stamp ==
  /\ lpc = "open"
  /\ logFile' = FALSE
  /\ lastLogging' = TRUE
  /\ lpc' = "select"
  /\ UNCHANGED logChan

\* ... which may fail: the line is dropped, and the next one tries again.
LogOpenFails ==
  /\ lpc = "open"
  /\ logFile' = FALSE
  /\ lpc' = "select"
  /\ UNCHANGED <<logChan, lastLogging>>

\* The day is noted and the line written; an error of WriteString is reported
\* and the line is lost.
LogWrite ==
  /\ lpc = "write"
  /\ lastLogging' = TRUE
  /\ lpc' = "select"
  /\ UNCHANGED <<logChan, logFile>>

\* Midnight (the clock is not the program's).
NextDay ==
  /\ lastLogging
  /\ lastLogging' = FALSE
  /\ UNCHANGED <<logChan, lpc, logFile>>

LogStep == LogReceive \/ LogOpen \/ LogOpenFails \/ LogWrite

-----------------------------------------------------------------------------
\* Whatever midnights and failures come in between, the goroutine never writes
\* to a file that it could not open: such a line would be lost, and so would all
\* the others of that day.
NeverNilFile == lpc = "write" => logFile
=============================================================================

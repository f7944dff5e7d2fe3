--------------------------- MODULE ConfigurationLog -------------------------
(***************************************************************************)
(* What a project's configuration store promises: revisions are numbered   *)
(* without gaps, a revision's settings never change, and every write that  *)
(* was acknowledged and every snapshot that was frozen names the settings  *)
(* of its revision.  Who writes, how often an update is tried and which    *)
(* answers are lost is not visible here.                                   *)
(***************************************************************************)
EXTENDS Naturals, Sequences

CONSTANT Settings        \* what a configuration can say

VARIABLES log,           \* the settings of revision 1, 2, ...
          acked,         \* <<revision, settings>> reported to a writer as written
          frozen         \* <<revision, settings>> that a snapshot pins

logVars == <<log, acked, frozen>>

LogInit == log = <<>> /\ acked = {} /\ frozen = {}

Commit ==
    /\ \E s \in Settings : log' = Append(log, s)
    /\ UNCHANGED frozen
    /\ acked' \in {acked, acked \union {<<Len(log'), log'[Len(log')]>>}}

Acknowledge ==
    /\ \E r \in 1 .. Len(log) : acked' = acked \union {<<r, log[r]>>}
    /\ UNCHANGED <<log, frozen>>

Freeze ==
    /\ \E r \in 1 .. Len(log) : frozen' = frozen \union {<<r, log[r]>>}
    /\ UNCHANGED <<log, acked>>

LogNext == Commit \/ Acknowledge \/ Freeze

LogSpec == LogInit /\ [][LogNext]_logVars
=============================================================================

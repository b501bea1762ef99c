------------------------------- MODULE SealedLog -------------------------------
(***************************************************************************)
(* What the genesis store promises, without its two files: one log that    *)
(* grows an entry at a time, and a server that opens on it only while it   *)
(* holds everything a finished append acknowledged.  The log may be cut    *)
(* back behind the server's back while nothing serves; it may then not be  *)
(* served, or added to, until what was acknowledged is there again.        *)
(***************************************************************************)
EXTENDS Naturals, Sequences

VARIABLES
    log,      \* what the entries say, in order
    acked,    \* the log as of the last acknowledged append
    serving   \* a server is open on it

logVars == <<log, acked, serving>>

Begins(p, q) == Len(p) <= Len(q) /\ \A i \in 1..Len(p) : p[i] = q[i]
Holds == Begins(acked, log)

LogInit == log = <<>> /\ acked = <<>> /\ serving = FALSE

Grow ==
    /\ Holds
    /\ Len(log') = Len(log) + 1 /\ Begins(log, log')
    /\ UNCHANGED <<acked, serving>>

Acknowledge == Holds /\ acked' = log /\ UNCHANGED <<log, serving>>

CutBack ==
    /\ ~serving
    /\ Len(log') < Len(log) /\ Begins(log', log)
    /\ UNCHANGED <<acked, serving>>

Open == ~serving /\ Holds /\ serving' = TRUE /\ UNCHANGED <<log, acked>>
Close == serving /\ serving' = FALSE /\ UNCHANGED <<log, acked>>

LogNext == Grow \/ Acknowledge \/ CutBack \/ Open \/ Close

LogSpec == LogInit /\ [][LogNext]_logVars
===============================================================================

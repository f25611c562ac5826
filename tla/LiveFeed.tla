------------------------------ MODULE LiveFeed ------------------------------
(***************************************************************************)
(* What a hosted server promises about its messages, without its threads:  *)
(* posted messages are kept in a log for good, and each host is sent some  *)
(* of them live, at most once and in the order of the log.  A message may  *)
(* be missing from a feed (its user was offline, looking at another        *)
(* channel, or the process died); it is never missing from the log.        *)
(***************************************************************************)
EXTENDS Integers, Sequences

CONSTANTS
  Hosts,  \* the hosts that are sent updates
  Rows    \* the messages that can be posted, records with a channel_id

VARIABLES
  log,    \* the messages posted, in order
  feed    \* for each host, the places in the log of what it was sent

vars == <<log, feed>>

Init == log = <<>> /\ feed = [h \in Hosts |-> {}]

Post(row) == log' = Append(log, row) /\ UNCHANGED feed

\* Some messages of one channel, all newer than anything the host was sent.
Update(h, S) ==
  /\ S # {}
  /\ \A m \in S, n \in feed[h] : n < m
  /\ \A m, n \in S : log[m].channel_id = log[n].channel_id
  /\ feed' = [feed EXCEPT ![h] = @ \cup S]
  /\ UNCHANGED log

Next ==
  \/ \E row \in Rows : Post(row)
  \/ \E h \in Hosts, S \in SUBSET DOMAIN log : Update(h, S)

Spec == Init /\ [][Next]_vars
=============================================================================

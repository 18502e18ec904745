---------------------------- MODULE MCImapManager ----------------------------
(* Small instances of ImapManager for TLC: what is submitted, by type. *)
EXTENDS ImapManager

CONSTANTS Actions, Requests, ViewPrefetches, FullPrefetches, Searches

MCItems ==
  Actions \cup Requests \cup ViewPrefetches \cup FullPrefetches \cup Searches

MCQueueOf ==
  [i \in MCItems |-> CASE i \in Actions -> "action"
                       [] i \in Requests -> "request"
                       [] i \in ViewPrefetches -> "view"
                       [] i \in FullPrefetches -> "full"
                       [] i \in Searches -> "search"]
=============================================================================

----------------------------- MODULE MCTinyHttpd -----------------------------
(***************************************************************************)
(* Two clients, which may both ask for a script.                           *)
(***************************************************************************)
EXTENDS TinyHttpd

Ask(method, what, length, script) ==
  [method |-> method, what |-> what, length |-> length, script |-> script]

CONSTANTS a, b

(* Every way through the code for one client, a script for the other.  A   *)
(* body of three bytes that is copied, or of two that nobody reads, fills  *)
(* both pipes; one byte less does not.                                     *)
MCRequests == [c \in Clients |->
  IF c = a
    THEN { Ask("other", "file", -1, "absent"),
           Ask("GET", "file", -1, "absent"),
           Ask("GET", "unreadable", -1, "absent"),
           Ask("GET", "missing", -1, "absent"),
           Ask("GET", "script", -1, "writes"),
           Ask("POST", "script", -1, "reads"),
           Ask("POST", "script", 2, "reads"),
           Ask("POST", "script", 2, "copies"),
           Ask("POST", "script", 3, "copies"),
           Ask("POST", "script", 1, "writes"),
           Ask("POST", "script", 2, "writes"),
           Ask("POST", "file", 2, "absent") }
    ELSE { Ask("GET", "script", -1, "writes") }]
==============================================================================

------------------------------ MODULE Exchange ------------------------------
(***************************************************************************)
(* What the command mailbox promises to a client that waits for its answer *)
(* before it sends again: a command that is asked is run once, as it was   *)
(* sent, and then answered to the client that sent it, if that client is   *)
(* still there.                                                            *)
(*                                                                         *)
(* Nothing is promised once a client has disturbed an exchange.            *)
(***************************************************************************)
CONSTANTS Clients, Commands, None

VARIABLES
  open,    \* clients that are there
  phase,   \* "idle", "asked", "ran", "disturbed"
  who,     \* the client of the exchange under way
  what,    \* its command
  ran,     \* the last command that was run
  reply    \* the client that got the last answer

vars == <<open, phase, who, what, ran, reply>>

Init ==
  /\ open = {} /\ phase = "idle"
  /\ who = None /\ what = None /\ ran = None /\ reply = None

Come ==
  /\ phase = "idle"
  /\ \E c \in Clients \ open : open' = open \cup {c}
  /\ UNCHANGED <<phase, who, what, ran, reply>>

Leave ==
  /\ phase # "disturbed"
  /\ \E c \in open : open' = open \ {c}
  /\ UNCHANGED <<phase, who, what, ran, reply>>

Ask ==
  /\ phase = "idle"
  /\ phase' = "asked"
  /\ who' \in open /\ what' \in Commands
  /\ UNCHANGED <<open, ran, reply>>

Run ==
  /\ phase = "asked"
  /\ phase' = "ran"
  /\ ran' = what
  /\ UNCHANGED <<open, who, what, reply>>

Answer ==
  /\ phase = "ran"
  /\ phase' = "idle"
  /\ reply' = IF who \in open THEN who ELSE None
  /\ UNCHANGED <<open, who, what, ran>>

\* A client breaks the rules; all the rest is then unspecified (and hidden).
Disturb ==
  /\ phase # "disturbed"
  /\ phase' = "disturbed" /\ open' = {}
  /\ who' = None /\ what' = None /\ ran' = None /\ reply' = None

Next == Come \/ Leave \/ Ask \/ Run \/ Answer \/ Disturb

Spec == Init /\ [][Next]_vars

\* What was asked is answered, unless the exchange is disturbed.
Answered == phase = "asked" ~> phase \in {"idle", "disturbed"}

=============================================================================

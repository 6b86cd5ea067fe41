------------------------------- MODULE Motor --------------------------------
(***************************************************************************)
(* What class Pump promises about the outputs it drives, for callers that  *)
(* ask for K1, the delta and star/delta starts: a star is driven only for  *)
(* a request, once for each, and gives way before the delta is driven; the *)
(* request is over only when the delta is driven or the motor is cut off.  *)
(*                                                                         *)
(* When any of this happens, and what the contactors and the relay do, is  *)
(* left open.                                                              *)
(***************************************************************************)
VARIABLES
  drive,   \* contactors that are driven: 1 mains, 2 delta, 3 star
  wish     \* star/delta: "none", or what comes next, "to_y" or "to_delta"

vars == <<drive, wish>>

Init == drive = {} /\ wish = "none"

Ask == wish' = "to_y" /\ UNCHANGED drive

\* The mains alone, in a direct start.
Mains == drive' = drive \cup {1} /\ UNCHANGED wish

BreakDelta == wish = "to_y" /\ drive' = drive \ {2} /\ UNCHANGED wish

\* With the mains, unless they seemed to be on.
Star ==
  /\ wish = "to_y" /\ 2 \notin drive
  /\ drive' \in {drive \cup {3}, drive \cup {1, 3}}
  /\ UNCHANGED wish

Arm == wish = "to_y" /\ 3 \in drive /\ wish' = "to_delta" /\ UNCHANGED drive

BreakStar == drive' = drive \ {3} /\ UNCHANGED wish

Delta ==
  /\ 3 \notin drive
  /\ drive' \in {drive \cup {2}, drive \cup {1, 2}}
  /\ UNCHANGED wish

Done == wish = "to_delta" /\ 2 \in drive /\ wish' = "none" /\ UNCHANGED drive

\* A stop, or a start that gives up.
Off == drive' = {} /\ wish' \in {wish, "none"}

Next ==
  \/ Ask \/ Mains \/ BreakDelta \/ Star \/ Arm \/ BreakStar \/ Delta \/ Done
  \/ Off

Spec == Init /\ [][Next]_vars

=============================================================================

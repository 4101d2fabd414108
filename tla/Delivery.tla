------------------------------ MODULE Delivery ------------------------------
(***************************************************************************)
(* What the plugin's connection promises of the messages the backend        *)
(* sends: each is handled once, the oldest first, and nothing is skipped.    *)
(* A caller may wait for a message; until it has come nothing else is        *)
(* handled, and it is the one message that is "taken out of order"           *)
(* (plugin/qbackendconnection.cpp:559).                                      *)
(***************************************************************************)
EXTENDS Naturals, Sequences

CONSTANT Matches(_, _)   \* a message is the one a caller waits for

VARIABLES sent,     \* every message sent so far
          handled,  \* the positions of those that were handled
          waiting,  \* nobody waits, somebody does, or has just got the message
          wanted    \* what is waited for

vars == <<sent, handled, waiting, wanted>>

Init == sent = <<>> /\ handled = {} /\ waiting = "no"

Send ==
  /\ Len(sent') = Len(sent) + 1
  /\ SubSeq(sent', 1, Len(sent)) = sent
  /\ UNCHANGED <<handled, waiting, wanted>>

HandleOldest ==
  /\ waiting = "no"
  /\ \E m \in 1..Len(sent) \ handled :
       /\ 1..(m - 1) \subseteq handled
       /\ handled' = handled \cup {m}
  /\ UNCHANGED <<sent, waiting, wanted>>

StartWait ==
  /\ waiting = "no" /\ waiting' = "yes"
  /\ UNCHANGED <<sent, handled>>

HandleWanted ==
  /\ waiting = "yes" /\ waiting' = "over"
  /\ \E m \in 1..Len(sent) \ handled :
       /\ Matches(sent[m], wanted)
       /\ handled' = handled \cup {m}
  /\ UNCHANGED <<sent, wanted>>

EndWait ==
  /\ waiting = "over" /\ waiting' = "no"
  /\ UNCHANGED <<sent, handled>>

Next == Send \/ HandleOldest \/ StartWait \/ HandleWanted \/ EndWait

Spec == Init /\ [][Next]_vars
=============================================================================

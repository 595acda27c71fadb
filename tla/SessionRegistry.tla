-------------------------- MODULE SessionRegistry ---------------------------
(***************************************************************************)
(* What the auth component promises of sessions, whatever tokens stand for *)
(* them: a session is opened once, by a sign-in of the user it belongs to  *)
(* for ever, and once it is closed it stays closed.                        *)
(***************************************************************************)
CONSTANTS
  Users,
  SessionIds

VARIABLES
  owner,  \* the user of every session ever opened
  open    \* the sessions that can still be used

Init ==
  /\ owner = [s \in {} |-> s]
  /\ open = {}

Open(u, s) ==
  /\ s \notin DOMAIN owner
  /\ owner' = [x \in DOMAIN owner \cup {s} |-> IF x = s THEN u ELSE owner[x]]
  /\ open' = open \cup {s}

\* Logged out, logged out everywhere, expired, deleted or broken off.
Close(S) ==
  /\ open' = open \ S
  /\ UNCHANGED owner

Next ==
  \/ \E u \in Users, s \in SessionIds : Open(u, s)
  \/ \E S \in SUBSET open : Close(S)

Spec == Init /\ [][Next]_<<owner, open>>
=============================================================================

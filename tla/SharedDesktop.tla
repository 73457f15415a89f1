---------------------------- MODULE SharedDesktop -----------------------------
(***************************************************************************)
(* What the client manager promises about the desktop its clients share,   *)
(* without lists, locks and phases.  The first client creates a desktop,   *)
(* later ones are given the same, and only when nobody uses it is it taken *)
(* away.  Its thread may go on for a while, beside a new desktop, and even *)
(* serve the clients of that one; but it serves only clients that use a    *)
(* desktop, and a client that is being served does not leave.              *)
(***************************************************************************)
EXTENDS FiniteSets

CONSTANTS Clients,   \* clients, each of which uses a desktop at most once
          NoClient   \* none; a desktop is named by the client that created it

VARIABLES current,   \* the desktop that clients are given, or NoClient
          living,    \* desktops whose threads are not over
          users,     \* clients that use the current desktop
          former,    \* clients that use or have used one
          serving    \* [Clients -> the client that the desktop is serving]

desktopVars == <<current, living, users, former, serving>>

Init ==
  /\ current = NoClient /\ living = {} /\ users = {} /\ former = {}
  /\ serving = [d \in Clients |-> NoClient]

Create(c) ==
  /\ current = NoClient /\ c \notin former
  /\ current' = c
  /\ living' = living \cup {c}
  /\ users' = users \cup {c} /\ former' = former \cup {c}
  /\ UNCHANGED serving

Share(c) ==
  /\ current # NoClient /\ c \notin former
  /\ users' = users \cup {c} /\ former' = former \cup {c}
  /\ UNCHANGED <<current, living, serving>>

Leave(c) ==
  /\ c \in users /\ \A d \in Clients : serving[d] # c
  /\ users' = users \ {c}
  /\ UNCHANGED <<current, living, former, serving>>

TakeAway ==
  /\ current # NoClient /\ users = {}
  /\ current' = NoClient
  /\ UNCHANGED <<living, users, former, serving>>

Stop(d) ==
  /\ d \in living /\ d # current /\ serving[d] = NoClient
  /\ living' = living \ {d}
  /\ UNCHANGED <<current, users, former, serving>>

Serve(d, c) ==
  /\ d \in living /\ c \in users
  /\ serving[d] = NoClient
  /\ serving' = [serving EXCEPT ![d] = c]
  /\ UNCHANGED <<current, living, users, former>>

Served(d) ==
  /\ serving[d] # NoClient
  /\ serving' = [serving EXCEPT ![d] = NoClient]
  /\ UNCHANGED <<current, living, users, former>>

Next ==
  \/ TakeAway
  \/ \E c \in Clients :
       \/ Create(c) \/ Share(c) \/ Leave(c) \/ Stop(c) \/ Served(c)
       \/ \E d \in Clients : Serve(d, c)

Spec == Init /\ [][Next]_desktopVars
================================================================================

----------------------------- MODULE SingleUse -----------------------------
(***************************************************************************)
(* What the two logins promise, without tokens, tables or clocks: a        *)
(* credential (a bootstrap token or a control plane assertion) is spent in *)
(* the same step that sells its one session, and is never sold again.      *)
(* Sessions implements this specification.                                 *)
(***************************************************************************)
CONSTANTS Credentials, \* what a client may present to log in
          Sessions     \* what a login may hand out

VARIABLES spent,  \* the credentials that no longer log anyone in
          bought  \* pairs <<credential, session>>: who paid for which session

vars == <<spent, bought>>

Init ==
  /\ spent = {}
  /\ bought = {}

(* auth.Manager.Exchange and LoginInstance: one transaction spends the     *)
(* credential and inserts the session.                                     *)
Buy(credential, session) ==
  /\ credential \notin spent
  /\ \A sale \in bought : sale[2] # session
  /\ spent' = spent \cup {credential}
  /\ bought' = bought \cup {<<credential, session>>}

Next == \E credential \in Credentials, session \in Sessions : Buy(credential, session)

Spec == Init /\ [][Next]_vars

(***************************************************************************)
(* Two sessions were never paid for with one credential, one session was   *)
(* never sold twice, and a credential is spent exactly when it bought one. *)
(***************************************************************************)
OneSessionEach ==
  /\ \A one, other \in bought :
        (one[1] = other[1] \/ one[2] = other[2]) => one = other
  /\ spent = {sale[1] : sale \in bought}

=============================================================================

------------------------------ MODULE ReportLog ------------------------------
(***************************************************************************)
(* What the reporter promises to those who read the reports afterwards (a  *)
(* later run of the program, the audit of a deployment): the log only      *)
(* grows, an entry only refers to older entries, a call answers once, its  *)
(* entries are all in the log by then, and an error it answers with has    *)
(* been recorded.                                                          *)
(***************************************************************************)
EXTENDS Naturals, Sequences

CONSTANT Calls

VARIABLES
  log,     \* the entries, each with the fields by, err and children
  answer   \* answer[c]: "none" until c answers

vars == <<log, answer>>

Init ==
  /\ log = <<>>
  /\ answer = [c \in Calls |-> "none"]

(* Call c records an entry. *)
Record(c) ==
  /\ answer[c] = "none"
  /\ Len(log') = Len(log) + 1
  /\ \A i \in 1..Len(log) : log'[i] = log[i]
  /\ LET new == log'[Len(log) + 1]
     IN  /\ new.by = c
         /\ \A k \in DOMAIN new.children : new.children[k] \in 1..Len(log)
  /\ UNCHANGED answer

(* Call c answers. *)
Answer(c) ==
  /\ answer[c] = "none"
  /\ \E a \in {"ok", "err", "notser"} :
       /\ a = "err" => \E i \in 1..Len(log) : log[i].by = c /\ log[i].err
       /\ answer' = [answer EXCEPT ![c] = a]
  /\ UNCHANGED log

Next == \E c \in Calls : Record(c) \/ Answer(c)

Spec == Init /\ [][Next]_vars
=============================================================================

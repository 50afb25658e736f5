---------------------------- MODULE TimelockDelay ----------------------------
(***************************************************************************)
(* CorrectTimelockDelays, which the durable pipeline applies to the        *)
(* proposals of a changeset: the delay of a proposal that is scheduled is  *)
(* raised to what the timelocks of all of its chains require.  They are    *)
(* read by one goroutine each.                                             *)
(***************************************************************************)
EXTENDS Naturals, Sequences, FiniteSetsExt

CONSTANTS Timelocks, \* the chains that have a timelock
          Batches,   \* lists of proposals: [schedule, delay, timelocks], no delay is 0
          Delays,    \* bound: the minimal delays timelocks have
          TooLong    \* a minimal delay that time.Duration does not represent

DelayedProposals == [schedule : BOOLEAN, delay : Nat, timelocks : SUBSET Timelocks]

ASSUME DelayAssumption ==
  /\ IsFiniteSet(Timelocks) /\ Batches \subseteq Seq(DelayedProposals)
  /\ Delays \subseteq Nat /\ TooLong \in Nat \ Delays

Unread == "unread"
Failed == "failed"

VARIABLES given,      \* the proposals as the changeset returned them
          corrected,  \* and as corrected so far
          at,         \* the proposal being corrected
          results,    \* proposal -> chain -> its goroutine's result
          cancelled,  \* the command's context
          dout        \* what was returned

delayVars == <<given, corrected, at, results, cancelled, dout>>

Cur == corrected[at]
Working == dout = "none" /\ at <= Len(corrected)
TimelocksOf(p) == IF p.schedule THEN p.timelocks ELSE {}

\* readTimelockMinDelay and durationFromSeconds: the chain, its inspector or
\* the call fails, or the value is too long.
ReadDelay(s) ==
  /\ results[at][s] = <<Unread>>
  /\ \E v \in Delays \cup {TooLong} :
       \/ results' = [results EXCEPT ![at][s] = <<Failed>>]
       \/ ~cancelled /\ v # TooLong /\ results' = [results EXCEPT ![at][s] = <<"delay", v>>]
  /\ UNCHANGED <<given, corrected, at, cancelled, dout>>

\* A correction returns, with the error that ends the whole or with none.
Returned(err) ==
  /\ IF err THEN dout' = "error" /\ UNCHANGED at ELSE at' = at + 1 /\ UNCHANGED dout
  /\ UNCHANGED <<given, results, cancelled>>

\* Nothing to read.
Nothing ==
  /\ Working /\ TimelocksOf(Cur) = {}
  /\ Returned(Cur.schedule /\ Cur.delay = 0) /\ UNCHANGED corrected

MaxMinDelay == Max({0} \cup {results[at][s][2] : s \in TimelocksOf(Cur)})

\* Mutant: the delay of one chain is taken for all.
CorrectAny ==
  /\ Working /\ TimelocksOf(Cur) # {} /\ \A s \in TimelocksOf(Cur) : results[at][s] # <<Unread>>
  /\ IF cancelled \/ (\E s \in TimelocksOf(Cur) : results[at][s] = <<Failed>>)
     THEN Returned(cancelled \/ Cur.delay = 0) /\ UNCHANGED corrected
     ELSE LET s == CHOOSE c \in TimelocksOf(Cur) : TRUE
          IN corrected' = [corrected EXCEPT ![at].delay = Max({@, results[at][s][2]})] /\ Returned(FALSE)

\* All goroutines are done.  What a failure leaves open is only accepted when
\* the proposal has a delay of its own.
Correct ==
  /\ Working /\ TimelocksOf(Cur) # {} /\ \A s \in TimelocksOf(Cur) : results[at][s] # <<Unread>>
  /\ IF cancelled \/ (\E s \in TimelocksOf(Cur) : results[at][s] = <<Failed>>)
     THEN Returned(cancelled \/ Cur.delay = 0) /\ UNCHANGED corrected
     ELSE IF Cur.delay = 0 /\ MaxMinDelay = 0
          THEN Returned(TRUE) /\ UNCHANGED corrected
          ELSE corrected' = [corrected EXCEPT ![at].delay = Max({@, MaxMinDelay})] /\ Returned(FALSE)

AllCorrected ==
  /\ dout = "none" /\ at > Len(corrected) /\ dout' = "nil"
  /\ UNCHANGED <<given, corrected, at, results, cancelled>>

Cancel ==
  /\ dout = "none" /\ ~cancelled /\ cancelled' = TRUE
  /\ UNCHANGED <<given, corrected, at, results, dout>>

DelayInit(bs) ==
  /\ given \in bs /\ corrected = given /\ at = 1 /\ cancelled = FALSE /\ dout = "none"
  /\ results = [i \in DOMAIN given |-> [s \in given[i].timelocks |-> <<Unread>>]]

DelayNext ==
  \/ Nothing \/ Correct \/ AllCorrected \/ Cancel
  \/ Working /\ \E s \in TimelocksOf(Cur) : ReadDelay(s)

\* When the correction returns without an error, no scheduled proposal is
\* without a delay or has less than it was given, and one whose timelocks
\* could all be read has at least what each of them requires.
DelayEnough ==
  dout = "nil" =>
    \A i \in DOMAIN corrected : corrected[i].schedule =>
      /\ corrected[i].delay > 0 /\ corrected[i].delay >= given[i].delay
      /\ (\A s \in corrected[i].timelocks : results[i][s][1] = "delay") =>
           \A s \in corrected[i].timelocks : corrected[i].delay >= results[i][s][2]
=============================================================================

---------------------------- MODULE Verification ----------------------------
(***************************************************************************)
(* contract verify-env: every EVM contract of an environment is verified   *)
(* at the block explorer of its network, one after the other, by one of    *)
(* ten verifiers of engine/cld/verification/evm.  An explorer is a remote  *)
(* service: a request is answered, refused with an API error, or its       *)
(* answer is lost after it took effect; a submission is decided later.     *)
(***************************************************************************)
EXTENDS Naturals, Sequences, FiniteSets

CONSTANTS MaxPolls,  \* maxVerificationPollAttempts and its likes
          MaxTries,  \* oklinkMaxRetries
          MaxRuns    \* bound: runs of the command

ASSUME VerificationAssumption == {MaxPolls, MaxTries, MaxRuns} \subseteq Nat \ {0}

VARIABLES contracts,     \* the contracts in order: [ref, ex], which never change
          vpc,      \* what the command does next
          cur,      \* the contract being verified, an index into contracts
          polls,    \* polls made, or attempts of a rate-limited request
          total,    \* totalContracts
          failing,  \* failed
          verified, \* external: the contracts the explorers have the sources of
          job,      \* external: contract -> its submission: "none", "pending" or "failed"
          known,    \* history: the contract was verified when it was last asked about
          vcancel,  \* the command's context is cancelled
          vruns,    \* runs of the command made
          vout      \* what the last run returned: "none", "nil" or "error"

verVars == <<contracts, vpc, cur, polls, total, failing, verified, job, known, vcancel, vruns, vout>>

(***************************************************************************)
(* The verifiers.  key: an API key is required to build one; trouble: what *)
(* IsVerified makes of an API error in a good HTTP answer; args: the       *)
(* explorer is asked for the creation input; poll: by the status of the    *)
(* submission, by asking IsVerified again, or not at all; flaky: a poll    *)
(* that fails ends Verify or not; tries: a request refused with HTTP 429   *)
(* is repeated.                                                            *)
(***************************************************************************)
Verifier(key, trouble, args, poll, flaky, tries) ==
  [key |-> key, trouble |-> trouble, args |-> args, poll |-> poll, flaky |-> flaky, tries |-> tries]

Etherscan  == Verifier(TRUE,  "error", TRUE,  "status", "error", FALSE)
Routescan  == Verifier(FALSE, "error", TRUE,  "status", "error", FALSE)
Blockscout == Verifier(FALSE, "no",    TRUE,  "status", "error", FALSE)
BtrScan    == Verifier(TRUE,  "no",    TRUE,  "status", "on",    FALSE)
CoreDAO    == Verifier(TRUE,  "no",    TRUE,  "status", "on",    FALSE)
L2Scan     == Verifier(TRUE,  "no",    TRUE,  "abi",    "error", FALSE)
SocialScan == Verifier(TRUE,  "no",    TRUE,  "abi",    "error", FALSE)
OkLink     == Verifier(TRUE,  "error", FALSE, "status", "error", TRUE)
Sourcify   == Verifier(FALSE, "no",    FALSE, "none",   "error", FALSE)

Unknown == "unknown"

\* GetVerificationStrategyForNetwork: ex is [type, has], what block_explorer
\* configures; "nettype" is a network that is mainnet or testnet.
Strategy(ex) ==
  CASE ex.type \in {"etherscan", "snowtrace"} /\ ex.has \cap {"key", "url"} # {} -> "etherscan"
    [] ex.type \in {"wemixscan", "zircuit"} /\ {"key", "url"} \subseteq ex.has -> "etherscan"
    [] ex.type \in {"blockscout", "sourcify", "btrscan", "coredao", "l2scan"} /\ "url" \in ex.has -> ex.type
    [] ex.type = "routescan" /\ "nettype" \in ex.has -> "routescan"
    [] ex.type \in {"oklink", "socialscan"} /\ "slug" \in ex.has -> ex.type
    [] OTHER -> Unknown

Verifiers == [etherscan |-> Etherscan, routescan |-> Routescan, blockscout |-> Blockscout,
              btrscan |-> BtrScan, coredao |-> CoreDAO, l2scan |-> L2Scan,
              socialscan |-> SocialScan, oklink |-> OkLink, sourcify |-> Sourcify]

V == Verifiers[Strategy(contracts[cur].ex)]

\* runVerifyEnv looks at these contracts: their network has a strategy, they
\* pass the filter, have a version, and the domain knows their sources.
ToVerify(c) == Strategy(contracts[c].ex) # Unknown /\ contracts[c].ref = "ok"

\* NewVerifier fails when the key is missing.
NewVerifier(c) == Verifiers[Strategy(contracts[c].ex)].key => "key" \in contracts[c].ex.has

Stay == UNCHANGED <<contracts, verified, job, known, vcancel, vruns>>
Step(l) == vpc' = l /\ polls' = 0 /\ UNCHANGED <<cur, total, failing, vout>>

\* Verify returned: an error is noted; then the rate limit delay.
Returns(ok) ==
  /\ vpc' = "delay" /\ polls' = 0
  /\ failing' = IF ok THEN failing ELSE failing \cup {cur}
  /\ UNCHANGED <<cur, total, vout>>

\* Networks and datastore are loaded, or the command ends.
Begin ==
  /\ vpc = "idle" /\ vruns < MaxRuns
  /\ vruns' = vruns + 1 /\ cur' = 1 /\ total' = 0 /\ failing' = {} /\ polls' = 0
  /\ vcancel' = FALSE
  /\ \/ vpc' = "next" /\ vout' = "none"
     \/ vpc' = "idle" /\ vout' = "error"
  /\ UNCHANGED <<contracts, verified, job, known>>

SkipRef ==
  /\ vpc = "next" /\ cur <= Len(contracts) /\ ~ToVerify(cur)
  /\ cur' = cur + 1
  /\ UNCHANGED <<vpc, polls, total, failing, vout>> /\ Stay

NextRef ==
  /\ vpc = "next" /\ cur <= Len(contracts) /\ ToVerify(cur)
  /\ total' = total + 1
  /\ IF NewVerifier(cur)
     THEN vpc' = "check" /\ UNCHANGED <<cur, failing>>
     ELSE failing' = failing \cup {cur} /\ cur' = cur + 1 /\ UNCHANGED vpc
  /\ UNCHANGED <<polls, vout>> /\ Stay

\* A request gets no usable answer: not sent, lost, cut or an HTTP error.
\* Only OKLink repeats one, and only after HTTP 429.
RequestFails ==
  /\ vpc \in {"check", "args", "submit"} /\ (vpc = "args" => V.args)
  /\ \/ Returns(FALSE)
     \/ /\ V.tries /\ ~vcancel /\ polls + 1 < MaxTries
        /\ polls' = polls + 1 /\ UNCHANGED <<vpc, cur, total, failing, vout>>
  /\ Stay

\* Verify asks IsVerified first.
Check ==
  /\ vpc = "check" /\ ~vcancel
  /\ known' = (cur \in verified)
  /\ \/ (cur \in verified /\ Returns(TRUE))
     \/ (cur \notin verified /\ Step("args"))
     \/ (IF V.trouble = "error" THEN Returns(FALSE) ELSE Step("args"))
  /\ UNCHANGED <<contracts, verified, job, vcancel, vruns>>

\* getConstructorArgs, where there is one, and SourceCode: the creation input
\* must start with the bytecode (for some), and the sources must be there.
Args ==
  /\ vpc = "args" /\ (V.args => ~vcancel)
  /\ Step("submit") \/ Returns(FALSE)
  /\ Stay

Submitted == job' = [job EXCEPT ![cur] = "pending"] /\ UNCHANGED <<contracts, verified, known, vcancel, vruns>>

\* The explorer takes the submission; Sourcify decides it at once.
Submit ==
  /\ vpc = "submit" /\ ~vcancel /\ V.poll # "none"
  /\ Submitted /\ Step("poll")

SubmitNow ==
  /\ vpc = "submit" /\ ~vcancel /\ V.poll = "none"
  /\ \/ verified' = verified \cup {cur} /\ Returns(TRUE)
     \/ UNCHANGED verified /\ Returns(FALSE)
  /\ UNCHANGED <<contracts, job, known, vcancel, vruns>>

\* ... but its answer is lost.
SubmitLost ==
  /\ vpc = "submit" /\ ~vcancel
  /\ Submitted /\ Returns(FALSE)

\* Mutant: the poll loop has no limit.
PollAgainForever ==
  /\ vpc = "poll" /\ ~vcancel
  /\ UNCHANGED <<vpc, polls, cur, total, failing, vout>> /\ Stay

\* The answer decides nothing, or there is none and the verifier goes on.
PollAgain ==
  /\ vpc = "poll" /\ ~vcancel
  /\ IF polls + 1 < MaxPolls THEN polls' = polls + 1 /\ UNCHANGED <<vpc, cur, total, failing, vout>>
     ELSE Returns(FALSE)
  /\ Stay

\* Mutant: only the API's status is looked at, not the result.
PollOkAny ==
  /\ vpc = "poll" /\ ~vcancel
  /\ IF V.poll = "status" THEN job[cur] # "pending" ELSE cur \in verified
  /\ Returns(TRUE) /\ Stay

PollOk ==
  /\ vpc = "poll" /\ ~vcancel
  /\ IF V.poll = "status" THEN job[cur] = "none" ELSE cur \in verified
  /\ Returns(TRUE) /\ Stay

PollFails ==
  /\ vpc = "poll"
  /\ \/ V.poll = "status" /\ job[cur] = "failed" /\ ~vcancel
     \/ V.flaky = "error" \/ vcancel
  /\ Returns(FALSE) /\ Stay

Delay ==
  /\ vpc = "delay"
  /\ \/ vpc' = "next" /\ cur' = cur + 1 /\ UNCHANGED vout
     \/ vcancel /\ vpc' = "idle" /\ vout' = "error" /\ UNCHANGED cur
  /\ UNCHANGED <<polls, total, failing>> /\ Stay

\* The summary; contracts that failed do not make the command fail.
Summary ==
  /\ vpc = "next" /\ cur > Len(contracts)
  /\ vpc' = "idle" /\ vout' = "nil"
  /\ UNCHANGED <<cur, polls, total, failing>> /\ Stay

\* The explorer compiles: the sources match the contract's code or not.
Decides(c) ==
  /\ job[c] = "pending"
  /\ \/ verified' = verified \cup {c} /\ job' = [job EXCEPT ![c] = "none"]
     \/ UNCHANGED verified /\ job' = [job EXCEPT ![c] = "failed"]
  /\ UNCHANGED <<contracts, vpc, cur, polls, total, failing, known, vcancel, vruns, vout>>

VCancel ==
  /\ vpc # "idle" /\ ~vcancel /\ vcancel' = TRUE
  /\ UNCHANGED <<contracts, vpc, cur, polls, total, failing, verified, job, known, vruns, vout>>

VerInit(rs) ==
  /\ contracts \in rs
  /\ verified \in SUBSET DOMAIN contracts
  /\ vpc = "idle" /\ cur = 1 /\ polls = 0 /\ total = 0 /\ failing = {}
  /\ job = [c \in DOMAIN contracts |-> "none"] /\ known = FALSE /\ vcancel = FALSE
  /\ vruns = 0 /\ vout = "none"

VerStep ==
  \/ SkipRef \/ NextRef \/ RequestFails \/ Check \/ Args \/ Submit \/ SubmitNow
  \/ SubmitLost \/ PollAgain \/ PollOk \/ PollFails \/ Delay \/ Summary

VerNext == VerStep \/ Begin \/ VCancel \/ \E c \in DOMAIN contracts : Decides(c)

\* Any contracts, at any explorers.
VerSpec == VerInit(Seq([ref : STRING, ex : [type : STRING, has : SUBSET STRING]])) /\ [][VerNext]_verVars

\* A run that returned nil has counted every contract in scope, whatever went
\* wrong with the ones before it, and counts as successful only contracts the
\* explorers have verified; before that, the contracts counted so far.
VerifyAccounted ==
  LET seen == {c \in DOMAIN contracts : ToVerify(c) /\ (c < cur \/ (c = cur /\ vpc \in {"check", "args", "submit", "poll", "delay"}))}
      told == {c \in DOMAIN contracts : ToVerify(c) /\ (c < cur \/ (c = cur /\ vpc = "delay"))} \ failing
  IN vruns > 0 /\ vout # "error" =>
       /\ total = Cardinality(seen) /\ failing \subseteq seen
       /\ vout = "nil" => \A c \in DOMAIN contracts : ToVerify(c) => c \in seen
       /\ told \subseteq verified

\* A contract that was verified when Verify asked is not submitted again, not
\* even when the explorer answered with an error.  (The Blockscout, BtrScan,
\* CoreDAO, L2Scan, SocialScan and Sourcify verifiers read any answer that
\* does not say "verified" as "not verified", and submit.)
NotResubmitted == vpc = "submit" /\ known => V.trouble = "no"

(* The summary of verify-env accounts for every contract as what the       *)
(* explorer said of it, and a contract that was verified is not submitted  *)
(* again (the six verifiers above excepted).                               *)
VerifySound == VerifyAccounted /\ NotResubmitted

\* Every run ends, as long as each request does.
VerifyEnds == (vpc # "idle") ~> (vpc = "idle")
=============================================================================

----------------------------- MODULE RemoteSigning -----------------------------
(***************************************************************************)
(* Signing with a key in the cloud (the remote half of CodeSigner in         *)
(* src/src/code.rs and of SigningProvider in psign-portable-core, over       *)
(* psign-codesigning-rest and psign-azure-kv-rest).                          *)
(*                                                                          *)
(* A job builds the CMS of one package.  Artifact Signing is a long-running  *)
(* operation: a token from a chain of credentials, a :sign request, polls.   *)
(* Its certificate is known only from the answer, yet a NuGet author         *)
(* signature covers it (signing-certificate-v2): the job asks for it with a  *)
(* probe, signs, and signs once more when the certificate has changed.  Key  *)
(* Vault gives the certificate first and signs with the key it names.        *)
(*                                                                          *)
(* The services are external.  Certificates are numbered by the order in     *)
(* which the service puts them into use; a digest is the certificate that    *)
(* the signed attributes name, or None, or the Probe of zeros.               *)
(***************************************************************************)
EXTENDS Naturals, Sequences, FiniteSets

CONSTANTS
    Job,         \* the CMS to build, each by a worker of its own (max_concurrency)
    Credential,  \* the credentials of the default chain
    Chains,      \* the sequences of configured credentials, excluded ones left out
    MaxPolls,    \* polls of one operation (90 in the code)
    MaxVersion   \* bound: certificates the service puts into use

Version == 1 .. MaxVersion
None == 0
Probe == MaxVersion + 1
Digest == Version \cup {None, Probe}

ASSUME ConstantAssumption ==
    /\ MaxPolls \in Nat
    /\ MaxVersion \in Nat \ {0}
    /\ Chains \subseteq Seq(Credential)

Backend == {"artifact", "keyVault"}
Pc == {"start", "token", "submit", "poll", "kvSign", "check", "done"}
Res == {"none", "signed", "failed", "noToken", "timedOut", "changed"}

(* What the answer of a :sign operation or of Key Vault holds.               *)
Answer == [over : Digest, key : Version \cup {None}, cert : Version \cup {None}]
NoAnswer == [over |-> None, key |-> None, cert |-> None]

VARIABLES
    backend,   \* the provider the command was given
    chain,     \* the credentials acquire_codesigning_token will try
    named,     \* the jobs whose signed attributes name the certificate
    current,   \* the service's certificate in use
    signer,    \* Key Vault: "none", "token", or "ready" with certificate kv
    kv,
    operation, \* operation[j]: state and answer of j's operation at the service
    pc,
    hint,      \* signer_cert_hint
    attempt,
    tried,     \* credentials tried for the current request
    polls,
    answer,    \* what sign_remote_digest returned
    cms,       \* the signed data built: attributes, answer
    res,
    born,      \* ghost: the service's certificate when j started
    submits    \* ghost: signing requests of j

vars == <<backend, chain, named, current, signer, kv, operation, pc, hint, attempt,
          tried, polls, answer, cms, res, born, submits>>
given == <<backend, chain, named>>
service == <<current, operation>>
vault == <<signer, kv>>

TypeOK ==
    /\ backend \in Backend
    /\ chain \in Seq(Credential)
    /\ named \subseteq Job
    /\ current \in Version
    /\ signer \in {"none", "token", "ready", "failed"}
    /\ kv \in Version \cup {None}
    /\ operation \in [Job -> [state : {"none", "running", "succeeded", "failed"}, answer : Answer]]
    /\ pc \in [Job -> Pc]
    /\ hint \in [Job -> Version \cup {None}]
    /\ attempt \in [Job -> {0, 1}]
    /\ tried \in [Job -> Nat]
    /\ polls \in [Job -> 0 .. MaxPolls]
    /\ answer \in [Job -> Answer]
    /\ cms \in [Job -> [attrs : Digest, answer : Answer]]
    /\ res \in [Job -> Res]
    /\ born \in [Job -> Version]
    /\ submits \in [Job -> Nat]

Init ==
    /\ backend \in Backend
    /\ chain \in Chains
    /\ named \in SUBSET Job
    /\ current = 1
    /\ signer = "none"
    /\ kv = None
    /\ operation = [j \in Job |-> [state |-> "none", answer |-> NoAnswer]]
    /\ pc = [j \in Job |-> "start"]
    /\ hint = [j \in Job |-> None]
    /\ attempt = [j \in Job |-> 0]
    /\ tried = [j \in Job |-> 0]
    /\ polls = [j \in Job |-> 0]
    /\ answer = [j \in Job |-> NoAnswer]
    /\ cms = [j \in Job |-> [attrs |-> None, answer |-> NoAnswer]]
    /\ res = [j \in Job |-> "none"]
    /\ born = [j \in Job |-> 1]
    /\ submits = [j \in Job |-> 0]

-----------------------------------------------------------------------------
(* resolve_code_signer: Key Vault takes its one token and certificate here,  *)
(* Artifact Signing only checks its options.                                 *)

SignerToken ==
    /\ signer = "none"
    /\ \/ signer' = IF backend = "keyVault" THEN "token" ELSE "ready"
       \/ signer' = "failed"
    /\ UNCHANGED <<given, service, kv, pc, hint, attempt, tried, polls, answer, cms, res,
                   born, submits>>

(* fetch_kv_certificate: the pinned version or the current one.              *)
SignerCertificate ==
    /\ signer = "token"
    /\ \/ signer' = "ready" /\ kv' \in 1 .. current
       \/ signer' = "failed" /\ kv' = kv
    /\ UNCHANGED <<given, service, pc, hint, attempt, tried, polls, answer, cms, res,
                   born, submits>>

-----------------------------------------------------------------------------
(* sign_pkcs7_remote.                                                        *)

Requesting == IF backend = "keyVault" THEN "kvSign" ELSE "token"

Goto(j, l) == pc' = [pc EXCEPT ![j] = l]
Return(j, r) == Goto(j, "done") /\ res' = [res EXCEPT ![j] = r]

(* The digest that the next request signs.                                   *)
Asked(j) == IF j \in named /\ hint[j] = None THEN Probe ELSE hint[j]

(* remote_signer_certificate_hint: Key Vault's certificate is known.         *)
Start(j) ==
    /\ pc[j] = "start"
    /\ signer = "ready"
    /\ hint' = [hint EXCEPT ![j] = IF j \in named THEN kv ELSE None]
    /\ born' = [born EXCEPT ![j] = current]
    /\ Goto(j, Requesting)
    /\ UNCHANGED <<given, service, vault, attempt, tried, polls, answer, cms, res, submits>>

(* params_for_digest reads the metadata and the options anew for each        *)
(* request, and may fail.  acquire_codesigning_token: the next credential of *)
(* the chain gives a token or an error; with none left the job ends.  An     *)
(* explicit credential is a chain of one.                                    *)
TryCredential(j) ==
    /\ pc[j] = "token"
    /\ \/ tried[j] = 0 /\ tried' = tried /\ Return(j, "failed")
       \/ /\ tried[j] < Len(chain)
          /\ tried' = [tried EXCEPT ![j] = @ + 1]
          /\ Goto(j, "submit") \/ pc' = pc
          /\ res' = res
       \/ tried[j] = Len(chain) /\ tried' = tried /\ Return(j, "noToken")
    /\ UNCHANGED <<given, service, vault, hint, attempt, polls, answer, cms, born, submits>>

Signed(d) == [over |-> d, key |-> current, cert |-> current]

(* submit_codesign_hash_blocking: an operation is accepted with a location   *)
(* or an id, answered at once, or refused.  A request that times out, or an  *)
(* accept without status, location and id, is an error while the operation   *)
(* may well go on.                                                           *)
Submit(j) ==
    /\ pc[j] = "submit"
    /\ submits' = [submits EXCEPT ![j] = @ + 1]
    /\ polls' = [polls EXCEPT ![j] = 0]
    /\ \/ /\ operation' = [operation EXCEPT ![j] = [state |-> "running",
                                answer |-> [NoAnswer EXCEPT !.over = Asked(j)]]]
          /\ (Goto(j, "poll") /\ res' = res) \/ Return(j, "failed")
          /\ answer' = answer
       \/ /\ operation' = [operation EXCEPT ![j] = [state |-> "succeeded",
                                answer |-> Signed(Asked(j))]]
          /\ answer' = [answer EXCEPT ![j] = Signed(Asked(j))]
          /\ Goto(j, "check")
          /\ res' = res
       \/ /\ operation' = [operation EXCEPT ![j] = [state |-> "failed", answer |-> NoAnswer]]
          /\ Return(j, "failed")
          /\ answer' = answer
    /\ UNCHANGED <<given, current, vault, hint, attempt, tried, cms, born>>

(* Bug: polling goes on until the operation is final.                        *)
BugPoll(j) ==
    /\ pc[j] = "poll"
    /\ operation[j].state = "running"
    /\ polls' = [polls EXCEPT ![j] = (@ + 1) % (MaxPolls + 1)]
    /\ UNCHANGED <<given, service, vault, pc, hint, attempt, tried, answer, cms, res,
                   born, submits>>

(* Bug: the polls are counted and the count is not looked at.                *)
BugPollUnbounded(j) ==
    /\ pc[j] = "poll"
    /\ operation[j].state = "running"
    /\ polls' = [polls EXCEPT ![j] = @ + 1]
    /\ UNCHANGED <<given, service, vault, pc, hint, attempt, tried, answer, cms, res,
                   born, submits>>

(* poll_operation.  A failed request, an answer that is no JSON and a final  *)
(* one without signature or certificate end it.  A "Canceled" operation is   *)
(* among the failed ones.                                                    *)
Poll(j) ==
    /\ pc[j] = "poll"
    /\ \/ polls[j] = MaxPolls /\ Return(j, "timedOut") /\ UNCHANGED <<polls, answer>>
       \/ polls[j] < MaxPolls /\ Return(j, "failed") /\ UNCHANGED <<polls, answer>>
       \/ /\ polls[j] < MaxPolls
          /\ polls' = [polls EXCEPT ![j] = @ + 1]
          /\ CASE operation[j].state = "succeeded" ->
                    answer' = [answer EXCEPT ![j] = operation[j].answer]
                        /\ Goto(j, "check") /\ res' = res
               [] operation[j].state = "failed" -> Return(j, "failed") /\ answer' = answer
               [] OTHER -> UNCHANGED <<pc, res, answer>>
    /\ UNCHANGED <<given, service, vault, hint, attempt, tried, cms, born, submits>>

(* kv_sign_digest_from_certificate: the key that kid names, in any version   *)
(* the vault still has.                                                      *)
KvSign(j) ==
    /\ pc[j] = "kvSign"
    /\ submits' = [submits EXCEPT ![j] = @ + 1]
    /\ \/ /\ answer' = [answer EXCEPT ![j] = [over |-> Asked(j), key |-> kv, cert |-> kv]]
          /\ Goto(j, "check")
          /\ res' = res
       \/ Return(j, "failed") /\ answer' = answer
    /\ UNCHANGED <<given, service, vault, hint, attempt, tried, polls, cms, born>>

Changed(j) == hint[j] # None /\ answer[j].cert # hint[j]

Retry(j, n) ==
    /\ hint' = [hint EXCEPT ![j] = answer[j].cert]
    /\ attempt' = [attempt EXCEPT ![j] = n]
    /\ tried' = [tried EXCEPT ![j] = 0]
    /\ Goto(j, Requesting)
    /\ UNCHANGED <<cms, res>>

Build(j) ==
    /\ cms' = [cms EXCEPT ![j] = [attrs |-> hint[j], answer |-> answer[j]]]
    /\ Return(j, "signed")
    /\ UNCHANGED <<hint, attempt, tried>>

(* Bug: the certificate of the answer is not compared with the hint.         *)
BugCheckUncompared(j) ==
    /\ pc[j] = "check"
    /\ IF answer[j].over = Probe THEN Retry(j, 0) ELSE Build(j)
    /\ UNCHANGED <<given, service, vault, polls, answer, born, submits>>

(* Bug: a changed certificate is an error at once.                           *)
BugCheckNoRetry(j) ==
    /\ pc[j] = "check"
    /\ CASE answer[j].over = Probe -> Retry(j, 0)
         [] answer[j].over # Probe /\ Changed(j) ->
                Return(j, "changed") /\ UNCHANGED <<cms, hint, attempt, tried>>
         [] OTHER -> Build(j)
    /\ UNCHANGED <<given, service, vault, polls, answer, born, submits>>

(* After the probe the attributes name its certificate; after a signature by *)
(* another certificate they are built again, once.                           *)
Check(j) ==
    /\ pc[j] = "check"
    /\ CASE answer[j].over = Probe -> Retry(j, 0)
         [] answer[j].over # Probe /\ Changed(j) /\ attempt[j] = 0 -> Retry(j, 1)
         [] answer[j].over # Probe /\ Changed(j) /\ attempt[j] = 1 ->
                Return(j, "changed") /\ UNCHANGED <<cms, hint, attempt, tried>>
         [] OTHER -> Build(j)
    /\ UNCHANGED <<given, service, vault, polls, answer, born, submits>>

-----------------------------------------------------------------------------
(* The service.                                                              *)

(* An operation ends, also one that nobody polls any more.                   *)
Complete(j) ==
    /\ operation[j].state = "running"
    /\ \/ operation' = [operation EXCEPT ![j] = [state |-> "succeeded",
                            answer |-> Signed(operation[j].answer.over)]]
       \/ operation' = [operation EXCEPT ![j].state = "failed"]
    /\ UNCHANGED <<given, current, vault, pc, hint, attempt, tried, polls, answer, cms,
                   res, born, submits>>

Rotate ==
    /\ current < MaxVersion
    /\ current' = current + 1
    /\ UNCHANGED <<given, operation, vault, pc, hint, attempt, tried, polls, answer, cms,
                   res, born, submits>>

Work(j) ==
    \/ Start(j) \/ TryCredential(j) \/ Submit(j) \/ Poll(j) \/ KvSign(j) \/ Check(j)
Next ==
    \/ SignerToken \/ SignerCertificate \/ Rotate
    \/ \E j \in Job : Work(j) \/ Complete(j)

(* Every request has a time-out and every sleep ends; the service owes us    *)
(* nothing.                                                                  *)
Fairness ==
    /\ WF_vars(SignerToken \/ SignerCertificate)
    /\ \A j \in Job : WF_vars(Work(j))
Spec == Init /\ [][Next]_vars /\ Fairness

-----------------------------------------------------------------------------
(* Properties.                                                               *)

(* A CMS that is handed out is signed over its own attributes, with the key  *)
(* of the certificate it embeds, and attributes that name a certificate name *)
(* that one: whenever the service rotates, and never with the probe's        *)
(* signature (sign_pkcs7_remote).                                            *)
CmsIsConsistent ==
    \A j \in Job : res[j] = "signed" =>
        LET c == cms[j] IN
            /\ c.answer.over = c.attrs
            /\ c.answer.key = c.answer.cert
            /\ c.answer.cert # None
            /\ j \in named => c.attrs = c.answer.cert

(* "remote signer certificate changed" is reported only when the certificate *)
(* changed twice while the job ran, and every signature that was paid for    *)
(* beyond the probe and the first is due to such a change.                   *)
SurvivesRotation ==
    \A j \in Job :
        /\ res[j] = "changed" => current >= born[j] + 2
        /\ submits[j] <= 3
        /\ submits[j] = 3 => current > born[j]

(* A job ends for want of a token only after every credential that was not   *)
(* excluded has been asked for this very request: the chain starts anew for  *)
(* the probe, the signature and its repetition (acquire_codesigning_token).  *)
ChainIsExhausted ==
    \A j \in Job :
        /\ tried[j] <= Len(chain)
        /\ res[j] = "noToken" => tried[j] = Len(chain)

(* A job gives up only when it must: after a second rotation, or when every  *)
(* credential has failed; and it pays for no signature without need.         *)
GivesUpOnlyWhenForced == SurvivesRotation /\ ChainIsExhausted

(* Every job ends, also when the service leaves its operation running.       *)
EveryJobEnds == <>[](signer = "failed" \/ \A j \in Job : pc[j] = "done")
=============================================================================

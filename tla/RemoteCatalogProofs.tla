-------------------------- MODULE RemoteCatalogProofs --------------------------
(***************************************************************************)
(* Signing through a service, and the catalogs that are signed so.  What     *)
(* every job gets from the service, for any number of jobs, credentials,     *)
(* polls and certificates.  What a file catalog promises, for every tree,    *)
(* request and sequence of commands and changes: a catalog that is genuine   *)
(* and tests Valid speaks the truth about the files, and a tree that did     *)
(* not change tests Valid.                                                   *)
(***************************************************************************)
EXTENDS RemoteSigning, FileCatalog, FiniteSetTheorems, TLAPS

LEMMA Numbers ==
    /\ Version \subseteq Nat /\ 1 \in Version
    /\ None \notin Version /\ Probe \notin Version /\ Probe # None
    /\ NoAnswer \in Answer
BY ConstantAssumption DEF Version, None, Probe, NoAnswer, Answer, Digest

LEMMA Labels ==
    /\ "start" \in Pc /\ "token" \in Pc /\ "submit" \in Pc /\ "poll" \in Pc
    /\ "kvSign" \in Pc /\ "check" \in Pc /\ "done" \in Pc
    /\ "none" \in Res /\ "signed" \in Res /\ "failed" \in Res /\ "noToken" \in Res
    /\ "timedOut" \in Res /\ "changed" \in Res
BY DEF Pc, Res

(* The Key Vault signer of a command that got that far has a certificate,    *)
(* and only Key Vault has one.                                               *)
Vaulted ==
    /\ signer = "ready" /\ backend = "keyVault" => kv \in Version
    /\ backend = "artifact" => kv = None /\ signer # "token"

TypeInv == TypeOK /\ Vaulted

LEMMA AskedType ==
    ASSUME TypeOK, NEW j \in Job
    PROVE  Asked(j) \in Digest
BY DEF TypeOK, Asked, Digest

LEMMA SignedType ==
    ASSUME TypeOK, NEW d \in Digest
    PROVE  Signed(d) \in Answer
BY DEF TypeOK, Signed, Answer

OperationType ==
    [state : {"none", "running", "succeeded", "failed"}, answer : Answer]

LEMMA TypeInit == Init => TypeInv
<1> SUFFICES ASSUME Init PROVE TypeInv
  OBVIOUS
<1>1. chain \in Seq(Credential)
  BY ConstantAssumption DEF Init
<1>2. [attrs |-> None, answer |-> NoAnswer] \in [attrs : Digest, answer : Answer]
  BY Numbers DEF Digest
<1> QED
  BY <1>1, <1>2, Numbers, Labels, ConstantAssumption DEF Init, TypeInv, TypeOK, Vaulted, Backend, Version

LEMMA GotoType ==
    ASSUME NEW j \in Job, NEW l \in Pc, pc \in [Job -> Pc], Goto(j, l)
    PROVE  pc' \in [Job -> Pc] /\ \A i \in Job : pc'[i] = IF i = j THEN l ELSE pc[i]
BY DEF Goto

LEMMA ReturnType ==
    ASSUME NEW j \in Job, NEW r \in Res, pc \in [Job -> Pc], res \in [Job -> Res], Return(j, r)
    PROVE  /\ pc' \in [Job -> Pc] /\ res' \in [Job -> Res]
           /\ \A i \in Job : /\ pc'[i] = IF i = j THEN "done" ELSE pc[i]
                            /\ res'[i] = IF i = j THEN r ELSE res[i]
BY Labels DEF Goto, Return

LEMMA TypeStep ==
    ASSUME TypeInv, [Next]_vars
    PROVE  TypeInv'
<1> USE Labels
<1>0. /\ pc \in [Job -> Pc] /\ res \in [Job -> Res] /\ tried \in [Job -> Nat]
      /\ submits \in [Job -> Nat] /\ polls \in [Job -> 0 .. MaxPolls]
      /\ hint \in [Job -> Version \cup {None}] /\ attempt \in [Job -> {0, 1}]
      /\ answer \in [Job -> Answer] /\ operation \in [Job -> OperationType]
      /\ cms \in [Job -> [attrs : Digest, answer : Answer]]
      /\ born \in [Job -> Version] /\ current \in Version
  BY DEF TypeInv, TypeOK, OperationType
<1>1. CASE SignerToken
  BY <1>1 DEF SignerToken, given, service, TypeInv, TypeOK, Vaulted
<1>2. CASE SignerCertificate
  <2>1. 1 .. current \subseteq Version
    BY ConstantAssumption DEF TypeInv, TypeOK, Version
  <2> QED
    BY <1>2, <2>1 DEF SignerCertificate, given, service, TypeInv, TypeOK, Vaulted
<1>3. CASE Rotate
  <2>1. current' \in Version
    BY <1>3, ConstantAssumption DEF Rotate, TypeInv, TypeOK, Version
  <2> QED
    BY <1>3, <2>1 DEF Rotate, given, vault, TypeInv, TypeOK, Vaulted
<1>4. ASSUME NEW j \in Job, Work(j) \/ Complete(j)
      PROVE  TypeInv'
  <2>1. CASE Start(j)
    <3>1. hint' \in [Job -> Version \cup {None}]
      BY <1>0, <2>1 DEF Start, TypeInv, TypeOK
    <3>2. pc' \in [Job -> Pc] /\ born' \in [Job -> Version]
      BY <1>0, <2>1 DEF Start, Goto, Requesting
    <3> QED
      BY <2>1, <3>1, <3>2 DEF Start, given, service, vault, TypeInv, TypeOK, Vaulted
  <2>2. CASE TryCredential(j)
    <3>1. pc' \in [Job -> Pc] /\ res' \in [Job -> Res]
      BY <1>0, <2>2, GotoType, ReturnType DEF TryCredential
    <3>2. tried' \in [Job -> Nat]
      BY <1>0, <2>2 DEF TryCredential
    <3> QED
      BY <2>2, <3>1, <3>2 DEF TryCredential, given, service, vault, TypeInv, TypeOK, Vaulted
  <2>3. CASE Submit(j)
    <3>1. Asked(j) \in Digest /\ Signed(Asked(j)) \in Answer
      BY AskedType, SignedType DEF TypeInv
    <3>2. pc' \in [Job -> Pc] /\ res' \in [Job -> Res]
      BY <1>0, <2>3, GotoType, ReturnType DEF Submit
    <3>5. submits' \in [Job -> Nat] /\ polls' \in [Job -> 0 .. MaxPolls]
      BY <1>0, <2>3, ConstantAssumption DEF Submit
    <3>3. answer' \in [Job -> Answer]
      BY <1>0, <2>3, <3>1 DEF Submit
    <3>4. operation' \in [Job -> OperationType]
      <4>1. [NoAnswer EXCEPT !.over = Asked(j)] \in Answer
        BY <3>1 DEF NoAnswer, Answer
      <4>2. /\ [state |-> "running", answer |-> [NoAnswer EXCEPT !.over = Asked(j)]] \in OperationType
            /\ [state |-> "succeeded", answer |-> Signed(Asked(j))] \in OperationType
            /\ [state |-> "failed", answer |-> NoAnswer] \in OperationType
        BY <3>1, <4>1, Numbers DEF OperationType
      <4>3. \E o \in OperationType : operation' = [operation EXCEPT ![j] = o]
        BY <2>3, <4>2 DEF Submit
      <4> QED
        BY <1>0, <4>3
    <3> QED
      BY <2>3, <3>2, <3>3, <3>4, <3>5
      DEF Submit, OperationType, given, vault, TypeInv, TypeOK, Vaulted
  <2>4. CASE Poll(j)
    <3>1. pc' \in [Job -> Pc] /\ res' \in [Job -> Res]
      BY <1>0, <2>4, GotoType, ReturnType DEF Poll
    <3>3. polls' \in [Job -> 0 .. MaxPolls]
      <4>1. \/ polls' = polls
            \/ polls[j] < MaxPolls /\ polls' = [polls EXCEPT ![j] = @ + 1]
        BY <2>4 DEF Poll
      <4>2. polls \in [Job -> 0 .. MaxPolls]
        BY <1>0
      <4>3. polls[j] < MaxPolls => polls[j] + 1 \in 0 .. MaxPolls
        BY <4>2, ConstantAssumption
      <4> QED
        BY <4>1, <4>2, <4>3
    <3>2. answer' \in [Job -> Answer]
      BY <1>0, <2>4 DEF Poll, OperationType
    <3> QED
      BY <2>4, <3>1, <3>2, <3>3 DEF Poll, given, service, vault, TypeInv, TypeOK, Vaulted
  <2>5. CASE KvSign(j)
    <3>1. pc' \in [Job -> Pc] /\ res' \in [Job -> Res]
      BY <1>0, <2>5, GotoType, ReturnType DEF KvSign
    <3>3. submits' \in [Job -> Nat]
      BY <1>0, <2>5 DEF KvSign
    <3>2. answer' \in [Job -> Answer]
      <4>1. [over |-> Asked(j), key |-> kv, cert |-> kv] \in Answer
        BY AskedType DEF TypeInv, TypeOK, Answer
      <4> QED
        BY <1>0, <2>5, <4>1 DEF KvSign
    <3> QED
      BY <2>5, <3>1, <3>2, <3>3 DEF KvSign, given, service, vault, TypeInv, TypeOK, Vaulted
  <2>6. CASE Check(j)
    <3>0. /\ answer[j].cert \in Version \cup {None}
          /\ [attrs |-> hint[j], answer |-> answer[j]] \in [attrs : Digest, answer : Answer]
      BY DEF TypeInv, TypeOK, Answer, Digest
    <3>1. \/ Retry(j, 0) \/ Retry(j, 1) \/ Build(j)
          \/ Return(j, "changed") /\ UNCHANGED <<cms, hint, attempt, tried>>
      BY <2>6 DEF Check
    <3>2. pc' \in [Job -> Pc] /\ res' \in [Job -> Res]
      BY <1>0, <3>1, GotoType, ReturnType DEF Retry, Build, Requesting
    <3>5. hint' \in [Job -> Version \cup {None}]
      BY <1>0, <3>0, <3>1 DEF Retry, Build
    <3>6. attempt' \in [Job -> {0, 1}]
      BY <1>0, <3>1 DEF Retry, Build
    <3>3. tried' \in [Job -> Nat]
      BY <1>0, <3>0, <3>1 DEF Retry, Build
    <3>4. cms' \in [Job -> [attrs : Digest, answer : Answer]]
      BY <1>0, <3>0, <3>1 DEF Retry, Build
    <3> QED
      BY <2>6, <3>2, <3>3, <3>4, <3>5, <3>6 DEF Check, given, service, vault, TypeInv, TypeOK, Vaulted
  <2>7. CASE Complete(j)
    <3>2. Signed(operation[j].answer.over) \in Answer
      BY <1>0, SignedType DEF TypeInv, OperationType, Answer
    <3>1. /\ [state |-> "succeeded", answer |-> Signed(operation[j].answer.over)] \in OperationType
          /\ [operation[j] EXCEPT !.state = "failed"] \in OperationType
      BY <1>0, <3>2 DEF OperationType
    <3>4. \E o \in OperationType : operation' = [operation EXCEPT ![j] = o]
      BY <2>7, <3>1 DEF Complete
    <3>3. operation' \in [Job -> OperationType]
      BY <1>0, <3>4
    <3> QED
      BY <2>7, <3>3 DEF Complete, OperationType, given, vault, TypeInv, TypeOK, Vaulted
  <2> QED
    BY <1>4, <2>1, <2>2, <2>3, <2>4, <2>5, <2>6, <2>7 DEF Work
<1>5. CASE UNCHANGED vars
  BY <1>5 DEF vars, TypeInv, TypeOK, Vaulted
<1> QED
  BY <1>1, <1>2, <1>3, <1>4, <1>5 DEF Next

(* The type invariant, and a certificate in every Key Vault signer that is   *)
(* used (resolve_code_signer_azure_key_vault).                               *)
THEOREM TypeCorrect == Spec => []TypeOK
<1>1. TypeInv /\ [Next]_vars => TypeInv'
  BY TypeStep
<1>2. TypeInv => TypeOK
  BY DEF TypeInv
<1> QED
  BY <1>1, <1>2, TypeInit, PTL DEF Spec

(* Jobs do not touch each other's state, nor the signer and the service.     *)
Same(i) ==
    /\ pc'[i] = pc[i] /\ hint'[i] = hint[i] /\ attempt'[i] = attempt[i]
    /\ operation'[i] = operation[i] /\ answer'[i] = answer[i] /\ cms'[i] = cms[i]
    /\ res'[i] = res[i] /\ born'[i] = born[i] /\ submits'[i] = submits[i]

LEMMA Frame ==
    ASSUME TypeInv, NEW j \in Job, Work(j) \/ Complete(j), NEW i \in Job, i # j
    PROVE  Same(i)
<1>0. /\ pc \in [Job -> Pc] /\ res \in [Job -> Res] /\ DOMAIN hint = Job
      /\ DOMAIN attempt = Job /\ DOMAIN operation = Job /\ DOMAIN answer = Job
      /\ DOMAIN cms = Job /\ DOMAIN born = Job /\ DOMAIN submits = Job
  BY DEF TypeInv, TypeOK
<1>1. CASE Start(j)
  BY <1>0, <1>1 DEF Start, Goto, service, Same
<1>2. CASE TryCredential(j)
  BY <1>0, <1>2 DEF TryCredential, Goto, Return, service, Same
<1>3. CASE Submit(j)
  BY <1>0, <1>3 DEF Submit, Goto, Return, Same
<1>4. CASE Poll(j)
  BY <1>0, <1>4 DEF Poll, Goto, Return, service, Same
<1>5. CASE KvSign(j)
  BY <1>0, <1>5 DEF KvSign, Goto, Return, service, Same
<1>6. CASE Check(j)
  BY <1>0, <1>6 DEF Check, Retry, Build, Goto, Return, service, Same
<1>7. CASE Complete(j)
  BY <1>0, <1>7 DEF Complete, Same
<1> QED
  BY <1>1, <1>2, <1>3, <1>4, <1>5, <1>6, <1>7 DEF Work

LEMMA Shared ==
    ASSUME NEW j \in Job, Work(j) \/ Complete(j)
    PROVE  UNCHANGED <<backend, named, current, signer, kv>>
<1>1. CASE Start(j)
  BY <1>1 DEF Start, given, service, vault
<1>2. CASE TryCredential(j)
  BY <1>2 DEF TryCredential, given, service, vault
<1>3. CASE Submit(j)
  BY <1>3 DEF Submit, given, vault
<1>4. CASE Poll(j)
  BY <1>4 DEF Poll, given, service, vault
<1>5. CASE KvSign(j)
  BY <1>5 DEF KvSign, given, service, vault
<1>6. CASE Check(j)
  BY <1>6 DEF Check, given, service, vault
<1>7. CASE Complete(j)
  BY <1>7 DEF Complete, given, vault
<1> QED
  BY <1>1, <1>2, <1>3, <1>4, <1>5, <1>6, <1>7 DEF Work

-----------------------------------------------------------------------------
(* What is handed out.                                                       *)

Consistent(j) ==
    /\ cms[j].answer.over = cms[j].attrs
    /\ cms[j].answer.key = cms[j].answer.cert
    /\ cms[j].answer.cert # None
    /\ j \in named => cms[j].attrs = cms[j].answer.cert

(* The answer that waits for a job is an answer to its own last request.     *)
CmsInv(j) ==
    /\ pc[j] # "start" => signer = "ready"
    /\ pc[j] = "kvSign" => backend = "keyVault"
    /\ j \notin named => hint[j] = None
    /\ pc[j] = "poll" /\ operation[j].state \in {"running", "succeeded"} =>
            operation[j].answer.over = Asked(j)
    /\ pc[j] = "poll" /\ operation[j].state = "succeeded" =>
            /\ operation[j].answer.key = operation[j].answer.cert
            /\ operation[j].answer.cert \in Version
    /\ pc[j] = "check" => /\ answer[j].over = Asked(j)
                          /\ answer[j].key = answer[j].cert
                          /\ answer[j].cert \in Version
    /\ res[j] = "signed" => pc[j] = "done" /\ Consistent(j)

CmsInvAll == TypeInv /\ \A j \in Job : CmsInv(j)

LEMMA CmsStart ==
    ASSUME TypeInv, NEW j \in Job, CmsInv(j), Start(j)
    PROVE  CmsInv(j)'
<1>1. /\ pc \in [Job -> Pc] /\ hint \in [Job -> Version \cup {None}]
      /\ res'[j] = res[j] /\ UNCHANGED <<backend, named, signer>>
  BY DEF Start, given, vault, TypeInv, TypeOK
<1>2. signer = "ready" /\ pc[j] = "start" /\ pc'[j] = Requesting
  BY <1>1, GotoType, Labels DEF Start, Goto, Requesting
<1>3. j \notin named => hint'[j] = None
  BY <1>1 DEF Start
<1> QED
  BY <1>1, <1>2, <1>3 DEF CmsInv, Requesting

LEMMA CmsTry ==
    ASSUME TypeInv, NEW j \in Job, CmsInv(j), TryCredential(j)
    PROVE  CmsInv(j)'
<1>1. pc \in [Job -> Pc] /\ res \in [Job -> Res]
  BY DEF TypeInv, TypeOK
<1>2. /\ pc'[j] \in {"token", "submit", "done"} /\ res[j] # "signed"
      /\ res'[j] \in {res[j], "failed", "noToken"}
      /\ UNCHANGED <<named, hint, signer>> /\ pc[j] = "token"
  BY <1>1 DEF TryCredential, Goto, Return, CmsInv, given, vault
<1> QED
  BY <1>2 DEF CmsInv

LEMMA CmsSubmit ==
    ASSUME TypeInv, NEW j \in Job, CmsInv(j), Submit(j)
    PROVE  CmsInv(j)'
<1>1. /\ pc \in [Job -> Pc] /\ res \in [Job -> Res] /\ DOMAIN operation = Job
      /\ DOMAIN answer = Job /\ current \in Version
  BY DEF TypeInv, TypeOK
<1>2. UNCHANGED <<named, hint, backend, signer, current>> /\ Asked(j)' = Asked(j)
  BY DEF Submit, given, vault, Asked
<1>3. /\ pc'[j] \in {"poll", "check", "done"} /\ res[j] # "signed"
      /\ res'[j] \in {res[j], "failed"} /\ pc[j] = "submit"
  BY <1>1 DEF Submit, Goto, Return, CmsInv
<1>4. CASE pc'[j] = "poll"
  <2>1. operation'[j] = [state |-> "running", answer |-> [NoAnswer EXCEPT !.over = Asked(j)]]
    BY <1>1, <1>4 DEF Submit, Goto, Return
  <2>2. operation'[j].answer.over = Asked(j) /\ operation'[j].state = "running"
    BY <2>1 DEF NoAnswer
  <2> QED
    BY <1>2, <1>3, <1>4, <2>2 DEF CmsInv
<1>5. CASE pc'[j] = "check"
  <2>1. answer'[j] = Signed(Asked(j))
    BY <1>1, <1>5 DEF Submit, Goto, Return
  <2> QED
    BY <1>1, <1>2, <1>3, <1>5, <2>1 DEF CmsInv, Signed
<1>6. CASE pc'[j] = "done"
  BY <1>2, <1>3, <1>6 DEF CmsInv
<1> QED
  BY <1>3, <1>4, <1>5, <1>6

LEMMA CmsPoll ==
    ASSUME TypeInv, NEW j \in Job, CmsInv(j), Poll(j)
    PROVE  CmsInv(j)'
<1>1. /\ pc \in [Job -> Pc] /\ res \in [Job -> Res] /\ DOMAIN answer = Job
  BY DEF TypeInv, TypeOK
<1>2. UNCHANGED <<named, hint, operation, signer>> /\ Asked(j)' = Asked(j)
  BY DEF Poll, given, service, vault, Asked
<1>3. /\ pc'[j] \in {"poll", "check", "done"} /\ res[j] # "signed"
      /\ res'[j] \in {res[j], "failed", "timedOut"} /\ pc[j] = "poll"
  BY <1>1 DEF Poll, Goto, Return, CmsInv
<1>4. pc'[j] = "check" => operation[j].state = "succeeded" /\ answer'[j] = operation[j].answer
  BY <1>1, <1>3 DEF Poll, Goto, Return
<1> QED
  BY <1>2, <1>3, <1>4 DEF CmsInv

LEMMA CmsVault ==
    ASSUME TypeInv, NEW j \in Job, CmsInv(j), KvSign(j)
    PROVE  CmsInv(j)'
<1>1. pc \in [Job -> Pc] /\ res \in [Job -> Res] /\ DOMAIN answer = Job
  BY DEF TypeInv, TypeOK
<1>2. UNCHANGED <<named, hint, signer>> /\ Asked(j)' = Asked(j) /\ pc[j] = "kvSign"
  BY DEF KvSign, given, vault, Asked
<1>3. /\ pc'[j] \in {"check", "done"} /\ res[j] # "signed"
      /\ res'[j] \in {res[j], "failed"} /\ kv \in Version
  BY <1>1 DEF KvSign, Goto, Return, CmsInv, TypeInv, Vaulted
<1>4. pc'[j] = "check" => answer'[j] = [over |-> Asked(j), key |-> kv, cert |-> kv]
  BY <1>1 DEF KvSign, Goto, Return
<1> QED
  BY <1>2, <1>3, <1>4 DEF CmsInv

(* The three ways on from an answer.                                         *)
LEMMA CheckCases ==
    ASSUME TypeInv, NEW j \in Job, CmsInv(j), Check(j)
    PROVE  /\ pc[j] = "check" /\ res[j] # "signed"
           /\ UNCHANGED <<backend, named, signer, kv, current, operation, answer, born, submits>>
           /\ \/ answer[j].over = Probe /\ hint[j] = None /\ j \in named /\ Retry(j, 0)
              \/ Changed(j) /\ j \in named /\ attempt[j] = 0 /\ Retry(j, 1)
              \/ /\ Changed(j) /\ attempt[j] = 1
                 /\ Return(j, "changed") /\ UNCHANGED <<cms, hint, attempt, tried>>
              \/ ~Changed(j) /\ (j \in named => hint[j] # None) /\ Build(j)
<1>1. hint[j] \in Version \cup {None} /\ attempt[j] \in {0, 1}
  BY DEF TypeInv, TypeOK
<1>2. pc[j] = "check"
  BY DEF Check
<1>3. answer[j].over = Probe <=> hint[j] = None /\ j \in named
  BY <1>1, <1>2, Numbers DEF CmsInv, Asked
<1>4. Changed(j) => j \in named
  BY DEF CmsInv, Changed
<1>5. UNCHANGED <<backend, named, signer, kv, current, operation, answer, born, submits>>
  BY DEF Check, given, service, vault
<1>6. res[j] # "signed"
  BY <1>2 DEF CmsInv
<1>7. CASE answer[j].over = Probe
  <2>1. Retry(j, 0)
    BY <1>7 DEF Check
  <2> QED
    BY <1>2, <1>3, <1>5, <1>6, <1>7, <2>1
<1>8. CASE answer[j].over # Probe
  <2>1. CASE Changed(j) /\ attempt[j] = 0
    BY <1>2, <1>4, <1>5, <1>6, <1>8, <2>1 DEF Check
  <2>2. CASE Changed(j) /\ attempt[j] = 1
    BY <1>2, <1>5, <1>6, <1>8, <2>2 DEF Check
  <2>3. CASE ~Changed(j)
    BY <1>2, <1>3, <1>5, <1>6, <1>8, <2>3 DEF Check
  <2> QED
    BY <1>1, <2>1, <2>2, <2>3
<1> QED
  BY <1>7, <1>8

LEMMA CmsCheck ==
    ASSUME TypeInv, NEW j \in Job, CmsInv(j), Check(j)
    PROVE  CmsInv(j)'
<1>1. /\ pc \in [Job -> Pc] /\ res \in [Job -> Res] /\ DOMAIN hint = Job /\ DOMAIN cms = Job
      /\ hint[j] \in Version \cup {None}
  BY DEF TypeInv, TypeOK
<1>2. pc[j] = "check" /\ res[j] # "signed" /\ UNCHANGED <<backend, named, signer>>
  BY CheckCases
<1>3. CASE j \in named /\ (Retry(j, 0) \/ Retry(j, 1))
  <2>1. pc'[j] = Requesting /\ res'[j] = res[j]
    BY <1>1, <1>3 DEF Retry, Goto
  <2> QED
    BY <1>2, <1>3, <2>1 DEF CmsInv, Requesting
<1>4. CASE Return(j, "changed") /\ UNCHANGED <<cms, hint, attempt, tried>>
  <2>1. pc'[j] = "done" /\ res'[j] = "changed" /\ UNCHANGED hint
    BY <1>1, <1>4 DEF Return, Goto
  <2> QED
    BY <1>2, <2>1 DEF CmsInv
<1>5. CASE ~Changed(j) /\ (j \in named => hint[j] # None) /\ Build(j)
  <2>1. /\ pc'[j] = "done" /\ UNCHANGED hint
        /\ cms'[j] = [attrs |-> hint[j], answer |-> answer[j]]
    BY <1>1, <1>5 DEF Build, Return, Goto
  <2>2. answer[j].over = hint[j]
    BY <1>2, <1>5 DEF CmsInv, Asked
  <2>3. Consistent(j)'
    BY <1>2, <1>5, <2>1, <2>2, Numbers DEF CmsInv, Consistent, Changed
  <2> QED
    BY <1>2, <2>1, <2>3 DEF CmsInv
<1> QED
  BY <1>3, <1>4, <1>5, CheckCases

LEMMA CmsComplete ==
    ASSUME TypeInv, NEW j \in Job, CmsInv(j), Complete(j)
    PROVE  CmsInv(j)'
<1>1. DOMAIN operation = Job /\ operation[j].state = "running" /\ current \in Version
  BY DEF TypeInv, TypeOK, Complete
<1>2. UNCHANGED <<named, backend, signer, hint, pc, answer, cms, res>>
  BY DEF Complete, given, vault
<1>3. Asked(j)' = Asked(j) /\ Consistent(j)' = Consistent(j)
  BY <1>2 DEF Asked, Consistent
<1>4. \/ operation'[j] = [state |-> "succeeded", answer |-> Signed(operation[j].answer.over)]
      \/ operation'[j].state = "failed"
  <2>1. operation[j] \in OperationType
    BY DEF TypeInv, TypeOK, OperationType
  <2> QED
    BY <1>1, <2>1 DEF Complete, OperationType
<1> QED
  BY <1>1, <1>2, <1>3, <1>4 DEF CmsInv, Signed

LEMMA CmsFrame ==
    ASSUME NEW i \in Job, CmsInv(i), Same(i), UNCHANGED <<backend, named>>,
           signer = "ready" => signer' = "ready"
    PROVE  CmsInv(i)'
BY DEF CmsInv, Same, Asked, Consistent

LEMMA CmsStep ==
    ASSUME CmsInvAll, [Next]_vars
    PROVE  CmsInvAll'
<1>0. TypeInv /\ TypeInv'
  BY TypeStep DEF CmsInvAll
<1> SUFFICES ASSUME NEW i \in Job
             PROVE  CmsInv(i)'
  BY <1>0 DEF CmsInvAll
<1>1. CmsInv(i)
  BY DEF CmsInvAll
<1>2. CASE SignerToken \/ SignerCertificate
  <2>1. Same(i) /\ UNCHANGED <<backend, named>> /\ signer # "ready"
    BY <1>2 DEF SignerToken, SignerCertificate, given, service, Same
  <2> QED
    BY <1>1, <2>1, CmsFrame
<1>3. CASE Rotate \/ UNCHANGED vars
  <2>1. Same(i) /\ UNCHANGED <<backend, named, signer>>
    BY <1>3 DEF Rotate, vars, given, vault, Same
  <2> QED
    BY <1>1, <2>1, CmsFrame
<1>4. ASSUME NEW j \in Job, Work(j) \/ Complete(j)
      PROVE  CmsInv(i)'
  <2>1. CASE i # j
    <3>1. Same(i) /\ UNCHANGED <<backend, named, signer>>
      BY <1>0, <1>4, <2>1, Frame, Shared
    <3> QED
      BY <1>1, <3>1, CmsFrame
  <2>2. CASE i = j
    BY <1>0, <1>1, <1>4, <2>2, CmsStart, CmsTry, CmsSubmit, CmsPoll, CmsVault, CmsCheck,
       CmsComplete DEF Work
  <2> QED
    BY <2>1, <2>2
<1> QED
  BY <1>2, <1>3, <1>4 DEF Next

(* Whatever the services do and however many jobs there are, a CMS that is   *)
(* handed out is signed over its own attributes with the key of the          *)
(* certificate it embeds and names (sign_pkcs7_remote).                      *)
THEOREM CmsIsConsistentAlways == Spec => []CmsIsConsistent
<1>1. Init => CmsInvAll
  <2> SUFFICES ASSUME Init, NEW j \in Job PROVE CmsInv(j)
    BY TypeInit DEF CmsInvAll
  <2> QED
    BY DEF Init, CmsInv
<1>2. CmsInvAll /\ [Next]_vars => CmsInvAll'
  BY CmsStep
<1>3. CmsInvAll => CmsIsConsistent
  BY DEF CmsInvAll, CmsInv, Consistent, CmsIsConsistent
<1> QED
  BY <1>1, <1>2, <1>3, PTL DEF Spec

-----------------------------------------------------------------------------
(* Rotation.                                                                 *)

(* Requests sent before the one being prepared.                              *)
Sent(j) == IF hint[j] = None THEN 0 ELSE 1 + attempt[j]

(* A certificate of the service is never older than what the job has seen.   *)
Fresh(j, c) == born[j] <= c /\ c <= current /\ (hint[j] # None => hint[j] <= c)

ArtifactInv(j) ==
    /\ pc[j] # "kvSign"
    /\ pc[j] = "start" => hint[j] = None
    /\ hint[j] = None => attempt[j] = 0
    /\ pc[j] # "start" => born[j] <= current
    /\ hint[j] # None => born[j] + attempt[j] <= hint[j] /\ hint[j] <= current
    /\ pc[j] = "poll" /\ operation[j].state = "succeeded" => Fresh(j, operation[j].answer.cert)
    /\ pc[j] = "check" => Fresh(j, answer[j].cert)
    /\ pc[j] \in {"start", "token", "submit"} => submits[j] = Sent(j)
    /\ pc[j] \in {"poll", "check"} => submits[j] = Sent(j) + 1
    /\ pc[j] = "done" => submits[j] <= 3 /\ (submits[j] = 3 => born[j] < current)
    /\ res[j] = "changed" => pc[j] = "done" /\ born[j] + 2 <= current

VaultInv(j) ==
    /\ pc[j] \in {"start", "kvSign", "check", "done"}
    /\ pc[j] \in {"start", "kvSign"} => submits[j] = 0
    /\ submits[j] <= 1
    /\ pc[j] \in {"kvSign", "check"} => /\ signer = "ready"
                                        /\ hint[j] = IF j \in named THEN kv ELSE None
    /\ pc[j] = "check" => answer[j].cert = kv
    /\ res[j] # "changed"

RotationInv(j) ==
    /\ backend = "artifact" => ArtifactInv(j)
    /\ backend = "keyVault" => VaultInv(j)

RotationInvAll == CmsInvAll /\ \A j \in Job : RotationInv(j)

LEMMA Values ==
    ASSUME TypeInv, NEW j \in Job
    PROVE  /\ pc \in [Job -> Pc] /\ res \in [Job -> Res]
           /\ DOMAIN hint = Job /\ DOMAIN attempt = Job /\ DOMAIN answer = Job
           /\ DOMAIN operation = Job /\ DOMAIN born = Job /\ DOMAIN submits = Job
           /\ hint[j] \in Nat /\ attempt[j] \in {0, 1} /\ current \in Nat /\ current # 0
           /\ born[j] \in Nat /\ submits[j] \in Nat /\ kv \in Nat
           /\ answer[j].cert \in Nat /\ operation[j].answer.cert \in Nat
           /\ backend \in {"artifact", "keyVault"} /\ None = 0
<1>1. Version \cup {None} \subseteq Nat /\ 0 \notin Version
  BY Numbers DEF None
<1>2. answer[j] \in Answer /\ operation[j] \in OperationType
  BY DEF TypeInv, TypeOK, OperationType
<1>3. answer[j].cert \in Nat /\ operation[j].answer.cert \in Nat
  BY <1>1, <1>2 DEF Answer, OperationType
<1>4. hint[j] \in Nat /\ current \in Nat /\ current # 0 /\ born[j] \in Nat /\ kv \in Nat
  BY <1>1 DEF TypeInv, TypeOK
<1> QED
  BY <1>3, <1>4 DEF TypeInv, TypeOK, Backend, None

LEMMA RotationStart ==
    ASSUME TypeInv, NEW j \in Job, CmsInv(j), RotationInv(j), Start(j)
    PROVE  RotationInv(j)'
<1>1. /\ pc[j] = "start" /\ signer = "ready" /\ pc'[j] = Requesting
      /\ hint'[j] = (IF j \in named THEN kv ELSE None) /\ born'[j] = current
      /\ UNCHANGED <<backend, named, signer, kv, current, attempt, submits, res>>
  BY Values DEF Start, Goto, given, service, vault
<1> QED
  BY <1>1, Values DEF RotationInv, ArtifactInv, VaultInv, Requesting, Sent, Fresh, TypeInv, Vaulted

LEMMA RotationTry ==
    ASSUME TypeInv, NEW j \in Job, RotationInv(j), TryCredential(j)
    PROVE  RotationInv(j)'
<1>1. /\ pc[j] = "token" /\ pc'[j] \in {"token", "submit", "done"}
      /\ res'[j] \in {res[j], "failed", "noToken"}
      /\ UNCHANGED <<backend, current, attempt, hint, born, submits>>
  BY Values DEF TryCredential, Goto, Return, given, service
<1> QED
  BY <1>1, Values DEF RotationInv, ArtifactInv, VaultInv, Sent

LEMMA RotationSubmit ==
    ASSUME TypeInv, NEW j \in Job, RotationInv(j), Submit(j)
    PROVE  RotationInv(j)'
<1>1. /\ pc[j] = "submit" /\ pc'[j] \in {"poll", "check", "done"}
      /\ res'[j] \in {res[j], "failed"} /\ submits'[j] = submits[j] + 1
      /\ UNCHANGED <<backend, current, attempt, hint, born>>
  BY Values DEF Submit, Goto, Return, given
<1>2. pc'[j] = "poll" => operation'[j].state = "running"
  BY <1>1, Values DEF Submit, Goto, Return
<1>3. pc'[j] = "check" => answer'[j].cert = current
  BY <1>1, Values DEF Submit, Goto, Return, Signed
<1>4. backend = "artifact" /\ ArtifactInv(j)
  BY <1>1, Values DEF RotationInv, VaultInv
<1>5. Fresh(j, current) /\ Fresh(j, current)' = Fresh(j, current)
  BY <1>1, <1>4, Values DEF ArtifactInv, Fresh
<1>6. Sent(j)' = Sent(j) /\ submits[j] = Sent(j) /\ Sent(j) \in 0 .. 2
  BY <1>1, <1>4, Values DEF ArtifactInv, Sent
<1>7. Sent(j) = 2 => born[j] < current
  BY <1>4, Values DEF ArtifactInv, Sent
<1>8. ArtifactInv(j)'
  <2>1. pc'[j] = "check" => Fresh(j, answer[j].cert)'
    BY <1>1, <1>3, <1>5 DEF Fresh
  <2> QED
    BY <1>1, <1>2, <1>4, <1>6, <1>7, <2>1, Values DEF ArtifactInv
<1> QED
  BY <1>1, <1>4, <1>8 DEF RotationInv

LEMMA RotationPoll ==
    ASSUME TypeInv, NEW j \in Job, RotationInv(j), Poll(j)
    PROVE  RotationInv(j)'
<1>1. /\ pc[j] = "poll" /\ pc'[j] \in {"poll", "check", "done"}
      /\ res'[j] \in {res[j], "failed", "timedOut"}
      /\ UNCHANGED <<backend, current, attempt, hint, born, operation, submits>>
  BY Values DEF Poll, Goto, Return, given, service
<1>2. pc'[j] = "check" => operation[j].state = "succeeded" /\ answer'[j] = operation[j].answer
  BY <1>1, Values DEF Poll, Goto, Return
<1>3. backend = "artifact" /\ ArtifactInv(j)
  BY <1>1, Values DEF RotationInv, VaultInv
<1>4. ArtifactInv(j)'
  BY <1>1, <1>2, <1>3, Values DEF ArtifactInv, Fresh, Sent
<1> QED
  BY <1>1, <1>3, <1>4 DEF RotationInv

LEMMA RotationVault ==
    ASSUME TypeInv, NEW j \in Job, CmsInv(j), RotationInv(j), KvSign(j)
    PROVE  RotationInv(j)'
<1>1. /\ pc[j] = "kvSign" /\ pc'[j] \in {"check", "done"} /\ res'[j] \in {res[j], "failed"}
      /\ submits'[j] = submits[j] + 1 /\ UNCHANGED <<backend, named, signer, kv, hint>>
  BY Values DEF KvSign, Goto, Return, given, vault
<1>2. pc'[j] = "check" => answer'[j].cert = kv
  BY <1>1, Values DEF KvSign, Goto, Return
<1>3. backend = "keyVault"
  BY <1>1 DEF CmsInv
<1> QED
  BY <1>1, <1>2, <1>3, Values DEF RotationInv, VaultInv

LEMMA RotationCheck ==
    ASSUME TypeInv, NEW j \in Job, CmsInv(j), RotationInv(j), Check(j)
    PROVE  RotationInv(j)'
<1>1. /\ pc[j] = "check" /\ answer[j].cert # None
      /\ UNCHANGED <<backend, named, signer, kv, current, operation, answer, born, submits>>
  BY CheckCases, Numbers DEF CmsInv
<1>2. CASE backend = "keyVault"
  <2>1. kv \in Version /\ ~Changed(j)
    BY <1>1, <1>2 DEF RotationInv, VaultInv, Changed, TypeInv, Vaulted
  <2>2. j \in named => hint[j] # None
    BY <1>1, <1>2, <2>1, Numbers DEF RotationInv, VaultInv
  <2>3. Build(j)
    BY <2>1, <2>2, CheckCases
  <2>4. pc'[j] = "done" /\ res'[j] = "signed"
    BY <2>3, Values DEF Build, Return, Goto
  <2> QED
    BY <1>1, <1>2, <2>4 DEF RotationInv, VaultInv
<1>3. CASE backend = "artifact"
  <2>0. /\ ArtifactInv(j) /\ Fresh(j, answer[j].cert)
    BY <1>1, <1>3 DEF RotationInv, ArtifactInv
  <2>1. CASE hint[j] = None /\ Retry(j, 0)
    <3>1. pc'[j] = "token" /\ hint'[j] = answer[j].cert /\ attempt'[j] = 0 /\ res'[j] = res[j]
      BY <1>3, <2>1, Values DEF Retry, Goto, Requesting
    <3> QED
      BY <1>1, <1>3, <2>0, <2>1, <3>1, Values DEF RotationInv, ArtifactInv, Fresh, Sent
  <2>2. CASE Changed(j) /\ attempt[j] = 0 /\ Retry(j, 1)
    <3>1. pc'[j] = "token" /\ hint'[j] = answer[j].cert /\ attempt'[j] = 1 /\ res'[j] = res[j]
      BY <1>3, <2>2, Values DEF Retry, Goto, Requesting
    <3>4. hint[j] # None /\ hint[j] # answer[j].cert /\ Sent(j) = 1
      BY <2>2, Values DEF Changed, Sent
    <3>5. hint[j] <= answer[j].cert /\ answer[j].cert <= current
      BY <2>0, <3>4 DEF Fresh
    <3>6. born[j] <= hint[j] /\ submits[j] = 2 /\ res[j] # "changed"
      BY <1>1, <2>0, <2>2, <3>4, Values DEF ArtifactInv
    <3>7. hint[j] \in Nat /\ answer[j].cert \in Nat
      BY Values
    <3>8. hint[j] < answer[j].cert
      BY <3>4, <3>5, <3>7
    <3>2. /\ hint[j] # None /\ hint[j] < answer[j].cert /\ born[j] <= hint[j]
          /\ answer[j].cert <= current /\ submits[j] = 2 /\ res[j] # "changed"
      BY <3>4, <3>5, <3>6, <3>8
    <3>3. Sent(j)' = 2
      BY <1>1, <3>1, Values DEF Sent
    <3> QED
      BY <1>1, <1>3, <3>1, <3>2, <3>3, Values DEF RotationInv, ArtifactInv
  <2>3. CASE Changed(j) /\ attempt[j] = 1 /\ Return(j, "changed") /\ UNCHANGED <<hint, attempt>>
    <3>1. pc'[j] = "done" /\ res'[j] = "changed"
      BY <2>3, Values DEF Return, Goto
    <3>4. hint[j] # None /\ hint[j] # answer[j].cert /\ Sent(j) = 2
      BY <2>3, Values DEF Changed, Sent
    <3>5. hint[j] <= answer[j].cert /\ answer[j].cert <= current
      BY <2>0, <3>4 DEF Fresh
    <3>6. born[j] + 1 <= hint[j] /\ submits[j] = 3
      BY <1>1, <2>0, <2>3, <3>4, Values DEF ArtifactInv
    <3>7. hint[j] \in Nat /\ answer[j].cert \in Nat
      BY Values
    <3>8. hint[j] < answer[j].cert
      BY <3>4, <3>5, <3>7
    <3>2. /\ hint[j] # None /\ hint[j] < answer[j].cert /\ born[j] + 1 <= hint[j]
          /\ answer[j].cert <= current /\ submits[j] = 3
      BY <3>4, <3>5, <3>6, <3>8
    <3> QED
      BY <1>1, <1>3, <2>3, <3>1, <3>2, Values DEF RotationInv, ArtifactInv
  <2>4. CASE ~Changed(j) /\ Build(j)
    <3>1. pc'[j] = "done" /\ res'[j] = "signed" /\ UNCHANGED <<hint, attempt>>
      BY <2>4, Values DEF Build, Return, Goto
    <3> QED
      BY <1>1, <1>3, <2>0, <3>1, Values DEF RotationInv, ArtifactInv, Fresh, Sent
  <2> QED
    BY <2>1, <2>2, <2>3, <2>4, CheckCases
<1> QED
  BY <1>2, <1>3, Values

LEMMA RotationComplete ==
    ASSUME TypeInv, NEW j \in Job, RotationInv(j), Complete(j)
    PROVE  RotationInv(j)'
<1>1. UNCHANGED <<backend, named, signer, kv, current, pc, hint, attempt, answer, res, born, submits>>
  BY DEF Complete, given, vault
<1>2. CASE backend = "artifact"
  <2>1. operation'[j].state = "succeeded" => operation'[j].answer.cert = current
    <3>1. operation[j] \in OperationType
      BY DEF TypeInv, TypeOK, OperationType
    <3> QED
      BY <3>1, Values DEF Complete, OperationType, Signed
  <2>2. ArtifactInv(j)
    BY <1>2 DEF RotationInv
  <2>3. pc[j] = "poll" => Fresh(j, current)
    BY <2>2, Values DEF ArtifactInv, Fresh
  <2>4. pc'[j] = "poll" /\ operation'[j].state = "succeeded" => Fresh(j, operation[j].answer.cert)'
    BY <1>1, <2>1, <2>3 DEF Fresh
  <2>5. pc'[j] = "check" => Fresh(j, answer[j].cert)'
    BY <1>1, <2>2 DEF Fresh, ArtifactInv
  <2>6. Sent(j)' = Sent(j)
    BY <1>1 DEF Sent
  <2>7. ArtifactInv(j)'
    BY <1>1, <2>2, <2>4, <2>5, <2>6 DEF ArtifactInv
  <2> QED
    BY <1>1, <1>2, <2>7 DEF RotationInv
<1>3. CASE backend = "keyVault"
  BY <1>1, <1>3 DEF RotationInv, VaultInv
<1> QED
  BY <1>2, <1>3, Values

(* Neither another job, nor a rotation, nor the signer before it is ready.   *)
LEMMA RotationFrame ==
    ASSUME TypeInv, NEW i \in Job, CmsInv(i), RotationInv(i), Same(i),
           UNCHANGED <<backend, named>>, current' \in {current, current + 1},
           signer = "ready" => UNCHANGED <<signer, kv>>
    PROVE  RotationInv(i)'
<1>1. CASE backend = "artifact"
  <2>1. ArtifactInv(i) /\ Sent(i)' = Sent(i)
    BY <1>1 DEF RotationInv, Same, Sent
  <2>2. /\ Fresh(i, answer[i].cert) => Fresh(i, answer[i].cert)'
        /\ Fresh(i, operation[i].answer.cert) => Fresh(i, operation[i].answer.cert)'
    BY Values DEF Same, Fresh
  <2>3. ArtifactInv(i)'
    BY <2>1, <2>2, Values DEF ArtifactInv, Same
  <2> QED
    BY <1>1, <2>3 DEF RotationInv
<1>2. CASE backend = "keyVault"
  BY <1>2 DEF RotationInv, VaultInv, Same, CmsInv
<1> QED
  BY <1>1, <1>2, Values

LEMMA RotationStep ==
    ASSUME RotationInvAll, [Next]_vars
    PROVE  RotationInvAll'
<1>0. TypeInv /\ CmsInvAll'
  BY CmsStep DEF RotationInvAll, CmsInvAll
<1> SUFFICES ASSUME NEW i \in Job
             PROVE  RotationInv(i)'
  BY <1>0 DEF RotationInvAll
<1>1. CmsInv(i) /\ RotationInv(i)
  BY DEF CmsInvAll, RotationInvAll
<1>2. CASE SignerToken \/ SignerCertificate
  <2>1. Same(i) /\ UNCHANGED <<backend, named, current>> /\ signer # "ready"
    BY <1>2 DEF SignerToken, SignerCertificate, given, service, Same
  <2> QED
    BY <1>0, <1>1, <2>1, RotationFrame
<1>3. CASE Rotate \/ UNCHANGED vars
  <2>1. /\ Same(i) /\ UNCHANGED <<backend, named, signer, kv>>
        /\ current' \in {current, current + 1}
    BY <1>3 DEF Rotate, vars, given, vault, Same
  <2> QED
    BY <1>0, <1>1, <2>1, RotationFrame
<1>4. ASSUME NEW j \in Job, Work(j) \/ Complete(j)
      PROVE  RotationInv(i)'
  <2>1. CASE i # j
    <3>1. Same(i) /\ UNCHANGED <<backend, named, current, signer, kv>>
      BY <1>0, <1>4, <2>1, Frame, Shared
    <3> QED
      BY <1>0, <1>1, <3>1, RotationFrame
  <2>2. CASE i = j
    BY <1>0, <1>1, <1>4, <2>2, RotationStart, RotationTry, RotationSubmit, RotationPoll,
       RotationVault, RotationCheck, RotationComplete DEF Work
  <2> QED
    BY <2>1, <2>2
<1> QED
  BY <1>2, <1>3, <1>4 DEF Next

(* One rotation never fails a job, and a job sends at most three requests:   *)
(* the probe, the signature and one repetition that a rotation has forced.   *)
THEOREM SurvivesRotationAlways == Spec => []SurvivesRotation
<1>1. Init => RotationInvAll
  <2> SUFFICES ASSUME Init PROVE RotationInvAll
    OBVIOUS
  <2>1. CmsInvAll
    BY TypeInit DEF Init, CmsInv, CmsInvAll
  <2>2. ASSUME NEW j \in Job PROVE RotationInv(j)
    BY DEF Init, RotationInv, ArtifactInv, VaultInv, Sent, Backend, None
  <2> QED
    BY <2>1, <2>2 DEF RotationInvAll
<1>2. RotationInvAll /\ [Next]_vars => RotationInvAll'
  BY RotationStep
<1>3. RotationInvAll => SurvivesRotation
  <2> SUFFICES ASSUME RotationInvAll, NEW j \in Job
               PROVE  /\ res[j] = "changed" => current >= born[j] + 2
                      /\ submits[j] <= 3
                      /\ submits[j] = 3 => current > born[j]
    BY DEF SurvivesRotation
  <2>1. TypeInv /\ RotationInv(j) /\ pc[j] \in Pc
    BY DEF RotationInvAll, CmsInvAll, TypeInv, TypeOK
  <2>2. CASE backend = "artifact"
    BY <2>1, <2>2, Values DEF RotationInv, ArtifactInv, Sent, Pc
  <2>3. CASE backend = "keyVault"
    BY <2>1, <2>3, Values DEF RotationInv, VaultInv
  <2> QED
    BY <2>1, <2>2, <2>3, Values
<1> QED
  BY <1>1, <1>2, <1>3, PTL DEF Spec
-----------------------------------------------------------------------------
(* The credential chain.  That a job stays without a token once it ended so   *)
(* needs that it is done: only a job at work starts its chain anew.           *)
ChainInv(j) ==
    /\ tried[j] <= Len(chain)
    /\ res[j] = "noToken" => tried[j] = Len(chain) /\ pc[j] = "done"

LEMMA ChainStep ==
    ASSUME TypeInv, \A j \in Job : ChainInv(j), [Next]_vars, NEW i \in Job
    PROVE  ChainInv(i)'
<1>0. /\ tried \in [Job -> Nat] /\ pc \in [Job -> Pc] /\ res \in [Job -> Res]
      /\ Len(chain) \in Nat
  BY DEF TypeInv, TypeOK
<1>1. ChainInv(i)
  OBVIOUS
<1>2. chain' = chain
  BY DEF Next, SignerToken, SignerCertificate, Rotate, Work, Start, TryCredential, Submit, Poll,
         KvSign, Check, Complete, given, vars
<1>3. CASE SignerToken \/ SignerCertificate \/ Rotate \/ UNCHANGED vars
  BY <1>1, <1>2, <1>3 DEF ChainInv, SignerToken, SignerCertificate, Rotate, vars
<1>4. ASSUME NEW j \in Job, Work(j) \/ Complete(j) PROVE ChainInv(i)'
  <2>1. CASE TryCredential(j)
    BY <1>0, <1>1, <1>2, <2>1 DEF ChainInv, TryCredential, Goto, Return
  <2>2. CASE Check(j)
    <3>1. /\ pc[j] = "check"
          /\ \/ Retry(j, 0) \/ Retry(j, 1) \/ Build(j)
             \/ Return(j, "changed") /\ UNCHANGED <<cms, hint, attempt, tried>>
      BY <2>2 DEF Check
    <3> QED
      BY <1>0, <1>1, <1>2, <3>1 DEF ChainInv, Retry, Build, Goto, Return
  <2>3. CASE Start(j) \/ Complete(j)
    BY <1>0, <1>1, <1>2, <2>3 DEF ChainInv, Start, Complete, Goto
  <2>4. CASE Submit(j) \/ Poll(j) \/ KvSign(j)
    <3>1. tried' = tried /\ pc[j] # "done"
      BY <2>4 DEF Submit, Poll, KvSign
    <3>2. \/ res' = res /\ (pc' = pc \/ Goto(j, "poll") \/ Goto(j, "check"))
          \/ Return(j, "failed") \/ Return(j, "timedOut")
      BY <2>4 DEF Submit, Poll, KvSign
    <3> QED
      BY <1>0, <1>1, <1>2, <3>1, <3>2 DEF ChainInv, Goto, Return
  <2> QED
    BY <1>4, <2>1, <2>2, <2>3, <2>4 DEF Work
<1> QED
  BY <1>3, <1>4 DEF Next

(* A job ends for want of a token only after the whole chain was asked for    *)
(* the request at hand, however often the chain was started anew.             *)
THEOREM ChainIsExhaustedAlways == Spec => []ChainIsExhausted
<1> DEFINE Inv == TypeInv /\ \A j \in Job : ChainInv(j)
<1>1. Init => Inv
  <2> SUFFICES ASSUME Init PROVE Inv
    OBVIOUS
  <2>1. TypeInv
    BY TypeInit
  <2>2. Len(chain) \in Nat
    BY <2>1 DEF TypeInv, TypeOK
  <2> QED
    BY <2>1, <2>2 DEF Init, ChainInv
<1>2. Inv /\ [Next]_vars => Inv'
  BY TypeStep, ChainStep
<1>3. Inv => ChainIsExhausted
  BY DEF ChainInv, ChainIsExhausted
<1> QED
  BY <1>1, <1>2, <1>3, PTL DEF Spec

(* A job gives up only when rotations or its credentials leave it no choice.  *)
THEOREM GivesUpOnlyWhenForcedAlways == Spec => []GivesUpOnlyWhenForced
<1>1. SurvivesRotation /\ ChainIsExhausted => GivesUpOnlyWhenForced
  BY DEF GivesUpOnlyWhenForced
<1> QED
  BY <1>1, SurvivesRotationAlways, ChainIsExhaustedAlways, PTL

-----------------------------------------------------------------------------
(* File catalogs.                                                             *)

(* The files of the disk are paths of the tree.                              *)
DiskIsOfTree == DOMAIN disk \subseteq DOMAIN Tree

(* A catalog is one document with at most one signer, whose attributes are   *)
(* over the list the catalog was made with, whatever became of the list.     *)
CatalogIsVouched ==
    \/ cat = <<>>
    \/ /\ cat = <<cat[1]>>
       /\ cat[1] = [content |-> cat[1].content, alg |-> cat[1].alg, signers |-> cat[1].signers]
       /\ made.content = <<"ctl", made.content[2]>>
       /\ \/ cat[1].signers = <<>>
          \/ /\ cat[1].signers = <<cat[1].signers[1]>>
             /\ cat[1].signers[1].attrs.messageDigest[2] = made.content

(* Every member was made of the file that is noted under its key, and there  *)
(* is one member for every key.                                              *)
MemberIsOf(m, f) ==
    /\ m = catalog_ctl_entry(m.name, f, m.alg)
    /\ Key(m.name) \in DOMAIN made.listed
    /\ made.listed[Key(m.name)] = f

MembersAreOfFiles ==
    cat # <<>> =>
        /\ DOMAIN made.listed # {}
        /\ {Key(m.name) : m \in made.content[2]} = DOMAIN made.listed
        /\ \A m \in made.content[2] : \E f : MemberIsOf(m, f)
        /\ \A m, n \in made.content[2] : Key(m.name) = Key(n.name) => m = n

(* The subjects of a request in a tree of files, without the catalog.        *)
PathsOf(request) == IF request = <<>> THEN <<Cwd>> ELSE request

NameOf(paths, i, p) ==
    IF Len(paths) = 1 /\ paths[i] \in Dirs THEN catalog_relative_name(paths[i], p)
    ELSE catalog_file_name(p)

SubjectsIn(files, paths) ==
    UNION {{[path |-> p, at |-> i, name |-> NameOf(paths, i, p)] :
                p \in {q \in files : IsPrefix(paths[i], q) /\ q # CatPath}} : i \in DOMAIN paths}

(* The list is that of the tree as it was when the catalog was made.         *)
ListIsOfTree(alg) ==
    LET paths == PathsOf(made.paths)
        subjects == SubjectsIn(DOMAIN made.disk, paths)
    IN /\ ToSet(paths) \subseteq Dirs \cup DOMAIN made.disk \cup {CatPath}
       /\ ~reject_duplicate_catalog_member_names(subjects)
       /\ subjects # {}
       /\ made.content = <<"ctl", {catalog_ctl_entry(s.name, made.disk[s.path], alg) : s \in subjects}>>

ListIsKept ==
    (cat # <<>> /\ CatPath \notin ToSet(made.paths)) => \E alg : ListIsOfTree(alg)

CatalogInv ==
    /\ DiskIsOfTree /\ edits \in 0..MaxEdits
    /\ CatalogIsVouched /\ MembersAreOfFiles /\ ListIsKept
-----------------------------------------------------------------------------
(* Digests and contents.                                                     *)

(* The cells a digest leaves out are no content and no padding.              *)
LEMMA HashedCells ==
    ASSUME NEW f, IsImage(f)
    PROVE  LET n == Len(f.data) - f.size
           IN /\ n \in Nat /\ n <= Len(f.data)
              /\ Len(SubSeq(f.data, 1, n)) = n
              /\ \A i \in 1..n : SubSeq(f.data, 1, n)[i] = f.data[i]
              /\ DOMAIN f.data = 1..Len(f.data)
<1> DEFINE d == f.data
           S == ToSet(f.data)
           n == Len(d) - f.size
<1>1. d \in Seq(S) /\ f.size \in 0..Len(d)
  BY DEF IsImage
<1> HIDE DEF d, S
<1>2. n \in Nat /\ n <= Len(d) /\ DOMAIN d = 1..Len(d) /\ Len(d) \in Nat
  BY <1>1
<1>3. Len(SubSeq(d, 1, n)) = n /\ \A i \in 1..n : SubSeq(d, 1, n)[i] = d[i]
  BY <1>1, <1>2
<1> QED
  BY <1>2, <1>3 DEF d

(* Images with one digest hold the same content.                             *)
LEMMA SameHashedCells ==
    ASSUME NEW f, NEW g, IsImage(f), IsImage(g), f.hdr = g.hdr,
           SubSeq(f.data, 1, Len(f.data) - f.size) = SubSeq(g.data, 1, Len(g.data) - g.size)
    PROVE  Held(f) = Held(g)
<1> DEFINE n == Len(f.data) - f.size
           k == Len(g.data) - g.size
<1>1. /\ n \in Nat /\ n <= Len(f.data) /\ DOMAIN f.data = 1..Len(f.data)
      /\ Len(SubSeq(f.data, 1, n)) = n
      /\ \A i \in 1..n : SubSeq(f.data, 1, n)[i] = f.data[i]
  BY HashedCells
<1>2. /\ k \in Nat /\ k <= Len(g.data) /\ DOMAIN g.data = 1..Len(g.data)
      /\ Len(SubSeq(g.data, 1, k)) = k
      /\ \A i \in 1..k : SubSeq(g.data, 1, k)[i] = g.data[i]
  BY HashedCells
<1>3. Len(f.data) \in Nat /\ Len(g.data) \in Nat
  BY DEF IsImage
<1>4. n = k /\ \A i \in 1..n : f.data[i] = g.data[i]
  BY <1>1, <1>2
<1>5. /\ \A i \in 1..Len(f.data) : f.data[i][1] \in {"code", "pad"} <=> i <= n
      /\ \A i \in 1..Len(g.data) : g.data[i][1] \in {"code", "pad"} <=> i <= k
  BY <1>1, <1>2 DEF IsImage
<1>6. Cells(f, "code") = Cells(g, "code")
  <2>1. /\ Cells(f, "code") = {<<i, f.data[i]>> : i \in {j \in 1..n : f.data[j][1] = "code"}}
        /\ Cells(g, "code") = {<<i, g.data[i]>> : i \in {j \in 1..n : g.data[j][1] = "code"}}
    <3>1. {j \in DOMAIN f.data : f.data[j][1] = "code"} = {j \in 1..n : f.data[j][1] = "code"}
      BY <1>1, <1>3, <1>5
    <3>2. {j \in DOMAIN g.data : g.data[j][1] = "code"} = {j \in 1..n : g.data[j][1] = "code"}
      BY <1>2, <1>3, <1>4, <1>5
    <3> QED
      BY <3>1, <3>2 DEF Cells
  <2>2. /\ {j \in 1..n : f.data[j][1] = "code"} = {j \in 1..n : g.data[j][1] = "code"}
        /\ \A i \in {j \in 1..n : f.data[j][1] = "code"} : <<i, f.data[i]>> = <<i, g.data[i]>>
    BY <1>4
  <2> HIDE DEF n, k
  <2>3. ASSUME NEW J, \A i \in J : <<i, f.data[i]>> = <<i, g.data[i]>>
        PROVE  {<<i, f.data[i]>> : i \in J} = {<<i, g.data[i]>> : i \in J}
    BY <2>3, Zenon
  <2> QED
    BY <2>1, <2>2, <2>3
<1>7. f.fmt = "pe" /\ g.fmt = "pe"
  BY DEF IsImage
<1> QED
  BY <1>6, <1>7 DEF Held

(* Images with the same content and the same padding have one digest.        *)
LEMMA SameDigest ==
    ASSUME NEW f, NEW g, IsImage(f), IsImage(g), f.hdr = g.hdr,
           Cells(f, "code") = Cells(g, "code"), Cells(f, "pad") = Cells(g, "pad")
    PROVE  SubSeq(f.data, 1, Len(f.data) - f.size) = SubSeq(g.data, 1, Len(g.data) - g.size)
<1> DEFINE n == Len(f.data) - f.size
           k == Len(g.data) - g.size
<1>1. /\ n \in Nat /\ n <= Len(f.data) /\ DOMAIN f.data = 1..Len(f.data)
  BY HashedCells
<1>2. /\ k \in Nat /\ k <= Len(g.data) /\ DOMAIN g.data = 1..Len(g.data)
  BY HashedCells
<1>3. Len(f.data) \in Nat /\ Len(g.data) \in Nat
  BY DEF IsImage
<1>5. /\ \A i \in 1..Len(f.data) : f.data[i][1] \in {"code", "pad"} <=> i <= n
      /\ \A i \in 1..Len(g.data) : g.data[i][1] \in {"code", "pad"} <=> i <= k
  BY <1>1, <1>2 DEF IsImage
<1>6. ASSUME NEW i \in 1..n PROVE i \in 1..k /\ f.data[i] = g.data[i]
  <2>1. i \in DOMAIN f.data /\ f.data[i][1] \in {"code", "pad"}
    BY <1>1, <1>3, <1>5
  <2>2. <<i, f.data[i]>> \in Cells(f, "code") \/ <<i, f.data[i]>> \in Cells(f, "pad")
    BY <2>1 DEF Cells
  <2>3. <<i, f.data[i]>> \in Cells(g, "code") \/ <<i, f.data[i]>> \in Cells(g, "pad")
    BY <2>2
  <2>4. i \in DOMAIN g.data /\ f.data[i] = g.data[i] /\ g.data[i][1] \in {"code", "pad"}
    BY <2>3 DEF Cells
  <2> QED
    BY <1>2, <1>3, <1>5, <2>4
<1>7. ASSUME NEW i \in 1..k PROVE i \in 1..n
  <2>1. i \in DOMAIN g.data /\ g.data[i][1] \in {"code", "pad"}
    BY <1>2, <1>3, <1>5
  <2>2. <<i, g.data[i]>> \in Cells(g, "code") \/ <<i, g.data[i]>> \in Cells(g, "pad")
    BY <2>1 DEF Cells
  <2>3. <<i, g.data[i]>> \in Cells(f, "code") \/ <<i, g.data[i]>> \in Cells(f, "pad")
    BY <2>2
  <2>4. i \in DOMAIN f.data /\ f.data[i] = g.data[i] /\ f.data[i][1] \in {"code", "pad"}
    BY <2>3 DEF Cells
  <2> QED
    BY <1>1, <1>3, <1>5, <2>4
<1>8. n = k
  <2> HIDE DEF n, k
  <2>1. n \in Nat /\ k \in Nat /\ \A i : i \in 1..n <=> i \in 1..k
    BY <1>1, <1>2, <1>6, <1>7
  <2>2. ~(n < k)
    <3>1. SUFFICES ASSUME n < k PROVE FALSE
      OBVIOUS
    <3>2. k \in 1..k /\ k \notin 1..n
      BY <2>1, <3>1
    <3> QED
      BY <2>1, <3>2
  <2>3. ~(k < n)
    <3>1. SUFFICES ASSUME k < n PROVE FALSE
      OBVIOUS
    <3>2. n \in 1..n /\ n \notin 1..k
      BY <2>1, <3>1
    <3> QED
      BY <2>1, <3>2
  <2> QED
    BY <2>1, <2>2, <2>3
<1>9. \A i \in 1..n : f.data[i] = g.data[i]
  BY <1>6
<1> HIDE DEF n, k
<1>10. /\ SubSeq(f.data, 1, n) = [i \in 1..n |-> f.data[i]]
       /\ SubSeq(g.data, 1, n) = [i \in 1..n |-> g.data[i]]
  <2>1. ASSUME NEW S, NEW s \in Seq(S), n <= Len(s)
        PROVE  SubSeq(s, 1, n) = [i \in 1..n |-> s[i]]
    BY <1>1, <2>1
  <2>2. f.data \in Seq(ToSet(f.data)) /\ g.data \in Seq(ToSet(g.data))
    BY DEF IsImage
  <2> QED
    BY <1>1, <1>2, <1>8, <2>1, <2>2
<1>11. SubSeq(f.data, 1, n) = SubSeq(g.data, 1, k)
  BY <1>8, <1>9, <1>10
<1> QED
  BY <1>11 DEF n, k

(* A file with the digest of a member holds what the listed file held, as    *)
(* far as a digest can tell.                                                 *)
LEMMA DigestTellsContent ==
    ASSUME NEW f, NEW g, NEW name, NEW alg,
           catalog_ctl_entry(name, f, alg).digest
               \in catalog_member_digest_for_subject(catalog_ctl_entry(name, f, alg), g)
    PROVE  SameHeld(g, f)
<1> DEFINE kind == IF f.fmt = "pe" THEN "pe" ELSE "flat"
<1>1. /\ kind = "pe" => g.fmt = "pe"
      /\ catalog_subject_digest(f, kind, alg) = catalog_subject_digest(g, kind, alg)
  BY DEF catalog_ctl_entry, catalog_member_digest_for_subject, When
<1>2. CASE f.fmt = "pe"
  <2>1. pe_authenticode_digest(f, alg) = pe_authenticode_digest(g, alg) /\ g.fmt = "pe"
    BY <1>1, <1>2 DEF catalog_subject_digest
  <2>2. /\ f.hdr = g.hdr
        /\ SubSeq(f.data, 1, Len(f.data) - f.size) = SubSeq(g.data, 1, Len(g.data) - g.size)
    BY <2>1 DEF pe_authenticode_digest, Hash
  <2> QED
    BY <1>2, <2>1, <2>2, SameHashedCells DEF SameHeld
<1>3. CASE f.fmt # "pe"
  <2>1. Bytes(f) = Bytes(g)
    BY <1>1, <1>3 DEF catalog_subject_digest, Hash
  <2>2. g.fmt # "pe"
    BY <1>3, <2>1 DEF Bytes
  <2> QED
    BY <1>3, <2>1, <2>2 DEF Held, SameHeld
<1> QED
  BY <1>2, <1>3

(* A file that did not change still has the digest it is listed with.        *)
LEMMA UnchangedKeepsDigest ==
    ASSUME NEW f, NEW g, NEW name, NEW alg, Unchanged(g, f)
    PROVE  catalog_ctl_entry(name, f, alg).digest
               \in catalog_member_digest_for_subject(catalog_ctl_entry(name, f, alg), g)
<1> DEFINE kind == IF f.fmt = "pe" THEN "pe" ELSE "flat"
<1>1. SUFFICES /\ kind = "pe" => g.fmt = "pe"
               /\ catalog_subject_digest(f, kind, alg) = catalog_subject_digest(g, kind, alg)
  BY DEF catalog_ctl_entry, catalog_member_digest_for_subject, When
<1>2. CASE f = g
  BY <1>2
<1>3. CASE IsImage(f) /\ IsImage(g) /\ Held(g) = Held(f) /\ Cells(g, "pad") = Cells(f, "pad")
  <2>0. f.fmt = "pe" /\ g.fmt = "pe"
    BY <1>3 DEF IsImage
  <2>1. f.hdr = g.hdr /\ Cells(f, "code") = Cells(g, "code")
    BY <1>3, <2>0 DEF Held
  <2>2. SubSeq(f.data, 1, Len(f.data) - f.size) = SubSeq(g.data, 1, Len(g.data) - g.size)
    BY <1>3, <2>1, SameDigest
  <2> QED
    BY <2>0, <2>1, <2>2 DEF catalog_subject_digest, pe_authenticode_digest
<1> QED
  BY <1>2, <1>3 DEF Unchanged
-----------------------------------------------------------------------------
(* An image that is signed is whole.                                         *)

LEMMA SeqMonotone ==
    ASSUME NEW S, NEW T, S \subseteq T, NEW s \in Seq(S)
    PROVE  s \in Seq(T)
OBVIOUS

(* The cells of one sequence behind those of another.                        *)
Joined(u, s, t) ==
    /\ Len(u) = Len(s) + Len(t)
    /\ \A i \in 1..Len(s) : u[i] = s[i]
    /\ \A i \in 1..Len(t) : u[Len(s) + i] = t[i]

LEMMA Concatenation ==
    \A S, T : \A s \in Seq(S), t \in Seq(T) : s \o t \in Seq(S \cup T) /\ Joined(s \o t, s, t)
<1> SUFFICES ASSUME NEW S, NEW T, NEW s \in Seq(S), NEW t \in Seq(T)
             PROVE  s \o t \in Seq(S \cup T) /\ Joined(s \o t, s, t)
  OBVIOUS
<1> DEFINE U == S \cup T
<1>1. s \in Seq(U) /\ t \in Seq(U)
  BY SeqMonotone
<1> HIDE DEF U
<1>2. s \o t \in Seq(U) /\ Joined(s \o t, s, t)
  BY <1>1 DEF Joined
<1> QED
  BY <1>2 DEF U

LEMMA BlankCells ==
    ASSUME NEW n \in Nat, NEW kind
    PROVE  /\ Blank(n, kind) \in Seq({Cell(kind, "")}) /\ Len(Blank(n, kind)) = n
           /\ \A i \in 1..n : Blank(n, kind)[i][1] = kind
BY DEF Blank, Cell

LEMMA PaddingIsNat == ASSUME NEW n \in Nat PROVE Padding(n) \in Nat
<1>1. Align \in Nat \ {0}
  BY CatalogAssumption
<1>2. n % Align \in 0..(Align - 1)
  BY <1>1
<1> QED
  BY <1>1, <1>2 DEF Padding

(* A document is made over its content and without a token, and a timestamp   *)
(* changes neither the content nor the attributes.                            *)
IsNewDocument(c, content, attrs) ==
    /\ c.content = <<content>> /\ c.attrs = attrs /\ c.tokens = <<>>
    /\ c = [content |-> c.content, alg |-> c.alg, sid |-> c.sid, certs |-> c.certs,
            attrs |-> c.attrs, sigval |-> c.sigval, tokens |-> c.tokens]

LEMMA NewDocument ==
    \A content, alg, holder, others, attrs, sigval :
        \A c \in create_pkcs7_with_signature(content, TRUE, alg, holder, others, attrs, sigval) :
            IsNewDocument(c, content, attrs)
<1> SUFFICES ASSUME NEW content, NEW alg, NEW holder, NEW others, NEW attrs, NEW sigval,
                    NEW c \in create_pkcs7_with_signature(content, TRUE, alg, holder, others,
                                                          attrs, sigval)
             PROVE  IsNewDocument(c, content, attrs)
  BY Zenon
<1>1. c = [content |-> <<content>>, alg |-> alg, sid |-> holder,
           certs |-> ToSet(<<holder>> \o others), attrs |-> attrs, sigval |-> sigval, tokens |-> <<>>]
  BY Zenon DEF create_pkcs7_with_signature
<1> QED
  BY <1>1 DEF IsNewDocument

IsSignedOver(c, alg, content) ==
    \E attrs : attrs.messageDigest = Hash(alg, content) /\ IsNewDocument(c, content, attrs)

LEMMA DocumentMade ==
    \A m, profile, alg, content, now : \A c \in create_pkcs7(m, profile, TRUE, alg, content, now) :
        IsSignedOver(c, alg, content)
<1> SUFFICES ASSUME NEW m, NEW profile, NEW alg, NEW content, NEW now,
                    NEW c \in create_pkcs7(m, profile, TRUE, alg, content, now)
             PROVE  IsSignedOver(c, alg, content)
  BY Zenon
<1> DEFINE attrs(s) == pkcs7_signed_attrs(profile, alg, content, s[1], now)
<1>1. PICK s \in load_signing_provider(m) :
          c \in create_pkcs7_with_signature(content, TRUE, alg, s[1], s[2], attrs(s),
                  ProviderSign(m, signed_attrs_digest(alg, attrs(s))))
  BY Zenon DEF create_pkcs7
<1>2. attrs(s).messageDigest = Hash(alg, content)
  BY DEF pkcs7_signed_attrs
<1>3. IsNewDocument(c, content, attrs(s))
  <2> HIDE DEF attrs
  <2> QED
    BY <1>1, NewDocument, Zenon
<1> QED
  BY <1>2, <1>3 DEF IsSignedOver

LEMMA TimestampedDocument ==
    ASSUME NEW c, NEW content, NEW attrs, IsNewDocument(c, content, attrs),
           NEW reply, NEW t \in maybe_timestamp_pkcs7(c, reply)
    PROVE  /\ t.content = c.content /\ t.attrs = c.attrs
           /\ Width(t) \in Nat \ {0}
<1>1. CASE t = c
  <2>1. Cardinality(DOMAIN t.tokens) = 0
    BY <1>1, FS_EmptySet DEF IsNewDocument
  <2> QED
    BY <1>1, <2>1 DEF Width
<1>2. CASE \E oid, x : t = add_timestamp_token(c, oid, x)
  <2>1. PICK oid, x : t = add_timestamp_token(c, oid, x)
    BY <1>2
  <2>2. /\ t.content = c.content /\ t.attrs = c.attrs
        /\ t.tokens = [o \in DOMAIN c.tokens \cup {oid} |-> IF o = oid THEN x ELSE c.tokens[o]]
    BY <2>1 DEF add_timestamp_token, IsNewDocument
  <2>3. DOMAIN t.tokens = {oid}
    BY <2>2 DEF IsNewDocument
  <2>4. Cardinality(DOMAIN t.tokens) = 1
    BY <2>3, FS_Singleton
  <2> QED
    BY <2>2, <2>4 DEF Width
<1> QED
  BY <1>1, <1>2 DEF maybe_timestamp_pkcs7, timestamp_pkcs7

LEMMA RowCells ==
    ASSUME NEW doc, Width(doc) \in Nat \ {0}
    PROVE  /\ wrap_win_certificate(doc) \in Seq({Cell("cms", doc), Cell("fill", "")})
           /\ Len(wrap_win_certificate(doc)) \in Nat \ {0}
<1> DEFINE C == {Cell("cms", doc), Cell("fill", "")}
           first == <<Cell("cms", doc)>>
           body == Blank(Width(doc) - 1, "fill")
           rest == Blank(Padding(Width(doc)), "fill")
<1>1. body \in Seq({Cell("fill", "")}) /\ rest \in Seq({Cell("fill", "")})
  <2>1. Width(doc) - 1 \in Nat /\ Padding(Width(doc)) \in Nat
    BY PaddingIsNat
  <2> QED
    BY <2>1, BlankCells
<1>2. ASSUME NEW s \in Seq({Cell("fill", "")}) PROVE s \in Seq(C)
  <2>1. {Cell("fill", "")} \subseteq C
    OBVIOUS
  <2> QED
    BY <2>1, SeqMonotone
<1>3. first \in Seq(C) /\ Len(first) = 1
  <2>1. Cell("cms", doc) \in C
    OBVIOUS
  <2> HIDE DEF C
  <2> QED
    BY <2>1
<1>4. body \in Seq(C) /\ rest \in Seq(C)
  BY <1>1, <1>2
<1> HIDE DEF C, body, rest, first
<1>5. (first \o body) \o rest \in Seq(C) /\ Len((first \o body) \o rest) \in Nat \ {0}
  BY <1>3, <1>4
<1> QED
  BY <1>5 DEF C, body, rest, first, wrap_win_certificate, SignatureCells

LEMMA SeqOfItsCells ==
    ASSUME NEW S, NEW s \in Seq(S)
    PROVE  s \in Seq(ToSet(s))
BY DEF ToSet

(* A whole image of its parts.                                               *)
PeFile(hdr, ptr, size, data) ==
    [fmt |-> "pe", hdr |-> hdr, ptr |-> ptr, size |-> size, data |-> data]

LEMMA ImageOf ==
    ASSUME NEW S, NEW d \in Seq(S), NEW hdr, NEW ptr \in Nat, NEW size \in 0..Len(d),
           (ptr # 0 /\ size # 0) => ptr + size = Align + Len(d),
           \A i \in 1..Len(d) : d[i][1] \in {"code", "pad"} <=> i <= Len(d) - size
    PROVE  IsImage(PeFile(hdr, ptr, size, d))
<1> USE DEF PeFile
<1> DEFINE f == PeFile(hdr, ptr, size, d)
<1>1. f = [fmt |-> "pe", hdr |-> f.hdr, ptr |-> f.ptr, size |-> f.size, data |-> f.data]
  OBVIOUS
<1>2. f.data \in Seq(ToSet(f.data))
  BY SeqOfItsCells
<1>3. f.ptr \in Nat /\ f.size \in 0..Len(f.data)
  OBVIOUS
<1>4. HasTable(f) => f.ptr + f.size = PeLength(f)
  BY DEF HasTable, PeLength
<1>5. \A i \in DOMAIN f.data : f.data[i][1] \in {"code", "pad"} <=> i <= Len(f.data) - f.size
  OBVIOUS
<1> HIDE DEF f
<1>6. IsImage(f)
  BY <1>1, <1>2, <1>3, <1>4, <1>5 DEF IsImage
<1> QED
  BY <1>6 DEF f

(* An image with other data, or another directory.                           *)
LEMMA DataUpdate ==
    ASSUME NEW f, IsImage(f), NEW d
    PROVE  [f EXCEPT !.data = d] = PeFile(f.hdr, f.ptr, f.size, d)
<1> DEFINE h == f.hdr
           p == f.ptr
           z == f.size
           x == f.data
<1>1. f = [fmt |-> "pe", hdr |-> h, ptr |-> p, size |-> z, data |-> x]
  BY DEF IsImage
<1> HIDE DEF h, p, z, x
<1>2. [f EXCEPT !.data = d] = PeFile(h, p, z, d)
  BY <1>1 DEF PeFile
<1> QED
  BY <1>2 DEF h, p, z, x

LEMMA DirectoryUpdate ==
    \A h, p, z, x, ptr, size : Directory(PeFile(h, p, z, x), ptr, size) = PeFile(h, ptr, size, x)
<1> SUFFICES ASSUME NEW h, NEW p, NEW z, NEW x, NEW ptr, NEW size
             PROVE  Directory(PeFile(h, p, z, x), ptr, size) = PeFile(h, ptr, size, x)
  OBVIOUS
<1> DEFINE f == PeFile(h, p, z, x)
           g == [f EXCEPT !.ptr = ptr, !.size = size]
<1>1. g = [i \in {"fmt", "hdr", "ptr", "size", "data"} |-> g[i]]
  BY DEF PeFile
<1>2. g.fmt = "pe" /\ g.hdr = h /\ g.ptr = ptr /\ g.size = size /\ g.data = x
  BY DEF PeFile
<1> HIDE DEF g
<1>3. g = PeFile(h, ptr, size, x)
  BY <1>1, <1>2 DEF PeFile
<1> QED
  BY <1>3 DEF g, Directory

LEMMA ImageUpdate ==
    ASSUME NEW f, IsImage(f), NEW d, NEW ptr, NEW size
    PROVE  Directory([f EXCEPT !.data = d], ptr, size) = PeFile(f.hdr, ptr, size, d)
BY DataUpdate, DirectoryUpdate

(* The parts of a whole image with a table.                                  *)
LEMMA TableParts ==
    ASSUME NEW f, IsImage(f), HasTable(f)
    PROVE  LET n == Len(f.data) - f.size
               S == ToSet(f.data)
           IN /\ n \in Nat /\ f.ptr - Align = n /\ f.size \in Nat
              /\ f.data \in Seq(S) /\ Len(f.data) \in Nat
              /\ BeforeTable(f) \in Seq(S) /\ Len(BeforeTable(f)) = n
              /\ \A i \in 1..n : BeforeTable(f)[i] = f.data[i]
              /\ Table(f) \in Seq(S) /\ Len(Table(f)) = f.size
              /\ \A i \in 1..f.size : Table(f)[i] = f.data[n + i]
              /\ AfterTable(f) \in Seq(S) /\ Len(AfterTable(f)) = 0
<1> DEFINE d == f.data
           S == ToSet(f.data)
           n == Len(d) - f.size
<1>1. d \in Seq(S) /\ f.size \in 0..Len(d) /\ f.ptr \in Nat /\ f.ptr + f.size = Align + Len(d)
  BY DEF IsImage, PeLength
<1>2. Align \in Nat
  BY CatalogAssumption
<1>3. /\ BeforeTable(f) = SubSeq(d, 1, f.ptr - Align)
      /\ Table(f) = SubSeq(d, f.ptr - Align + 1, f.ptr - Align + f.size)
      /\ AfterTable(f) = SubSeq(d, f.ptr - Align + f.size + 1, Len(d))
  BY DEF BeforeTable, Table, AfterTable
<1> HIDE DEF d, S
<1>4. n \in Nat /\ f.ptr - Align = n /\ Len(d) \in Nat /\ n + f.size = Len(d) /\ f.size \in Nat
  BY <1>1, <1>2, SMTT(60)
<1> HIDE DEF n
<1>5. /\ BeforeTable(f) = SubSeq(d, 1, n) /\ Table(f) = SubSeq(d, n + 1, Len(d))
      /\ AfterTable(f) = SubSeq(d, Len(d) + 1, Len(d))
  BY <1>3, <1>4
<1>6. /\ SubSeq(d, 1, n) \in Seq(S) /\ Len(SubSeq(d, 1, n)) = n
      /\ \A i \in 1..n : SubSeq(d, 1, n)[i] = d[i]
  BY <1>1, <1>4
<1>7. /\ SubSeq(d, n + 1, Len(d)) \in Seq(S) /\ Len(SubSeq(d, n + 1, Len(d))) = f.size
      /\ \A i \in 1..f.size : SubSeq(d, n + 1, Len(d))[i] = d[n + i]
  BY <1>1, <1>4
<1>8. SubSeq(d, Len(d) + 1, Len(d)) \in Seq(S) /\ Len(SubSeq(d, Len(d) + 1, Len(d))) = 0
  BY <1>1, <1>4
<1> QED
  BY <1>1, <1>4, <1>5, <1>6, <1>7, <1>8 DEF d, S, n

LEMMA RemovedImage ==
    ASSUME NEW f, IsImage(f), NEW r \in pe_remove(f)
    PROVE  IsImage(r)
<1>1. CASE ~HasTable(f)
  BY <1>1 DEF pe_remove
<1>2. CASE HasTable(f)
  <2> DEFINE n == Len(f.data) - f.size
             S == ToSet(f.data)
             b == BeforeTable(f)
             a == AfterTable(f)
             d == b \o a
  <2>1. /\ n \in Nat /\ b \in Seq(S) /\ Len(b) = n /\ \A i \in 1..n : b[i] = f.data[i]
        /\ a \in Seq(S) /\ Len(a) = 0
    BY <1>2, TableParts
  <2>2. \A i \in 1..n : f.data[i][1] \in {"code", "pad"}
    BY <2>1, HashedCells DEF IsImage
  <2>3. r = PeFile(f.hdr, 0, 0, d)
    <3>1. r = Directory([f EXCEPT !.data = d], 0, 0)
      BY <1>2, Zenon DEF pe_remove, When
    <3> HIDE DEF d
    <3> QED
      BY <3>1, ImageUpdate
  <2> HIDE DEF n, S, a, b
  <2>4. d \in Seq(S) /\ Len(d) = n /\ \A i \in 1..n : d[i] = b[i]
    BY <2>1
  <2>5. \A i \in 1..Len(d) : d[i][1] \in {"code", "pad"} <=> i <= Len(d) - 0
    BY <2>1, <2>2, <2>4
  <2> HIDE DEF d
  <2>6. 0 \in Nat /\ 0 \in 0..Len(d)
    BY <2>1, <2>4
  <2> QED
    BY <2>3, <2>4, <2>5, <2>6, ImageOf
<1> QED
  BY <1>1, <1>2

LEMMA PreparedImage ==
    ASSUME NEW f, IsImage(f), NEW r \in pe_prepare(f)
    PROVE  IsImage(r)
<1>1. CASE r = f
  BY <1>1
<1>2. CASE TableAligned(f) /\ f.ptr = 0
  <2> DEFINE S == ToSet(f.data)
             k == Padding(PeLength(f))
             pad == Blank(k, "pad")
             T == {Cell("pad", "")}
             d == f.data \o pad
  <2>1. f.ptr = 0 /\ f.size = 0 /\ f.data \in Seq(S) /\ Len(f.data) \in Nat
    BY <1>2 DEF TableAligned, HasTable, IsImage
  <2>2. k \in Nat
    <3>1. PeLength(f) \in Nat
      BY <2>1, CatalogAssumption DEF PeLength
    <3> QED
      BY <3>1, PaddingIsNat
  <2>3. pad \in Seq(T) /\ Len(pad) = k /\ \A i \in 1..k : pad[i][1] = "pad"
    BY <2>2, BlankCells
  <2>4. \A i \in 1..Len(f.data) : f.data[i][1] \in {"code", "pad"}
    BY <2>1, HashedCells DEF IsImage
  <2>5. r = PeFile(f.hdr, 0, 0, d)
    <3>1. r = [f EXCEPT !.data = d]
      BY <1>2 DEF pe_prepare
    <3> HIDE DEF d
    <3> QED
      BY <2>1, <3>1, DataUpdate
  <2> HIDE DEF S, T, k, pad
  <2>6. d \in Seq(S \cup T) /\ Joined(d, f.data, pad)
    BY <2>1, <2>3, Concatenation
  <2> HIDE DEF d
  <2>6a. /\ Len(d) = Len(f.data) + Len(pad)
         /\ \A i \in 1..Len(f.data) : d[i] = f.data[i]
         /\ \A i \in 1..Len(pad) : d[Len(f.data) + i] = pad[i]
    BY <2>6 DEF Joined
  <2>7. Len(d) = Len(f.data) + k /\ Len(d) \in Nat
    BY <2>1, <2>2, <2>3, <2>6a
  <2>8. ASSUME NEW i \in 1..Len(d) PROVE d[i][1] \in {"code", "pad"}
    <3>1. CASE i <= Len(f.data)
      BY <2>1, <2>4, <2>6a, <3>1
    <3>2. CASE i > Len(f.data)
      <4>1. i - Len(f.data) \in 1..k /\ Len(f.data) + (i - Len(f.data)) = i
        BY <2>1, <2>2, <2>7, <3>2
      <4>2. d[i] = pad[i - Len(f.data)]
        BY <2>3, <2>6a, <4>1
      <4> QED
        BY <2>3, <4>1, <4>2
    <3> QED
      BY <2>1, <2>7, <3>1, <3>2
  <2>9. \A i \in 1..Len(d) : d[i][1] \in {"code", "pad"} <=> i <= Len(d) - 0
    BY <2>7, <2>8
  <2>10. 0 \in Nat /\ 0 \in 0..Len(d)
    BY <2>7
  <2> QED
    BY <2>5, <2>6, <2>9, <2>10, ImageOf
<1> QED
  BY <1>1, <1>2 DEF pe_prepare

(* A row behind the cells of an image adds no content and no padding.        *)
HashedTo(x, n) == \A i \in 1..Len(x) : x[i][1] \in {"code", "pad"} <=> i <= n

LEMMA RowBehind ==
    ASSUME NEW S, NEW x \in Seq(S), NEW n \in 0..Len(x), NEW doc, Width(doc) \in Nat \ {0},
           HashedTo(x, n)
    PROVE  /\ Len(wrap_win_certificate(doc)) \in Nat \ {0}
           /\ Len(x \o wrap_win_certificate(doc)) = Len(x) + Len(wrap_win_certificate(doc))
           /\ \E T : x \o wrap_win_certificate(doc) \in Seq(T)
           /\ HashedTo(x \o wrap_win_certificate(doc), n)
<1> DEFINE row == wrap_win_certificate(doc)
           C == {Cell("cms", doc), Cell("fill", "")}
           d == x \o row
<1>1. row \in Seq(C) /\ Len(row) \in Nat \ {0}
  BY RowCells
<1>2. \A c \in C : c[1] \notin {"code", "pad"}
  <2>1. Cell("cms", doc)[1] = "cms" /\ Cell("fill", "")[1] = "fill"
    BY DEF Cell
  <2> QED
    BY <2>1
<1> HIDE DEF row, C
<1>3. d \in Seq(S \cup C) /\ Joined(d, x, row)
  BY <1>1, Concatenation
<1> HIDE DEF d
<1>4. /\ Len(d) = Len(x) + Len(row) /\ \A i \in 1..Len(x) : d[i] = x[i]
      /\ \A i \in 1..Len(row) : d[Len(x) + i] = row[i]
  BY <1>3 DEF Joined
<1>5. Len(x) \in Nat
  OBVIOUS
<1>6. ASSUME NEW i \in 1..Len(d) PROVE d[i][1] \in {"code", "pad"} <=> i <= n
  <2>1. CASE i <= Len(x)
    BY <1>4, <1>5, <2>1 DEF HashedTo
  <2>2. CASE i > Len(x)
    <3>1. i - Len(x) \in 1..Len(row) /\ Len(x) + (i - Len(x)) = i
      BY <1>1, <1>4, <1>5, <2>2
    <3>2. d[i] = row[i - Len(x)] /\ row[i - Len(x)] \in C
      BY <1>1, <1>4, <3>1
    <3>3. d[i][1] \notin {"code", "pad"}
      BY <1>2, <3>2
    <3> QED
      BY <1>5, <2>2, <3>3
  <2> QED
    BY <1>1, <1>4, <1>5, <2>1, <2>2
<1> QED
  BY <1>1, <1>3, <1>4, <1>6 DEF row, d, HashedTo

LEMMA AppendedImage ==
    ASSUME NEW f, IsImage(f), NEW doc, Width(doc) \in Nat \ {0}, NEW r \in pe_append(f, doc)
    PROVE  IsImage(r)
<1> DEFINE row == wrap_win_certificate(doc)
           n == Len(f.data) - f.size
           S == ToSet(f.data)
<1>1. /\ f.data \in Seq(S) /\ Len(f.data) \in Nat /\ f.size \in 0..Len(f.data) /\ f.ptr \in Nat
      /\ HashedTo(f.data, n)
      /\ n \in 0..Len(f.data) /\ Align \in Nat \ {0}
  BY CatalogAssumption DEF IsImage, HashedTo
<1>2. CASE TableAligned(f) /\ ~HasTable(f)
  <2> DEFINE d == f.data \o row
             ptr == PeLength(f)
             size == Len(row)
  <2>1. f.ptr = 0 /\ f.size = 0
    BY <1>2 DEF TableAligned
  <2>2. r = PeFile(f.hdr, ptr, size, d)
    <3>1. r = Directory([f EXCEPT !.data = d], ptr, size)
      BY <1>2, Zenon DEF pe_append, When
    <3> HIDE DEF d, ptr, size
    <3> QED
      BY <3>1, ImageUpdate
  <2>3. /\ Len(row) \in Nat \ {0} /\ Len(d) = Len(f.data) + Len(row) /\ \E T : d \in Seq(T)
        /\ HashedTo(d, n)
    <3> HIDE DEF n
    <3> QED
      BY <1>1, RowBehind
  <2>4. ptr = Align + Len(f.data) /\ n = Len(f.data)
    BY <1>1, <2>1 DEF PeLength
  <2> HIDE DEF d, ptr, row, n
  <2>5. ptr \in Nat /\ size \in 0..Len(d) /\ ptr + size = Align + Len(d) /\ Len(d) - size = n
    BY <1>1, <2>3, <2>4
  <2> HIDE DEF size
  <2>6. PICK T : d \in Seq(T)
    BY <2>3
  <2> QED
    BY <2>2, <2>3, <2>5, <2>6, ImageOf DEF HashedTo
<1>3. CASE TableAligned(f) /\ HasTable(f)
  <2> DEFINE b == BeforeTable(f)
             t == Table(f)
             x == b \o t
             d == x \o row
             ptr == f.ptr
             size == f.size + Len(row)
  <2>1. /\ n \in Nat /\ f.ptr - Align = n /\ f.size \in Nat
        /\ b \in Seq(S) /\ Len(b) = n /\ \A i \in 1..n : b[i] = f.data[i]
        /\ t \in Seq(S) /\ Len(t) = f.size /\ \A i \in 1..f.size : t[i] = f.data[n + i]
    BY <1>3, TableParts
  <2>2. r = PeFile(f.hdr, ptr, size, d)
    <3>1. r = Directory([f EXCEPT !.data = d], ptr, size)
      BY <1>3, Zenon DEF pe_append, When
    <3> HIDE DEF d, ptr, size
    <3> QED
      BY <3>1, ImageUpdate
  <2> HIDE DEF b, t, n, row
  <2>3. x \in Seq(S \cup S) /\ Joined(x, b, t)
    BY <2>1, Concatenation
  <2> HIDE DEF x
  <2>4. n + f.size = Len(f.data) /\ f.ptr = Align + n
    BY <1>1, <2>1 DEF n
  <2>5. Len(x) = Len(f.data)
    BY <2>1, <2>3, <2>4 DEF Joined
  <2>6. ASSUME NEW i \in 1..Len(x) PROVE x[i] = f.data[i]
    <3>1. CASE i <= n
      BY <2>1, <2>3, <3>1, SMTT(60) DEF Joined
    <3>2. CASE i > n
      <4>1. i - n \in 1..f.size /\ n + (i - n) = i
        BY <1>1, <2>1, <2>4, <2>5, <3>2
      <4>2. x[n + (i - n)] = t[i - n]
        BY <2>1, <2>3, <4>1 DEF Joined
      <4> QED
        BY <2>1, <4>1, <4>2
    <3> QED
      BY <1>1, <2>1, <2>5, <3>1, <3>2
  <2>7. HashedTo(x, n)
    BY <1>1, <2>5, <2>6 DEF HashedTo
  <2>8. n \in 0..Len(x)
    BY <1>1, <2>5
  <2>9. /\ Len(row) \in Nat \ {0} /\ Len(d) = Len(x) + Len(row) /\ \E T : d \in Seq(T)
        /\ HashedTo(d, n)
    <3>1. ASSUME NEW y \in Seq(S \cup S), n \in 0..Len(y), HashedTo(y, n)
          PROVE  /\ Len(row) \in Nat \ {0} /\ Len(y \o row) = Len(y) + Len(row)
                 /\ \E T : y \o row \in Seq(T)
                 /\ HashedTo(y \o row, n)
      BY <3>1, RowBehind DEF row
    <3> QED
      BY <2>3, <2>7, <2>8, <3>1
  <2> HIDE DEF d, ptr
  <2>10. ptr \in Nat /\ size \in 0..Len(d) /\ ptr + size = Align + Len(d) /\ Len(d) - size = n
    <3>1. Len(row) \in Nat /\ Len(d) = Len(f.data) + Len(row)
      BY <2>5, <2>9
    <3>2. Len(f.data) \in Nat /\ f.ptr \in Nat /\ Align \in Nat /\ f.size \in Nat /\ n \in Nat
      BY <1>1, <2>1
    <3>3. ASSUME NEW a \in Nat, NEW k \in Nat, NEW z \in Nat, NEW w \in Nat
          PROVE  /\ z + w \in 0..((k + z) + w) /\ (a + k) + (z + w) = a + ((k + z) + w)
                 /\ ((k + z) + w) - (z + w) = k /\ a + k \in Nat
      OBVIOUS
    <3>4. size = f.size + Len(row)
      OBVIOUS
    <3>5. Len(d) = (n + f.size) + Len(row)
      BY <2>4, <3>1
    <3>6. ptr = Align + n
      BY <2>4 DEF ptr
    <3> DEFINE w == Len(row)
               z == f.size
    <3>7. w \in Nat /\ z \in Nat /\ n \in Nat /\ Align \in Nat
      BY <3>1, <3>2
    <3>8. size = z + w /\ Len(d) = (n + z) + w
      BY <3>4, <3>5
    <3> HIDE DEF size, w, z
    <3> QED
      BY <3>3, <3>6, <3>7, <3>8
  <2> HIDE DEF size
  <2>11. PICK T : d \in Seq(T)
    BY <2>9
  <2> QED
    BY <2>2, <2>9, <2>10, <2>11, ImageOf DEF HashedTo
<1>4. TableAligned(f)
  BY DEF pe_append
<1> QED
  BY <1>2, <1>3, <1>4

(* Signing leaves an image one with its table at the end of the file, of    *)
(* which a catalog tells the truth, whether a signature is put in, replaced  *)
(* or added, and stamped (sign_pe).                                          *)
THEOREM SignedImage ==
    ASSUME NEW f, IsImage(f), NEW req, NEW g \in sign_pe(f, req)
    PROVE  IsImage(g)
<1>1. CASE g = f
  BY <1>1
<1>2. CASE g \in UNION {UNION {SignPreparedPe(p, req) : p \in pe_prepare(r)} :
                            r \in IF req.append THEN {f} ELSE pe_remove(f)}
  <2>1. PICK r \in IF req.append THEN {f} ELSE pe_remove(f) : \E p \in pe_prepare(r) :
             g \in SignPreparedPe(p, req)
    BY <1>2
  <2>2. PICK p \in pe_prepare(r) : g \in SignPreparedPe(p, req)
    BY <2>1
  <2>3. IsImage(r)
    BY <2>1, RemovedImage
  <2>4. IsImage(p)
    BY <2>2, <2>3, PreparedImage
  <2> DEFINE digest == pe_authenticode_digest(p, req.alg)
  <2>5. PICK c \in create_authenticode_pkcs7(req.material, "pe", req.alg, digest) :
             \E t \in maybe_timestamp_pkcs7(c, req.tsa) : g \in pe_append(p, t)
    BY <2>2 DEF SignPreparedPe
  <2>6. PICK t \in maybe_timestamp_pkcs7(c, req.tsa) : g \in pe_append(p, t)
    BY <2>5
  <2>7. \E content, attrs : IsNewDocument(c, content, attrs)
    <3>1. PICK content : c \in create_pkcs7(req.material, "Authenticode", TRUE, req.alg, content, 0)
      BY <2>5, Zenon DEF create_authenticode_pkcs7
    <3> QED
      BY <3>1, DocumentMade, Zenon DEF IsSignedOver
  <2>8. Width(t) \in Nat \ {0}
    BY <2>6, <2>7, TimestampedDocument
  <2> QED
    BY <2>4, <2>6, <2>8, AppendedImage
<1> QED
  BY <1>1, <1>2 DEF sign_pe

-----------------------------------------------------------------------------
(* The subjects of a request.                                                *)

LEMMA ReadOfDisk ==
    ASSUME NEW p \in DOMAIN disk, p # CatPath
    PROVE  p \in Existing /\ Read(p) = disk[p]
BY DEF Existing, Read

(* The catalog itself is never a subject of a walk.                          *)
LEMMA SubjectsOfWalk ==
    ASSUME NEW paths
    PROVE  UNION {SubjectsOf(paths, i) : i \in DOMAIN paths} = SubjectsIn(DOMAIN disk, paths)
<1>1. ASSUME NEW i
      PROVE  {p \in Existing : IsPrefix(paths[i], p) /\ ~is_same_existing_path(p)}
             = {p \in DOMAIN disk : IsPrefix(paths[i], p) /\ p # CatPath}
  BY DEF Existing, is_same_existing_path
<1> DEFINE Found(i) == {p \in Existing : IsPrefix(paths[i], p) /\ ~is_same_existing_path(p)}
           Given(i) == {p \in DOMAIN disk : IsPrefix(paths[i], p) /\ p # CatPath}
<1>2. \A i : SubjectsOf(paths, i) = {[path |-> p, at |-> i, name |-> NameOf(paths, i, p)] : p \in Found(i)}
  BY DEF SubjectsOf, NameOf
<1>3. \A i : Found(i) = Given(i)
  BY <1>1
<1> HIDE DEF Found, Given
<1> DEFINE Walked(i) == {[path |-> p, at |-> i, name |-> NameOf(paths, i, p)] : p \in Given(i)}
<1>4. \A i : SubjectsOf(paths, i) = Walked(i)
  BY <1>2, <1>3, Zenon
<1>5. SubjectsIn(DOMAIN disk, paths) = UNION {Walked(i) : i \in DOMAIN paths}
  BY Zenon DEF SubjectsIn, Given
<1> HIDE DEF Walked
<1>6. {SubjectsOf(paths, i) : i \in DOMAIN paths} = {Walked(i) : i \in DOMAIN paths}
  BY <1>4
<1> QED
  BY <1>5, <1>6

(* A subject is a file, and not the catalog.                                 *)
LEMMA SubjectIsFile ==
    ASSUME NEW files, NEW paths, NEW s \in SubjectsIn(files, paths)
    PROVE  s.path \in files /\ s.path # CatPath
<1>1. PICK i \in DOMAIN paths :
          s \in {[path |-> p, at |-> i, name |-> NameOf(paths, i, p)] :
                    p \in {q \in files : IsPrefix(paths[i], q) /\ q # CatPath}}
  BY Zenon DEF SubjectsIn
<1>2. PICK p \in files : p # CatPath /\ s = [path |-> p, at |-> i, name |-> NameOf(paths, i, p)]
  BY <1>1
<1> QED
  BY <1>2

(* Files that are named are the subjects a walk of them finds.               *)
LEMMA SubjectsNamed ==
    ASSUME DiskIsOfTree, NEW files, NEW subjects \in NamedSubjects(files),
           CatPath \notin ToSet(files)
    PROVE  subjects = SubjectsIn(DOMAIN disk, files)
<1> DEFINE Named(i) == [path |-> files[i], at |-> i, name |-> catalog_file_name(files[i])]
           Given(i) == {p \in DOMAIN disk : IsPrefix(files[i], p) /\ p # CatPath}
           Walked(i) == {[path |-> p, at |-> i, name |-> NameOf(files, i, p)] : p \in Given(i)}
<1>1. subjects = {Named(i) : i \in DOMAIN files} /\ ToSet(files) \subseteq Existing
  BY DEF NamedSubjects, When
<1>2. ASSUME NEW i \in DOMAIN files PROVE Walked(i) = {Named(i)}
  <2>1. files[i] \in DOMAIN disk /\ files[i] # CatPath /\ files[i] \in DOMAIN Tree
    BY <1>1 DEF ToSet, Existing, DiskIsOfTree
  <2>2. files[i] \notin Dirs /\ IsPrefix(files[i], files[i])
        /\ \A q \in DOMAIN disk : IsPrefix(files[i], q) => q = files[i]
    <3>1. files[i] \in Seq(ToSet(files[i]))
      BY <2>1, CatalogAssumption
    <3>2. Len(files[i]) \in Nat
      BY <3>1
    <3>3. IsPrefix(files[i], files[i])
      BY <3>2 DEF IsPrefix
    <3> QED
      BY <2>1, <3>3, CatalogAssumption DEF DiskIsOfTree
  <2>3. Given(i) = {files[i]}
    BY <2>1, <2>2
  <2>4. NameOf(files, i, files[i]) = catalog_file_name(files[i])
    BY <2>2 DEF NameOf
  <2> HIDE DEF Given
  <2> QED
    BY <2>3, <2>4
<1>3. SubjectsIn(DOMAIN disk, files) = UNION {Walked(i) : i \in DOMAIN files}
  BY Zenon DEF SubjectsIn
<1> HIDE DEF Named, Walked
<1>4. UNION {Walked(i) : i \in DOMAIN files} = {Named(i) : i \in DOMAIN files}
  <2>1. ASSUME NEW x PROVE x \in UNION {Walked(i) : i \in DOMAIN files}
                           <=> \E i \in DOMAIN files : x \in Walked(i)
    BY Zenon
  <2>2. ASSUME NEW x PROVE x \in {Named(i) : i \in DOMAIN files}
                           <=> \E i \in DOMAIN files : x \in Walked(i)
    BY <1>2
  <2> QED
    BY <2>1, <2>2, Zenon
<1> QED
  BY <1>1, <1>3, <1>4

(* What is noted under the key of a subject is its file.                     *)
LEMMA ListedOfSubject ==
    ASSUME NEW subjects, ~reject_duplicate_catalog_member_names(subjects), NEW s \in subjects
    PROVE  /\ Key(s.name) \in DOMAIN Listed(subjects)
           /\ Listed(subjects)[Key(s.name)] = Read(s.path)
<1> DEFINE k == Key(s.name)
           c == CHOOSE t \in subjects : Key(t.name) = k
<1>1. c \in subjects /\ Key(c.name) = k
  OBVIOUS
<1>2. c = s
  BY <1>1 DEF reject_duplicate_catalog_member_names
<1>3. k \in {Key(t.name) : t \in subjects}
  OBVIOUS
<1> HIDE DEF k
<1>4. k \in DOMAIN Listed(subjects) /\ Listed(subjects)[k] = Read(c.path)
  BY <1>3 DEF Listed
<1> QED
  BY <1>2, <1>4 DEF k

-----------------------------------------------------------------------------
(* The invariant.                                                            *)

LEMMA CatalogStart == CatalogInit => CatalogInv
<1> SUFFICES ASSUME CatalogInit PROVE CatalogInv
  OBVIOUS
<1>1. disk = Tree /\ cat = <<>> /\ edits = 0
  BY DEF CatalogInit
<1>2. DiskIsOfTree
  BY <1>1, CatalogAssumption DEF DiskIsOfTree
<1>3. edits \in 0..MaxEdits
  BY <1>1, CatalogAssumption
<1> QED
  BY <1>1, <1>2, <1>3 DEF CatalogInv, CatalogIsVouched, MembersAreOfFiles, ListIsKept

(* A catalog that is made, signed or not, is of the files it lists.          *)
LEMMA MadeOfFiles ==
    ASSUME CatalogInv, NEW c, NEW subjects, NEW alg, NEW paths, Made(c, subjects, paths),
           \A s \in subjects : s.path \in Existing, subjects # {},
           ~reject_duplicate_catalog_member_names(subjects),
           c.content = catalog_ctl(subjects, alg)
    PROVE  MembersAreOfFiles'
<1> DEFINE entry(s) == catalog_ctl_entry(s.name, Read(s.path), alg)
           members == {entry(s) : s \in subjects}
           listed == Listed(subjects)
<1>1. made'.content[2] = members /\ made'.listed = listed
  BY DEF Made, catalog_ctl
<1>2. ASSUME NEW s \in subjects
      PROVE  /\ entry(s).name = s.name /\ entry(s).alg = alg
             /\ Key(s.name) \in DOMAIN listed /\ listed[Key(s.name)] = Read(s.path)
  <2>1. entry(s).name = s.name /\ entry(s).alg = alg
    BY DEF catalog_ctl_entry
  <2> QED
    BY <2>1, ListedOfSubject
<1>3. DOMAIN listed = {Key(s.name) : s \in subjects}
  BY DEF Listed
<1> HIDE DEF listed
<1>4. {Key(m.name) : m \in members} = DOMAIN listed
  BY <1>2, <1>3
<1>5. DOMAIN listed # {}
  BY <1>3
<1>6. ASSUME NEW m \in members
      PROVE  \E f : /\ m = catalog_ctl_entry(m.name, f, m.alg)
                    /\ Key(m.name) \in DOMAIN listed /\ listed[Key(m.name)] = f
  <2>1. PICK s \in subjects : m = entry(s)
    OBVIOUS
  <2>2. m = catalog_ctl_entry(m.name, Read(s.path), m.alg)
    BY <1>2, <2>1
  <2> QED
    BY <1>2, <2>1, <2>2
<1>7. ASSUME NEW m \in members, NEW n \in members, Key(m.name) = Key(n.name)
      PROVE  m = n
  <2>1. PICK s \in subjects : m = entry(s)
    OBVIOUS
  <2>2. PICK t \in subjects : n = entry(t)
    OBVIOUS
  <2>3. s = t
    BY <1>2, <1>7, <2>1, <2>2 DEF reject_duplicate_catalog_member_names
  <2> QED
    BY <2>1, <2>2, <2>3
<1> HIDE DEF members, entry
<1> QED
  BY <1>1, <1>4, <1>5, <1>6, <1>7 DEF MembersAreOfFiles, MemberIsOf

(* The list of a walk is that of the tree.                                   *)
LEMMA MadeOfTree ==
    ASSUME CatalogInv, NEW c, NEW alg, NEW paths,
           Made(c, SubjectsIn(DOMAIN disk, PathsOf(paths)), paths),
           ToSet(PathsOf(paths)) \subseteq Dirs \cup Existing,
           SubjectsIn(DOMAIN disk, PathsOf(paths)) # {},
           ~reject_duplicate_catalog_member_names(SubjectsIn(DOMAIN disk, PathsOf(paths))),
           c.content = catalog_ctl(SubjectsIn(DOMAIN disk, PathsOf(paths)), alg)
    PROVE  ListIsOfTree(alg)'
<1> DEFINE subjects == SubjectsIn(DOMAIN disk, PathsOf(paths))
<1>1. made'.disk = disk /\ made'.paths = paths /\ made'.content = c.content
  BY DEF Made
<1>2. \A s \in subjects : Read(s.path) = disk[s.path]
  BY SubjectIsFile, ReadOfDisk
<1> HIDE DEF subjects
<1>3. {catalog_ctl_entry(s.name, Read(s.path), alg) : s \in subjects}
      = {catalog_ctl_entry(s.name, disk[s.path], alg) : s \in subjects}
  BY <1>2, Zenon
<1>4. c.content = <<"ctl", {catalog_ctl_entry(s.name, disk[s.path], alg) : s \in subjects}>>
  BY <1>3, Zenon DEF catalog_ctl, subjects
<1>5. Existing \subseteq DOMAIN disk \cup {CatPath}
  BY DEF Existing
<1> QED
  BY <1>1, <1>4, <1>5 DEF ListIsOfTree, subjects

(* What only depends on the last catalog made, and whether there is one.     *)
LEMMA SameList ==
    ASSUME MembersAreOfFiles, ListIsKept, made' = made, (cat # <<>>)' = (cat # <<>>)
    PROVE  MembersAreOfFiles' /\ ListIsKept'
<1>1. MembersAreOfFiles'
  BY DEF MembersAreOfFiles, MemberIsOf
<1>2. ListIsKept'
  BY DEF ListIsKept, ListIsOfTree
<1> QED
  BY <1>1, <1>2

LEMMA NewFileCatalogStep ==
    ASSUME CatalogInv, NEW paths, NEW version, NewFileCatalog(paths, version)
    PROVE  CatalogInv'
<1>1. PICK v \in effective_catalog_version(version), subjects \in collect_catalog_subjects(paths) :
          Made(create_unsigned_catalog_pkcs7(subjects, catalog_hash_algorithm_for_version(v)),
               subjects, paths)
  BY DEF NewFileCatalog
<1> DEFINE alg == catalog_hash_algorithm_for_version(v)
           c == create_unsigned_catalog_pkcs7(subjects, alg)
           content == catalog_ctl(subjects, alg)
<1>2. c = [content |-> content, alg |-> alg, signers |-> <<>>]
  BY DEF create_unsigned_catalog_pkcs7
<1>3. Made(c, subjects, paths)
  BY <1>1
<1>4. content = <<"ctl", content[2]>>
  BY DEF catalog_ctl
<1> HIDE DEF c, content, alg
<1>5. /\ cat' = <<c>> /\ disk' = disk /\ edits' = edits
      /\ made'.content = content
  BY <1>2, <1>3 DEF Made
<1>6. /\ subjects = SubjectsIn(DOMAIN disk, PathsOf(paths)) /\ subjects # {}
      /\ ~reject_duplicate_catalog_member_names(subjects)
      /\ ToSet(PathsOf(paths)) \subseteq Dirs \cup Existing
  BY SubjectsOfWalk DEF collect_catalog_subjects, When, PathsOf
<1>7. \A s \in subjects : s.path \in Existing
  BY <1>6, SubjectIsFile, ReadOfDisk
<1>8. c.content = catalog_ctl(subjects, alg)
  BY <1>2 DEF content
<1>9. MembersAreOfFiles'
  BY <1>3, <1>6, <1>7, <1>8, MadeOfFiles
<1>10. ListIsOfTree(alg)'
  BY <1>3, <1>6, <1>8, MadeOfTree
<1>11. CatalogIsVouched'
  <2>1. cat'[1] = c /\ cat' = <<cat'[1]>>
    BY <1>5
  <2>2. /\ c.signers = <<>>
        /\ c = [content |-> c.content, alg |-> c.alg, signers |-> c.signers]
    BY <1>2
  <2> QED
    BY <1>4, <1>5, <2>1, <2>2 DEF CatalogIsVouched
<1>12. DiskIsOfTree' /\ edits' \in 0..MaxEdits
  BY <1>5 DEF CatalogInv, DiskIsOfTree
<1> QED
  BY <1>9, <1>10, <1>11, <1>12 DEF CatalogInv, ListIsKept

LEMMA SignCatalogStep ==
    ASSUME CatalogInv, NEW files \in PathLists, NEW req, SignCatalog(files, req)
    PROVE  CatalogInv'
<1>1. PICK subjects \in NamedSubjects(files) :
          \E c \in create_catalog_pkcs7(subjects, req) : Made(c, subjects, files)
  BY DEF SignCatalog
<1>2. PICK c \in create_catalog_pkcs7(subjects, req) : Made(c, subjects, files)
  BY <1>1
<1> DEFINE content == catalog_ctl(subjects, req.alg)
<1>3. PICK d \in create_pkcs7(req.material, "Basic", TRUE, req.alg, content, 0) :
          \E t \in maybe_timestamp_pkcs7(d, req.tsa) :
              c = [content |-> d.content[1], alg |-> req.alg, signers |-> <<t>>]
  BY Zenon DEF create_catalog_pkcs7
<1>4. PICK t \in maybe_timestamp_pkcs7(d, req.tsa) :
          c = [content |-> d.content[1], alg |-> req.alg, signers |-> <<t>>]
  BY <1>3
<1>5. content = <<"ctl", content[2]>>
  BY DEF catalog_ctl
<1>6. content = catalog_ctl(subjects, req.alg)
  OBVIOUS
<1>7. PICK attrs : attrs.messageDigest = Hash(req.alg, content) /\ IsNewDocument(d, content, attrs)
  <2>1. d \in create_pkcs7(req.material, "Basic", TRUE, req.alg, content, 0)
    OBVIOUS
  <2> HIDE DEF content
  <2>2. IsSignedOver(d, req.alg, content)
    BY <2>1, DocumentMade, Zenon
  <2> QED
    BY <2>2, Zenon DEF IsSignedOver
<1> HIDE DEF content
<1>8. d.content[1] = content /\ t.attrs.messageDigest[2] = content
  <2>1. t.attrs = d.attrs
    BY <1>4, <1>7, TimestampedDocument
  <2> QED
    BY <1>7, <2>1 DEF IsNewDocument, Hash
<1>9. /\ cat' = <<c>> /\ disk' = disk /\ edits' = edits
      /\ made'.content = content /\ made'.paths = files
  BY <1>2, <1>4, <1>8 DEF Made
<1>10. /\ subjects = {[path |-> files[i], at |-> i, name |-> catalog_file_name(files[i])] :
                          i \in DOMAIN files}
       /\ files # <<>> /\ ToSet(files) \subseteq Existing
       /\ ~reject_duplicate_catalog_member_names(subjects)
  BY DEF NamedSubjects, When
<1>11. \A s \in subjects : s.path \in Existing
  BY <1>10 DEF ToSet
<1>12. c.content = catalog_ctl(subjects, req.alg)
  BY <1>4, <1>6, <1>8
<1>13. subjects # {}
  <2>1. files \in Seq(ToSet(files))
    BY CatalogAssumption
  <2>2. 1 \in DOMAIN files
    BY <1>10, <2>1
  <2> QED
    BY <1>10, <2>2
<1>14. MembersAreOfFiles'
  BY <1>2, <1>10, <1>11, <1>12, <1>13, MadeOfFiles
<1>15. ASSUME CatPath \notin ToSet(files) PROVE ListIsOfTree(req.alg)'
  <2>1. subjects = SubjectsIn(DOMAIN disk, PathsOf(files)) /\ PathsOf(files) = files
    BY <1>10, <1>15, SubjectsNamed DEF PathsOf, CatalogInv
  <2> QED
    BY <1>2, <1>10, <1>12, <1>13, <2>1, MadeOfTree
<1>16. ListIsKept'
  BY <1>9, <1>15 DEF ListIsKept
<1>17. CatalogIsVouched'
  <2>1. cat'[1] = c /\ cat' = <<cat'[1]>>
    BY <1>9
  <2>2. /\ c.signers[1] = t /\ c.signers = <<c.signers[1]>>
        /\ c = [content |-> c.content, alg |-> c.alg, signers |-> c.signers]
    BY <1>4
  <2> QED
    BY <1>5, <1>8, <1>9, <2>1, <2>2 DEF CatalogIsVouched
<1>18. DiskIsOfTree' /\ edits' \in 0..MaxEdits
  BY <1>9 DEF CatalogInv, DiskIsOfTree
<1> QED
  BY <1>14, <1>16, <1>17, <1>18 DEF CatalogInv

LEMMA EditStep ==
    ASSUME CatalogInv, edits < MaxEdits, edits' = edits + 1
    PROVE  edits' \in 0..MaxEdits
BY CatalogAssumption DEF CatalogInv

LEMMA DiskStep ==
    ASSUME CatalogInv, Change, UNCHANGED <<cat, made>>, DiskIsOfTree'
    PROVE  CatalogInv'
<1>1. MembersAreOfFiles' /\ ListIsKept'
  BY SameList DEF CatalogInv
<1>2. CatalogIsVouched'
  BY DEF CatalogInv, CatalogIsVouched
<1>3. edits' \in 0..MaxEdits
  BY EditStep DEF Change
<1> QED
  BY <1>1, <1>2, <1>3 DEF CatalogInv

LEMMA EditFileStep ==
    ASSUME CatalogInv, NEW p, NEW f \in Texts, EditFile(p, f)
    PROVE  CatalogInv'
<1>1. DiskIsOfTree'
  BY CatalogAssumption DEF CatalogInv, DiskIsOfTree, EditFile
<1> QED
  BY <1>1, DiskStep DEF EditFile

LEMMA RemoveFileStep ==
    ASSUME CatalogInv, NEW p, RemoveFile(p)
    PROVE  CatalogInv'
<1>1. DiskIsOfTree'
  BY DEF CatalogInv, DiskIsOfTree, RemoveFile, Restrict
<1> QED
  BY <1>1, DiskStep DEF RemoveFile

LEMMA SignFileStep ==
    ASSUME CatalogInv, NEW p, NEW req, SignFile(p, req)
    PROVE  CatalogInv'
<1>1. PICK f \in sign_pe(disk[p], req) : disk' = [disk EXCEPT ![p] = f]
  BY DEF SignFile
<1>2. DiskIsOfTree'
  BY <1>1 DEF CatalogInv, DiskIsOfTree
<1> QED
  BY <1>2, DiskStep DEF SignFile

LEMMA EditCatalogStep ==
    ASSUME CatalogInv, EditCatalog
    PROVE  CatalogInv'
<1>1. /\ cat # <<>> /\ edits < MaxEdits /\ edits' = edits + 1
      /\ disk' = disk /\ made' = made
  BY DEF EditCatalog, Change
<1>2. PICK content : cat' = <<[cat[1] EXCEPT !.content = content]>>
  BY DEF EditCatalog
<1>3. cat[1] = [content |-> cat[1].content, alg |-> cat[1].alg, signers |-> cat[1].signers]
  BY <1>1 DEF CatalogInv, CatalogIsVouched
<1> DEFINE c == [cat[1] EXCEPT !.content = content]
<1>4. /\ c = [content |-> c.content, alg |-> c.alg, signers |-> c.signers]
      /\ c.signers = cat[1].signers
  <2> DEFINE a == cat[1].alg
             s == cat[1].signers
             x == cat[1].content
             k == cat[1]
  <2>1. k = [content |-> x, alg |-> a, signers |-> s]
    BY <1>3
  <2> HIDE DEF a, s, x, k
  <2>2. [k EXCEPT !.content = content] = [content |-> content, alg |-> a, signers |-> s]
    BY <2>1
  <2>3. c = [content |-> content, alg |-> a, signers |-> s]
    BY <2>2 DEF k
  <2> HIDE DEF c
  <2> QED
    BY <2>3 DEF s
<1>5. cat' = <<c>>
  BY <1>2
<1> HIDE DEF c
<1>6. cat'[1] = c /\ cat' = <<cat'[1]>> /\ cat' # <<>>
  BY <1>5
<1>7. CatalogIsVouched'
  BY <1>1, <1>4, <1>6 DEF CatalogInv, CatalogIsVouched
<1>8. MembersAreOfFiles' /\ ListIsKept'
  BY <1>1, <1>6, SameList DEF CatalogInv
<1>9. DiskIsOfTree' /\ edits' \in 0..MaxEdits
  BY <1>1, EditStep DEF CatalogInv, DiskIsOfTree
<1> QED
  BY <1>7, <1>8, <1>9 DEF CatalogInv

LEMMA CatalogStep == CatalogInv /\ [CatalogNext]_catalogVars => CatalogInv'
<1> SUFFICES ASSUME CatalogInv, [CatalogNext]_catalogVars PROVE CatalogInv'
  OBVIOUS
<1>1. CASE \E paths \in PathLists, version \in 0..3 : NewFileCatalog(paths, version)
  BY <1>1, NewFileCatalogStep
<1>2. CASE \E files \in PathLists, req \in Requests : SignCatalog(files, req)
  BY <1>2, SignCatalogStep
<1>3. CASE \E p \in DOMAIN Tree, f \in Texts : EditFile(p, f)
  BY <1>3, EditFileStep
<1>4. CASE \E p \in DOMAIN Tree : RemoveFile(p)
  BY <1>4, RemoveFileStep
<1>5. CASE \E p \in DOMAIN Tree, req \in Requests : SignFile(p, req)
  BY <1>5, SignFileStep
<1>6. CASE EditCatalog
  BY <1>6, EditCatalogStep
<1>7. CASE UNCHANGED catalogVars
  <2>1. MembersAreOfFiles' /\ ListIsKept'
    BY <1>7, SameList DEF CatalogInv, catalogVars
  <2> QED
    BY <1>7, <2>1 DEF CatalogInv, catalogVars, DiskIsOfTree, CatalogIsVouched
<1> QED
  BY <1>1, <1>2, <1>3, <1>4, <1>5, <1>6, <1>7 DEF CatalogNext

LEMMA CatalogInvariance == CatalogSpec => []CatalogInv
BY CatalogStart, CatalogStep, PTL DEF CatalogSpec

(* The types, and one member for every file that is listed                   *)
(* (create_unsigned_catalog_pkcs7, create_catalog_pkcs7).                    *)
THEOREM CatalogTypeCorrect == CatalogSpec => []CatalogTypeOK
<1>1. CatalogInv => CatalogTypeOK
  <2> SUFFICES ASSUME CatalogInv PROVE CatalogTypeOK
    OBVIOUS
  <2>1. Len(cat) <= 1
    BY DEF CatalogInv, CatalogIsVouched
  <2> QED
    BY <2>1 DEF CatalogInv, DiskIsOfTree, MembersAreOfFiles, CatalogTypeOK
<1> QED
  BY <1>1, CatalogInvariance, PTL
-----------------------------------------------------------------------------
(* Valid can be relied on.                                                   *)

LEMMA TheCatalog ==
    ASSUME CatalogInv, NEW c \in ToSet(cat)
    PROVE  cat # <<>> /\ c = cat[1]
BY DEF CatalogInv, CatalogIsVouched, ToSet

(* The digest of a signer is of the list the catalog was made with.          *)
LEMMA GenuineList ==
    ASSUME CatalogInv, NEW c \in ToSet(cat), Genuine(c)
    PROVE  c.content = made.content
<1>1. c = cat[1] /\ cat # <<>>
  BY TheCatalog
<1>2. CASE verify_catalog_digest_consistency(c)
  <2>1. c.signers # <<>>
    BY <1>2 DEF verify_catalog_digest_consistency
  <2>2. c.signers = <<c.signers[1]>> /\ c.signers[1].attrs.messageDigest[2] = made.content
    BY <1>1, <2>1 DEF CatalogInv, CatalogIsVouched
  <2>3. 1 \in DOMAIN c.signers
    BY <2>2
  <2>4. c.signers[1].attrs.messageDigest = Hash(c.alg, c.content)
    BY <1>2, <2>3 DEF verify_catalog_digest_consistency, pkcs9_message_digest_matches
  <2> QED
    BY <2>2, <2>4 DEF Hash
<1> QED
  BY <1>2 DEF Genuine

LEMMA MemberTells ==
    ASSUME CatalogInv, cat # <<>>, NEW m \in made.content[2], NEW g,
           m.digest \in catalog_member_digest_for_subject(m, g)
    PROVE  Key(m.name) \in DOMAIN made.listed /\ SameHeld(g, made.listed[Key(m.name)])
<1>1. PICK f : MemberIsOf(m, f)
  BY DEF CatalogInv, MembersAreOfFiles
<1> DEFINE e == catalog_ctl_entry(m.name, f, m.alg)
<1>2. e = m
  BY <1>1 DEF MemberIsOf
<1>3. e.digest \in catalog_member_digest_for_subject(e, g)
  <2> HIDE DEF e
  <2> QED
    BY <1>2
<1>4. SameHeld(g, f)
  BY <1>3, DigestTellsContent
<1> QED
  BY <1>1, <1>4 DEF MemberIsOf

(* What a test is, part by part.                                             *)
TestOf(c, subjects, skips) ==
    LET checked == {s \in subjects : ~IsSkipped(s, skips)}
        items == {PathItem(c, s) : s \in checked} \cup
                 {<<k, "Missing">> : k \in MissingKeys(c, {Key(s.name) : s \in checked}, skips)}
    IN [status |-> IF \A i \in items : i[2] = "Valid" THEN "Valid" ELSE "ValidationFailed",
        items |-> items, skipped |-> {s \in subjects : IsSkipped(s, skips)},
        checked |-> checked]

Testable(c, skips, subjects) ==
    /\ catalog_members(c) # {}
    /\ \A s \in subjects : IsSkipped(s, skips) \/ ~Unreadable(c, s)

LEMMA Tested ==
    ASSUME NEW c, NEW paths, NEW skips
    PROVE  portable_test_file_catalog(c, paths, skips)
           = {TestOf(c, subjects, skips) :
                subjects \in {t \in collect_catalog_subjects(paths) : Testable(c, skips, t)}}
BY Zenon DEF portable_test_file_catalog, TestOf, Testable

LEMMA ValidTest ==
    ASSUME NEW c, NEW subjects, NEW skips
    PROVE  /\ TestOf(c, subjects, skips).checked = {s \in subjects : ~IsSkipped(s, skips)}
           /\ TestOf(c, subjects, skips).status = "Valid" <=>
                 /\ \A s \in subjects : IsSkipped(s, skips) \/ PathItem(c, s)[2] = "Valid"
                 /\ MissingKeys(c, {Key(s.name) : s \in {u \in subjects : ~IsSkipped(u, skips)}}, skips) = {}
<1> DEFINE checked == {s \in subjects : ~IsSkipped(s, skips)}
           missing == MissingKeys(c, {Key(s.name) : s \in checked}, skips)
           items == {PathItem(c, s) : s \in checked} \cup {<<k, "Missing">> : k \in missing}
<1>1. /\ TestOf(c, subjects, skips).checked = checked
      /\ TestOf(c, subjects, skips).status
         = IF \A i \in items : i[2] = "Valid" THEN "Valid" ELSE "ValidationFailed"
  <2> HIDE DEF items, checked
  <2>1. TestOf(c, subjects, skips)
        = [status |-> IF \A i \in items : i[2] = "Valid" THEN "Valid" ELSE "ValidationFailed",
           items |-> items, skipped |-> {s \in subjects : IsSkipped(s, skips)}, checked |-> checked]
    BY Zenon DEF TestOf, items, checked
  <2> QED
    BY <2>1
<1>2. (\A i \in items : i[2] = "Valid") <=>
          (\A s \in checked : PathItem(c, s)[2] = "Valid") /\ missing = {}
  <2> HIDE DEF missing, checked
  <2>1. ASSUME NEW k PROVE <<k, "Missing">>[2] # "Valid"
    OBVIOUS
  <2>2. ASSUME \A i \in items : i[2] = "Valid"
        PROVE  (\A s \in checked : PathItem(c, s)[2] = "Valid") /\ missing = {}
    <3>1. \A s \in checked : PathItem(c, s) \in items
      BY Zenon
    <3>2. \A k \in missing : <<k, "Missing">> \in items
      BY Zenon
    <3> HIDE DEF items
    <3> QED
      BY <2>1, <2>2, <3>1, <3>2
  <2>3. ASSUME \A s \in checked : PathItem(c, s)[2] = "Valid", missing = {}
        PROVE  \A i \in items : i[2] = "Valid"
    BY <2>3
  <2> QED
    BY <2>2, <2>3
<1>3. (\A s \in checked : PathItem(c, s)[2] = "Valid") <=>
          \A s \in subjects : IsSkipped(s, skips) \/ PathItem(c, s)[2] = "Valid"
  OBVIOUS
<1> HIDE DEF items
<1> QED
  BY <1>1, <1>2, <1>3

(* A subject whose item is Valid has a member with the digest of its file.   *)
LEMMA ValidItem ==
    ASSUME NEW c, NEW s
    PROVE  PathItem(c, s)[2] = "Valid" <=>
              \E m \in MembersOf(c, Key(s.name)) :
                  m.digest \in catalog_member_digest_for_subject(m, Read(s.path))
<1> DEFINE members == MembersOf(c, Key(s.name))
           right == {m \in members : m.digest \in catalog_member_digest_for_subject(m, Read(s.path))}
           status == CASE members = {} -> "NotInCatalog"
                       [] right # {} -> "Valid"
                       [] OTHER -> "HashMismatch"
<1>1. PathItem(c, s)[2] = status
  BY DEF PathItem
<1>2. right \subseteq members
  OBVIOUS
<1>3. status = "Valid" <=> right # {}
  <2> HIDE DEF members, right
  <2> QED
    BY <1>2
<1> HIDE DEF status
<1> QED
  BY <1>1, <1>3

LEMMA InvIsHonest == CatalogInv => CatalogIsHonest
<1> SUFFICES ASSUME CatalogInv, NEW c \in ToSet(cat), Genuine(c)
             PROVE  /\ c.content = made.content
                    /\ \A t \in Tests(c) : Outcome(c, t).status = "Valid" =>
                          /\ \A s \in Outcome(c, t).checked :
                                /\ Key(s.name) \in DOMAIN made.listed
                                /\ SameHeld(Read(s.path), made.listed[Key(s.name)])
                          /\ DOMAIN made.listed \ {Key(s.name) : s \in Outcome(c, t).checked}
                                \subseteq catalog_skip_keys(t[2])
                    /\ \A p \in DOMAIN disk : verify_catalog_member(c, disk[p]) =>
                          \E f \in Range(made.listed) : SameHeld(disk[p], f)
  BY Zenon DEF CatalogIsHonest
<1>1. c.content = made.content /\ cat # <<>>
  BY GenuineList, TheCatalog
<1>2. catalog_members(c) = made.content[2]
  BY <1>1 DEF catalog_members, collect_catalog_members
<1>3. {Key(m.name) : m \in catalog_members(c)} = DOMAIN made.listed
  BY <1>1, <1>2 DEF CatalogInv, MembersAreOfFiles
<1>5. ASSUME NEW t \in Tests(c), Outcome(c, t).status = "Valid"
      PROVE  /\ \A s \in Outcome(c, t).checked :
                   /\ Key(s.name) \in DOMAIN made.listed
                   /\ SameHeld(Read(s.path), made.listed[Key(s.name)])
             /\ DOMAIN made.listed \ {Key(s.name) : s \in Outcome(c, t).checked}
                   \subseteq catalog_skip_keys(t[2])
  <2> DEFINE paths == t[1]
             skips == t[2]
             r == Outcome(c, t)
  <2>1. r \in portable_test_file_catalog(c, paths, skips)
    BY DEF Tests, Outcome
  <2>2. PICK subjects \in collect_catalog_subjects(paths) : r = TestOf(c, subjects, skips)
    BY <2>1, Tested
  <2>3. \A s \in subjects : s.path \in Existing
    <3>1. subjects = SubjectsIn(DOMAIN disk, PathsOf(paths))
      BY SubjectsOfWalk DEF collect_catalog_subjects, When, PathsOf
    <3> QED
      BY <3>1, SubjectIsFile, ReadOfDisk
  <2> DEFINE checked == {s \in subjects : ~IsSkipped(s, skips)}
             keys == {Key(s.name) : s \in checked}
  <2>4. /\ r.checked = checked
        /\ \A s \in subjects : IsSkipped(s, skips) \/ PathItem(c, s)[2] = "Valid"
        /\ MissingKeys(c, keys, skips) = {}
    BY <1>5, <2>2, ValidTest
  <2>5. ASSUME NEW s \in checked
        PROVE  Key(s.name) \in DOMAIN made.listed /\ SameHeld(Read(s.path), made.listed[Key(s.name)])
    <3>1. PICK m \in MembersOf(c, Key(s.name)) :
              m.digest \in catalog_member_digest_for_subject(m, Read(s.path))
      BY <2>4, ValidItem
    <3>2. m \in made.content[2] /\ Key(m.name) = Key(s.name)
      BY <1>2, <3>1 DEF MembersOf
    <3> QED
      BY <1>1, <3>1, <3>2, MemberTells
  <2>6. DOMAIN made.listed \ keys \subseteq catalog_skip_keys(skips)
    BY <1>3, <2>4 DEF MissingKeys
  <2> QED
    BY <2>4, <2>5, <2>6
<1>6. ASSUME NEW p \in DOMAIN disk, verify_catalog_member(c, disk[p])
      PROVE  \E f \in Range(made.listed) : SameHeld(disk[p], f)
  <2>1. PICK m \in catalog_members(c) : m.digest \in catalog_member_digest_for_subject(m, disk[p])
    BY <1>6 DEF verify_catalog_member
  <2>2. Key(m.name) \in DOMAIN made.listed /\ SameHeld(disk[p], made.listed[Key(m.name)])
    BY <1>1, <1>2, <2>1, MemberTells
  <2> QED
    BY <2>2 DEF Range
<1> QED
  BY <1>1, <1>5, <1>6

(* A catalog that is genuine and tests Valid tells the truth about every     *)
(* file that was looked at and every file that was listed, whatever was      *)
(* edited, removed or signed since (portable_test_file_catalog,              *)
(* verify_catalog_digest_consistency).                                       *)
THEOREM CatalogIsHonestAlways == CatalogSpec => []CatalogIsHonest
BY InvIsHonest, CatalogInvariance, PTL
-----------------------------------------------------------------------------
(* An unchanged tree tests Valid.                                            *)

LEMMA NothingSkipped == \A s : ~IsSkipped(s, {})
<1>1. catalog_skip_keys({}) = {}
  BY DEF catalog_skip_keys
<1> QED
  BY <1>1 DEF IsSkipped

LEMMA InvIsValid == CatalogInv => UnchangedIsValid
<1> SUFFICES ASSUME CatalogInv, NEW c \in ToSet(cat), c.content = made.content,
                    CatPath \notin ToSet(made.paths), DOMAIN disk = DOMAIN made.disk,
                    \A p \in DOMAIN disk : Unchanged(disk[p], made.disk[p])
             PROVE  \E r \in portable_test_file_catalog(c, made.paths, {}) : r.status = "Valid"
  BY DEF UnchangedIsValid
<1>1. PICK alg : ListIsOfTree(alg)
  BY TheCatalog DEF CatalogInv, ListIsKept
<1> DEFINE paths == PathsOf(made.paths)
           subjects == SubjectsIn(DOMAIN disk, paths)
           entry(s) == catalog_ctl_entry(s.name, made.disk[s.path], alg)
<1>2. /\ ToSet(paths) \subseteq Dirs \cup DOMAIN disk \cup {CatPath}
      /\ ~reject_duplicate_catalog_member_names(subjects) /\ subjects # {}
      /\ catalog_members(c) = {entry(s) : s \in subjects}
  BY <1>1 DEF ListIsOfTree, catalog_members, collect_catalog_members
<1>3. Existing = DOMAIN disk \cup {CatPath}
  BY TheCatalog DEF Existing
<1>4. subjects \in collect_catalog_subjects(made.paths)
  <2> DEFINE found == UNION {SubjectsOf(paths, i) : i \in DOMAIN paths}
  <2>1. found = subjects
    BY SubjectsOfWalk
  <2>2. collect_catalog_subjects(made.paths)
        = When(/\ ToSet(paths) \subseteq Dirs \cup Existing
               /\ ~reject_duplicate_catalog_member_names(found)
               /\ found # {}, found)
    BY Zenon DEF collect_catalog_subjects, PathsOf
  <2> HIDE DEF found, paths, subjects
  <2>3. ToSet(paths) \subseteq Dirs \cup Existing
    BY <1>2, <1>3
  <2> QED
    BY <1>2, <2>1, <2>2, <2>3 DEF When
<1>5. ASSUME NEW s \in subjects
      PROVE  /\ entry(s) \in catalog_members(c) /\ entry(s).name = s.name
             /\ entry(s).digest \in catalog_member_digest_for_subject(entry(s), Read(s.path))
  <2>1. s.path \in DOMAIN disk /\ Read(s.path) = disk[s.path]
    BY SubjectIsFile, ReadOfDisk
  <2>3. entry(s).name = s.name
    BY DEF catalog_ctl_entry
  <2>4. entry(s).digest \in catalog_member_digest_for_subject(entry(s), disk[s.path])
    BY <2>1, UnchangedKeepsDigest
  <2> QED
    BY <1>2, <2>1, <2>3, <2>4
<1> HIDE DEF subjects, entry
<1>6. ASSUME NEW s \in subjects, NEW m \in MembersOf(c, Key(s.name)) PROVE m = entry(s)
  <2>1. PICK u \in subjects : m = entry(u) /\ Key(m.name) = Key(s.name)
    BY <1>2 DEF MembersOf
  <2>2. u = s
    BY <1>2, <1>5, <2>1 DEF reject_duplicate_catalog_member_names
  <2> QED
    BY <2>1, <2>2
<1>7. Testable(c, {}, subjects)
  <2>1. catalog_members(c) # {}
    BY <1>2
  <2>2. ASSUME NEW s \in subjects PROVE ~Unreadable(c, s)
    BY <1>5, <1>6 DEF Unreadable
  <2> QED
    BY <2>1, <2>2 DEF Testable
<1>8. ASSUME NEW s \in subjects PROVE PathItem(c, s)[2] = "Valid"
  <2>1. entry(s) \in MembersOf(c, Key(s.name))
    BY <1>5 DEF MembersOf
  <2> QED
    BY <1>5, <2>1, ValidItem
<1>9. MissingKeys(c, {Key(s.name) : s \in {u \in subjects : ~IsSkipped(u, {})}}, {}) = {}
  <2>1. {u \in subjects : ~IsSkipped(u, {})} = subjects
    BY NothingSkipped
  <2>2. {Key(m.name) : m \in catalog_members(c)} \subseteq {Key(s.name) : s \in subjects}
    BY <1>2, <1>5
  <2> QED
    BY <2>1, <2>2 DEF MissingKeys
<1>10. TestOf(c, subjects, {}).status = "Valid"
  BY <1>8, <1>9, ValidTest
<1>11. TestOf(c, subjects, {}) \in portable_test_file_catalog(c, made.paths, {})
  BY <1>4, <1>7, Tested
<1> QED
  BY <1>10, <1>11

(* A test of the paths a catalog was made of says Valid as long as no file   *)
(* changed but by a signature (collect_catalog_subjects,                     *)
(* portable_test_file_catalog).                                              *)
THEOREM UnchangedIsValidAlways == CatalogSpec => []UnchangedIsValid
BY InvIsValid, CatalogInvariance, PTL
=============================================================================

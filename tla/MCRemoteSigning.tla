---------------------------- MODULE MCRemoteSigning ----------------------------
(* One job (jobs share no state that one of them writes), chains of none to   *)
(* three credentials, three polls and four certificates, so that a first, a   *)
(* second and a third rotation can hit the job.                               *)
EXTENDS RemoteSigning

CONSTANTS environment, workload, managed

MCChains == {<<>>, <<managed>>, <<environment, managed>>,
             <<environment, workload, managed>>}
=============================================================================

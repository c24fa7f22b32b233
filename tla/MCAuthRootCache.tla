--------------------------- MODULE MCAuthRootCache ---------------------------
(* A process of the tool and one of the PowerShell module, or two of the      *)
(* module, over enough days for a cached CAB to age past the limit and past   *)
(* every allowance.                                                           *)
EXTENDS AuthRootCache, TLC

CONSTANTS t1, m1, m2

MCRosters == {{t1, m1}, {t1, m2}, {m1, m2}}

Symmetry == Permutations(Modules)

(* What a client leaves in the temporary file is truncated by the next one    *)
(* that opens it, before anybody looks at it: states that differ in it only   *)
(* are one, except that the day of a finished CAB is told apart.              *)
InUse(s) == \E p \in Clients : Slot(p) = s /\ pc[p] \in UsingTemp
Left(f) == IF f.content = "cab" THEN f.day ELSE NoDay
Temp(s) == IF InUse(s) THEN <<tmp[s]>> ELSE <<Left(tmp[s])>>
View == <<now, skew, cab, meta, [s \in Slots |-> Temp(s)], pc, got, stamp, fresh, held>>
=============================================================================

-------------------------- MODULE MCIdentityRepair --------------------------
(***************************************************************************)
(* Small instance of IdentityRepair for TLC: a behaviour repairs or pairs. *)
(* The properties of a repair end where a pairing begins, and the other    *)
(* way round.                                                              *)
(***************************************************************************)
EXTENDS IdentityRepair

VARIABLE kind  \* what the client of this behaviour does

eitherVars == <<allVars, kind>>

EitherInit == RepairInit /\ kind \in {"repair", "pairing"}

\* A repair needs no hash of the administrator and one certificate; the last
\* number is a pairing's.
EitherNext ==
    /\ RepairNext
    /\ UNCHANGED kind
    /\ \/ /\ kind = "repair" /\ NoPairing'
          /\ nextCert' <= MaxCerts
          /\ \A e \in mem'.codes : e.rekey
       \/ kind = "pairing" /\ NoRepair'

EitherSpec == EitherInit /\ [][EitherNext]_eitherVars
=============================================================================

--------------------------- MODULE MCAdmittedCalls ---------------------------
(***************************************************************************)
(* A small instance of AdmittedCalls for TLC: three clients, two of them   *)
(* on one trace.                                                           *)
(***************************************************************************)
EXTENDS AdmittedCalls, TLC

CONSTANTS c1, c2, c3, t1, t2

TwoShareOne  == (c1 :> {t1}) @@ (c2 :> {t1}) @@ (c3 :> {t1, t2})
LimitsDiffer == (c1 :> 2) @@ (c2 :> 3) @@ (c3 :> 2)
=============================================================================

---------------------------- MODULE MCSessions ----------------------------
(***************************************************************************)
(* The instance of Sessions that TLC checks: three assertions, of which    *)
(* two are genuine and name the same subject in different tenants, with    *)
(* windows that overlap only by the skew, and one is not.                  *)
(***************************************************************************)
EXTENDS Sessions, TLC

CONSTANTS i1, t1, t2, a1, a2, forged

MCClaims ==
  a1 :> [subject |-> i1, tenant |-> t1, nbf |-> 0, exp |-> 1, genuine |-> TRUE]
  @@ a2 :> [subject |-> i1, tenant |-> t2, nbf |-> 1, exp |-> 2, genuine |-> TRUE]
  @@ forged :> [subject |-> i1, tenant |-> t1, nbf |-> 0, exp |-> 2, genuine |-> FALSE]

(* Requests and operator processes are interchangeable: no definition and  *)
(* no property singles one out.                                            *)
Interchangeable == Permutations(Requests) \cup Permutations(Operators)

=============================================================================

----------------------------- MODULE MCTenancy -----------------------------
(* A small instance of Tenancy: a tenant that may be removed, one that may follow
   it, and two slugs of which the second is free at first. *)
EXTENDS Tenancy, TLC
CONSTANTS t1, t2, other

Ask(op, host, header, form, token) ==
  [op |-> op, host |-> host, header |-> header, slug |-> form, token |-> token]

RequestsAsked ==
  {Ask("visit", Default, t1, None, t2), Ask("visit", None, t1, None, t2),
   Ask("login", other, None, Default, None), Ask("login", None, t1, None, None),
   Ask("login", None, None, None, None),
   Ask("create", None, None, Default, t1), Ask("boot", None, None, None, None),
   Ask("softRemove", None, t1, None, t1), Ask("hardRemove", None, t1, None, t1)}

SlugsAtFirst == {t1 :> Default @@ t2 :> None, t1 :> None @@ t2 :> None}
============================================================================

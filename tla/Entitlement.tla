----------------------------- MODULE Entitlement -----------------------------
(***************************************************************************)
(* What avtool-web promises about licenses, without webhooks, retries and  *)
(* rows: a user gets a license only after having paid, and loses it only   *)
(* after a subscription of the same user has ended.                        *)
(***************************************************************************)
CONSTANT User

VARIABLES paid,      \* users with a subscription that has been active
          ended,     \* users with a subscription that has been canceled
          licensed   \* users with a license

vars == <<paid, ended, licensed>>

Init == paid = {} /\ ended = {} /\ licensed = {}

Pay(u)    == paid' = paid \cup {u} /\ UNCHANGED <<ended, licensed>>
End(u)    == ended' = ended \cup {u} /\ UNCHANGED <<paid, licensed>>
Grant(u)  == u \in paid /\ licensed' = licensed \cup {u} /\ UNCHANGED <<paid, ended>>
Revoke(u) == u \in ended /\ licensed' = licensed \ {u} /\ UNCHANGED <<paid, ended>>

Next == \E u \in User : Pay(u) \/ End(u) \/ Grant(u) \/ Revoke(u)

Spec == Init /\ [][Next]_vars
=============================================================================

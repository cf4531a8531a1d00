------------------------------- MODULE ApiKeys -------------------------------
(***************************************************************************)
(* The life of one API key: its row, its entry in the Redis cache, and the *)
(* requests that present it.  Keys share nothing, so one is modelled.      *)
(* auth.service.ts, auth.repository.ts, auth.cache-repository.ts, and      *)
(* api-keys.controller.ts, which revokes a key by its id alone.            *)
(*                                                                         *)
(* A validation is cut at its awaits.  Only active rows are ever found and *)
(* cached, so an entry is there or not.  Nothing in the program gives a    *)
(* key an expiry date; expires_at is left out.                             *)
(***************************************************************************)

CONSTANT Requests   \* requests that present the key, each again and again

VARIABLES
    key,      \* the row: "none" before it is created, "active", "revoked"
    cached,   \* Redis holds an entry lgf:v1:apikey:{hash}
    v,        \* v[p]: the validation of request p; began: what the key was
              \* when it began
    racing,   \* history: the requests that the revocation found half-way
    used      \* last_used_at is set

vars == <<key, cached, v, racing, used>>

Idle == [pc |-> "idle", began |-> "none"]

Init ==
    /\ key = "none"
    /\ cached = FALSE
    /\ v = [p \in Requests |-> Idle]
    /\ racing = {}
    /\ used = FALSE

-----------------------------------------------------------------------------
(* The admin's side *)

CreateKey ==
    /\ key = "none"
    /\ key' = "active"
    /\ UNCHANGED <<cached, v, racing, used>>

\* Mutant: DELETE FROM api_keys.
RevokeDeletes ==
    /\ key # "none"
    /\ key' = "deleted"
    /\ UNCHANGED <<cached, v, racing, used>>

\* UPDATE is_active = FALSE.  The controller passes no hash, so the entry in
\* the cache stays.
Revoke ==
    /\ key # "none"
    /\ key' = "revoked"
    /\ racing' = IF key = "active" THEN {p \in Requests : v[p].pc # "idle"} ELSE racing
    /\ UNCHANGED <<cached, v, used>>

-----------------------------------------------------------------------------
(* validateKey *)

\* A request with the key arrives; its holder has it from CreateKey.
Ask(p) ==
    /\ key # "none"
    /\ v[p].pc = "idle"
    /\ v' = [v EXCEPT ![p] = [pc |-> "lookup", began |-> key]]
    /\ UNCHANGED <<key, cached, racing, used>>

\* Mutant: a hit is written back, which restarts its TTL.
GetCachedKeyRefreshed(p) ==
    /\ v[p].pc = "lookup"
    /\ v' = [v EXCEPT ![p].pc = IF cached THEN "warm" ELSE "miss"]
    /\ UNCHANGED <<key, cached, racing, used>>

\* A hit needs no Postgres; the entry says isActive.
GetCachedKey(p) ==
    /\ v[p].pc = "lookup"
    /\ v' = [v EXCEPT ![p].pc = IF cached THEN "in" ELSE "miss"]
    /\ UNCHANGED <<key, cached, racing, used>>

\* Mutant: revoked rows are found, too.
FindByKeyHashAny(p) ==
    /\ v[p].pc = "miss"
    /\ v' = [v EXCEPT ![p].pc = "warm"]
    /\ UNCHANGED <<key, cached, racing, used>>

\* SELECT .. WHERE is_active = TRUE; nothing found is a 401.
FindByKeyHash(p) ==
    /\ v[p].pc = "miss"
    /\ v' = [v EXCEPT ![p] = IF key = "active" THEN [@ EXCEPT !.pc = "warm"] ELSE Idle]
    /\ UNCHANGED <<key, cached, racing, used>>

\* SET .. EX 300, awaited before the key is looked at again.
SetCachedKey(p) ==
    /\ v[p].pc = "warm"
    /\ cached' = TRUE
    /\ v' = [v EXCEPT ![p].pc = "in"]
    /\ UNCHANGED <<key, racing, used>>

\* Redis or Postgres reject a call: a 500.
Fail(p) ==
    /\ v[p].pc \in {"lookup", "miss", "warm"}
    /\ v' = [v EXCEPT ![p] = Idle]
    /\ UNCHANGED <<key, cached, racing, used>>

\* The request goes on to its handler; touchLastUsed writes the row, whether
\* or not the key is still active, or fails, which is only logged.
Pass(p) ==
    /\ v[p].pc = "in"
    /\ v' = [v EXCEPT ![p] = Idle]
    /\ used' \in {used, TRUE}
    /\ UNCHANGED <<key, cached, racing>>

\* Five minutes after it was set, an entry is gone.
Expire ==
    /\ cached
    /\ cached' = FALSE
    /\ UNCHANGED <<key, v, racing, used>>

-----------------------------------------------------------------------------
Validate(p) == GetCachedKey(p) \/ FindByKeyHash(p) \/ SetCachedKey(p) \/ Pass(p)

Next ==
    \/ CreateKey \/ Revoke \/ Expire
    \/ \E p \in Requests : Ask(p) \/ Validate(p) \/ Fail(p)

Spec == Init /\ [][Next]_vars

\* Calls to Redis and Postgres return or fail.  A hit leaves the TTL alone.
Fairness == (\A p \in Requests : WF_vars(Validate(p))) /\ WF_vars(Expire)

FairSpec == Spec /\ Fairness

-----------------------------------------------------------------------------
(* Properties *)

Validation == [pc: {"idle", "lookup", "miss", "warm", "in"},
               began: {"none", "active", "revoked"}]

\* Every variable has its type: a key is never deleted.
TypeOK ==
    /\ key \in {"none", "active", "revoked"}
    /\ cached \in BOOLEAN
    /\ v \in [Requests -> Validation]
    /\ racing \subseteq Requests
    /\ used \in BOOLEAN

\* The key is revoked, and neither the cache nor a request has a copy of the
\* active row.
Gone ==
    /\ key = "revoked"
    /\ ~cached
    /\ \A p \in Requests : v[p].pc \notin {"warm", "in"}

\* Once the last copy of a revoked key is gone, it never comes back: no request
\* that looked it up earlier puts it into the cache again.
RevocationIsFinal == [][Gone => Gone']_vars

\* After a revocation the key stops working for good, however many requests
\* keep presenting it: the cache entry dies of its TTL and is not renewed.
RevokedKeyDies == key = "revoked" ~> []Gone

\* revokeKey: "so the key stops working at once".  Where no validation was under
\* way that could still put the key into the cache, a request that begins after
\* the revocation does not reach its handler.
RevokedKeyIsRefused ==
    racing = {} => \A p \in Requests : v[p].began = "revoked" => v[p].pc # "in"
=============================================================================

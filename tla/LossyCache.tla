----------------------------- MODULE LossyCache -----------------------------
(***************************************************************************)
(* What the storage engine of a node promises its callers: a key holds the *)
(* value last put, or nothing.  Entries may be lost at any moment and are  *)
(* never altered; a deleted entry never comes back.                        *)
(***************************************************************************)
CONSTANTS Keys, Vals, None

VARIABLES cache,   \* cache[k]: the value a read of k finds, or None
          wrote,   \* wrote[k]: the value last put and not deleted, or None
          reply    \* the value a read handed out, with its key; <<>> after a write

vars == <<cache, wrote, reply>>

Nothing == [k \in Keys |-> None]

Init == cache = Nothing /\ wrote = Nothing /\ reply = <<>>

Put(k, v) ==
    /\ cache' = [cache EXCEPT ![k] = v] /\ wrote' = [wrote EXCEPT ![k] = v]
    /\ reply' = <<>>

Delete(k) ==
    /\ cache' = [cache EXCEPT ![k] = None] /\ wrote' = [wrote EXCEPT ![k] = None]
    /\ reply' = <<>>

Lose(k) == cache' = [cache EXCEPT ![k] = None] /\ UNCHANGED <<wrote, reply>>

Reset == cache' = Nothing /\ wrote' = Nothing /\ reply' = <<>>

Read(k) == cache[k] # None /\ reply' = <<k, cache[k]>> /\ UNCHANGED <<cache, wrote>>

Next ==
    \/ \E k \in Keys, v \in Vals : Put(k, v)
    \/ \E k \in Keys : Delete(k) \/ Lose(k) \/ Read(k)
    \/ Reset

Spec == Init /\ [][Next]_vars
=============================================================================

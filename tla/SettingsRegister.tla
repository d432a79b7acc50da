--------------------------- MODULE SettingsRegister ---------------------------
(* What the settings promise, whatever crashes or raises: each key is one    *)
(* durable register.  value is what a restart would find.  The user's file   *)
(* decides it until a boot has adopted the key; from then on only writes do, *)
(* one at a time.  A write takes effect in one step, at most once, and is    *)
(* acknowledged only after that; one that is abandoned has had its effect or *)
(* never has it.                                                             *)
CONSTANTS Key, Setting      \* Setting: what the file may hold, a value per key

VARIABLES
    value,      \* per key, the value a restart finds
    adopted,    \* keys whose value the file no longer decides
    writing,    \* the write under way, at most one: its key, value, taken effect or not
    told        \* per key, the value last adopted or acknowledged

register == <<value, adopted, writing, told>>

ValueOf(k) == {c[k] : c \in Setting}
Write(k, v, kept) == [key |-> k, val |-> v, kept |-> kept]

Init ==
    /\ value \in Setting /\ told = value
    /\ adopted = {} /\ writing = {}

\* At most the values of the keys in K change.
ChangesOnly(K) == value' \in Setting /\ \A k \in Key \ K : value'[k] = value[k]

(* A boot takes a key over, at a value the file had when it was loaded.      *)
Adopt(k) ==
    /\ k \notin adopted /\ writing = {}
    /\ adopted' = adopted \cup {k}
    /\ ChangesOnly({k})
    /\ told' = [told EXCEPT ![k] = value'[k]]
    /\ UNCHANGED writing

(* The user rewrites the file: no key that was adopted changes.              *)
Edit == ChangesOnly(Key \ adopted) /\ UNCHANGED <<adopted, writing, told>>

(* A write is asked for.  It may be one that takes effect at once.           *)
Ask(k, v) ==
    /\ writing' = {Write(k, v, FALSE)}
    /\ UNCHANGED <<value, adopted, told>>

Put(k, v) ==
    /\ writing' = {Write(k, v, TRUE)}
    /\ value' = [value EXCEPT ![k] = v]
    /\ UNCHANGED <<adopted, told>>

Begin == writing = {} /\ \E k \in adopted : \E v \in ValueOf(k) : Ask(k, v) \/ Put(k, v)

(* The write under way takes effect.                                         *)
Keep ==
    \E w \in writing :
        /\ ~w.kept
        /\ writing' = {Write(w.key, w.val, TRUE)}
        /\ value' = [value EXCEPT ![w.key] = w.val]
        /\ UNCHANGED <<adopted, told>>

Acknowledge ==
    \E w \in writing :
        /\ w.kept
        /\ writing' = {}
        /\ told' = [told EXCEPT ![w.key] = w.val]
        /\ UNCHANGED <<value, adopted>>

(* The process dies, or an exception ends the write.                         *)
Abandon ==
    /\ writing # {} /\ writing' = {}
    /\ UNCHANGED <<value, adopted, told>>

Next == (\E k \in Key : Adopt(k)) \/ Edit \/ Begin \/ Keep \/ Acknowledge \/ Abandon

Spec == Init /\ [][Next]_register
=============================================================================

---------------------------- MODULE VectorRemove ----------------------------
(***************************************************************************)
(* openfpm::vector::remove(keys, start) (Vector/map_vector.hpp:892), the   *)
(* loop that takes several elements out of a vector in one pass.  It reads *)
(* and writes the same array: s_k reads the elements that stay, d_k writes *)
(* them further down, a_key is the last key s_k has passed.                *)
(*                                                                         *)
(* orig is what the vector held when remove was called.  The keys are in   *)
(* increasing order and in the vector ("the keys in the vector MUST be     *)
(* sorted"); those before start stay in the vector.                        *)
(* The definitions under "Fault:" are slips the next one could have; no    *)
(* specification uses them.                                                *)
(***************************************************************************)
EXTENDS Integers

CONSTANTS
    Elem,           \* the elements
    MaxOrig,        \* bound: the size of the vector
    MaxStart        \* bound: the keys before the first one used

ASSUME VectorRemoveAssumption == MaxOrig \in Nat /\ MaxStart \in Nat

VARIABLES
    orig_size, orig,    \* the elements at the call: 0 .. orig_size-1
    keys, start,        \* the arguments: keys.get(0 .. n_keys-1)
    n_keys,             \* keys.size()
    v_size, v_base,     \* the vector
    a_key, d_k, s_k,
    pc

args == <<orig_size, orig, keys, start, n_keys>>
loop_vars == <<orig_size, orig, keys, start, n_keys, v_size, v_base, a_key, d_k, s_k, pc>>

-----------------------------------------------------------------------------

\* n_keys keys of places in increasing order from start on.
SortedKeys ==
    {k \in [0 .. n_keys - 1 -> 0 .. orig_size - 1] : \A a \in start .. n_keys - 2 : k[a] < k[a + 1]}

RemoveInit ==
    /\ orig_size \in 0 .. MaxOrig
    /\ orig \in [0 .. orig_size - 1 -> Elem]
    /\ start \in 0 .. MaxStart
    /\ n_keys \in 0 .. MaxStart + MaxOrig
    /\ keys \in SortedKeys
    /\ v_size = orig_size /\ v_base = orig
    /\ a_key = 0 /\ d_k = 0 /\ s_k = 0
    /\ pc = "call"

\* Nothing to remove, or the first key.
Enter ==
    /\ pc = "call"
    /\ IF n_keys <= start
       THEN /\ pc' = "returned"
            /\ UNCHANGED <<a_key, d_k, s_k>>
       ELSE /\ pc' = "while"
            /\ a_key' = start
            /\ d_k' = keys[start]
            /\ s_k' = keys[start] + 1
    /\ UNCHANGED <<args, v_size, v_base>>

Loop ==
    /\ pc = "while" /\ s_k < v_size
    /\ pc' = "skip"
    /\ UNCHANGED <<args, v_size, v_base, a_key, d_k, s_k>>

\* Fault: the key is not compared again after the first one is passed.
AtKeyOnce == a_key = start /\ a_key + 1 < n_keys /\ s_k = keys[a_key + 1]

\* s_k is at the next key.
AtKey == a_key + 1 < n_keys /\ s_k = keys[a_key + 1]

\* The inner loop.
Skip ==
    /\ pc = "skip" /\ AtKey
    /\ a_key' = a_key + 1
    /\ s_k' = keys[a_key + 1] + 1
    /\ UNCHANGED <<args, v_size, v_base, d_k, pc>>

\* Fault: an element is moved although s_k has left the vector.
PastEndNever == FALSE

\* The keys went on to the end of the vector.
PastEnd == s_k >= v_size

Move ==
    /\ pc = "skip" /\ ~ AtKey /\ ~ PastEnd
    /\ v_base' = [v_base EXCEPT ![d_k] = v_base[s_k]]
    /\ d_k' = d_k + 1
    /\ s_k' = s_k + 1
    /\ pc' = "while"
    /\ UNCHANGED <<args, v_size, a_key>>

Return ==
    /\ \/ pc = "while" /\ s_k >= v_size
       \/ pc = "skip" /\ ~ AtKey /\ PastEnd
    /\ v_size' = v_size - (n_keys - start)
    /\ pc' = "returned"
    /\ UNCHANGED <<args, v_base, a_key, d_k, s_k>>

RemoveNext == Enter \/ Loop \/ Skip \/ Move \/ Return

RemoveSpec == RemoveInit /\ [][RemoveNext]_loop_vars

-----------------------------------------------------------------------------

\* Type invariant.  The keys and the two indices are inside the vector the
\* call was given.
RemoveTypeOK ==
    /\ orig_size \in Nat /\ orig \in [0 .. orig_size - 1 -> Elem]
    /\ n_keys \in Nat /\ start \in Nat /\ keys \in [0 .. n_keys - 1 -> 0 .. orig_size - 1]
    /\ v_size \in 0 .. orig_size /\ v_base \in [0 .. orig_size - 1 -> Elem]
    /\ a_key \in Nat /\ d_k \in 0 .. orig_size /\ s_k \in 0 .. orig_size
    /\ pc \in {"call", "while", "skip", "returned"}

\* The index after the last one between the key a and the next.
NextKey(a) == IF a + 1 < n_keys THEN keys[a + 1] ELSE orig_size

\* An element between the key a and the next has a - start + 1 keys below it.
Removed ==
    /\ v_size = orig_size - (n_keys - start)
    /\ \A p \in 0 .. keys[start] - 1 : v_base[p] = orig[p]
    /\ \A a \in start .. n_keys - 1 : \A p \in keys[a] + 1 .. NextKey(a) - 1 :
         v_base[p - (a - start + 1)] = orig[p]

\* Safety: when remove returns, the elements that were not at a key are there,
\* in their order, and the others are gone, however the keys follow each other
\* and the end of the vector (map_vector.hpp:906-926).
Compacted ==
    pc = "returned" => IF n_keys <= start THEN v_base = orig /\ v_size = orig_size ELSE Removed

\* Safety: the loop writes below the place it reads, and reads no place it has
\* written and none beyond the vector (map_vector.hpp:919).
ReadsAhead ==
    /\ pc = "while" => d_k < s_k /\ s_k <= v_size
    /\ pc = "skip" => d_k < s_k /\ s_k <= v_size
    /\ pc = "skip" /\ ~ AtKey /\ ~ PastEnd => s_k \in DOMAIN v_base

=============================================================================

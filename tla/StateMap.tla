------------------------------ MODULE StateMap ------------------------------
(***************************************************************************)
(* What StateDB expects of its trie: a map it works on, and versions of    *)
(* that map it can go back to.  Trie implements it.                        *)
(***************************************************************************)
CONSTANTS
    Key,    \* the addresses of accounts, hashed
    Value,  \* what is stored under them
    None    \* "nothing stored": get raises KeyError

VARIABLES
    work,   \* the map as the running block has changed it
    saved   \* the versions that were committed

vars == <<work, saved>>

Empty == [k \in Key |-> None]

Init ==
    /\ work = Empty
    /\ saved = {}

\* put.
Write(k, v) ==
    /\ work' = [work EXCEPT ![k] = v]
    /\ UNCHANGED saved

\* commit: the map survives what comes.
Save ==
    /\ saved' = saved \cup {work}
    /\ UNCHANGED work

\* clear: what was not committed may be lost, and all of the map with it.
Drop ==
    /\ work' \in {work, Empty}
    /\ work \in saved => work' = work
    /\ UNCHANGED saved

\* A trie at the root of a committed version.
Load(m) ==
    /\ m \in saved
    /\ work' = m
    /\ UNCHANGED saved

Next ==
    \/ \E k \in Key, v \in Value : Write(k, v)
    \/ Save
    \/ Drop
    \/ \E m \in saved : Load(m)

Spec == Init /\ [][Next]_vars

=============================================================================

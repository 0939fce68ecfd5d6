--------------------------- MODULE PersonaRegistry ---------------------------
(***************************************************************************)
(* What the persona store promises its callers (e2e-travel-concierge,      *)
(* personas/store.ts): one registry, to which addPersona and updatePersona *)
(* apply atomically.                                                       *)
(***************************************************************************)
CONSTANTS
    Ids,    \* persona ids
    Dids,   \* DIDs of agents
    Links,  \* what updatePersona sets: active credential and delegation labels
    None

VARIABLE registry  \* each id's entry, or None

\* A persona's DID never changes by an update.
Entry == [did : Dids, link : Links]

Empty == [i \in Ids |-> None]

Init == registry \in [Ids -> Entry \cup {None}]

Add(i, e) == registry' = [registry EXCEPT ![i] = e]

Update(i, l) ==
    /\ registry[i] # None
    /\ registry' = [registry EXCEPT ![i].link = l]

Next ==
    \E i \in Ids :
        \/ \E e \in Entry : Add(i, e)
        \/ \E l \in Links : Update(i, l)

Spec == Init /\ [][Next]_registry
=============================================================================

---------------------------- MODULE CookieStore ----------------------------
(***************************************************************************)
(* What a jar of cookies promises: it knows the last value set for each    *)
(* name, up to its capacity; a new name may be refused when it is full.    *)
(***************************************************************************)
EXTENDS Naturals, FiniteSets

CONSTANT Capacity

VARIABLE store      \* a set of pairs, name and value

StoredNames == {c[1] : c \in store}

SInit == store = {}

Others(name) == {c \in store : c[1] # name}

SSet(name, value) ==
  /\ Cardinality(StoredNames \cup {name}) <= Capacity
  /\ store' = Others(name) \cup {<<name, value>>}

SNext ==
  \E c \in store' : SSet(c[1], c[2])

SSpec == SInit /\ [][SNext]_store
=============================================================================

---------------------------- MODULE ObjectStore ----------------------------
(***************************************************************************)
(* storage.Store (internal/storage/storage.go) as the publishers use it: a *)
(* function from the keys of the objects there are to their contents.      *)
(* Get is application, and fails with ErrNotExist outside the domain; List *)
(* is the domain, restricted to a prefix.                                  *)
(***************************************************************************)

\* Objects of one kind: some of the keys have a value.
IsStore(store, Keys, Values) ==
  DOMAIN store \subseteq Keys /\ store \in [DOMAIN store -> Values]

Empty == [k \in {} |-> {}]

\* Put overwrites an existing object.
Put(store, key, value) ==
  [k \in DOMAIN store \cup {key} |-> IF k = key THEN value ELSE store[k]]

\* Deleting a key that does not exist is not an error.
Delete(store, key) == [k \in DOMAIN store \ {key} |-> store[k]]

\* There is an object with this value at the key.
Holds(store, key, value) == key \in DOMAIN store /\ store[key] = value

=============================================================================

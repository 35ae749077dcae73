------------------------------- MODULE Arrays -------------------------------
(***************************************************************************)
(* The array helper of packages/core/src/array.ts that the lock queue, the *)
(* broker's subscriber lists and the invalidation list are edited with.    *)
(* A definition that says "Faulty" is a variant for the mutation runs.     *)
(***************************************************************************)
EXTENDS Naturals, Sequences

\* The items of an array.
Items(array) == { array[i] : i \in DOMAIN array }

\* No item stands twice.
Once(array) == \A j, k \in DOMAIN array : array[j] = array[k] => j = k

\* array.indexOf(item), for an item that is in the array.
IndexOf(array, item) ==
    CHOOSE i \in DOMAIN array :
        /\ array[i] = item
        /\ \A j \in DOMAIN array : array[j] = item => i <= j

\* Faulty: "delete array[index]" leaves undefined in its place; nothing is
\* removed; the first item is removed whichever was asked for.
RemoveItemHole(array, item) ==
    IF item \notin Items(array)
    THEN array
    ELSE [array EXCEPT ![IndexOf(array, item)] = "undefined"]
RemoveItemNothing(array, item) == array
RemoveItemFirst(array, item) == IF array = <<>> THEN array ELSE Tail(array)

\* splice(index, 1) of the first occurrence; later items move one place down.
arrayRemoveItem(array, item) ==
    IF item \notin Items(array)
    THEN array
    ELSE [ i \in 1 .. (Len(array) - 1) |->
             IF i < IndexOf(array, item) THEN array[i] ELSE array[i + 1] ]

=============================================================================

--------------------------- MODULE AtomicCatalog ---------------------------
(***************************************************************************)
(* What the catalog promises of each manga, whatever its requests do and   *)
(* wherever they fail: it changes in one step, as a whole.  MangaDex's     *)
(* metadata, titles and credits are published together, and that is the    *)
(* only way a deleted manga comes back; the latest volume, once known, is  *)
(* not forgotten, and one looked up only fills a gap; a primary cover is   *)
(* replaced, never lost.  Catalog implements this.                         *)
(***************************************************************************)
EXTENDS Integers

CONSTANTS
    Dex,         \* manga that MangaDex knows
    Manual,      \* local-only manga
    MaxVersion   \* of the versions MangaDex publishes

VARIABLE entry   \* each manga

Manga == Dex \cup Manual
Versions == 1..MaxVersion
Absent == [state |-> "absent", edition |-> 0, last |-> 0, primary |-> "none"]

Init == entry = [m \in Manga |-> Absent]

(* A version of MangaDex's replaces metadata, titles, credits, and the     *)
(* primary cover if it has one.  It comes with a latest volume, which may  *)
(* be a newer one, or keeps it.                                            *)
Publish(m, v, l, p) ==
    /\ m \in Dex
    /\ l \in {entry[m].last} \cup v..MaxVersion
    /\ p \in {entry[m].primary, "dex"}
    /\ entry' = [entry EXCEPT ![m] =
          [state |-> "shown", edition |-> v, last |-> l, primary |-> p]]

Learn(m, l) ==
    /\ m \in Dex
    /\ entry[m].last = 0
    /\ entry' = [entry EXCEPT ![m].last = l]

Create(m, p) ==
    /\ m \in Manual
    /\ entry[m] = Absent
    /\ entry' = [entry EXCEPT ![m].state = "shown", ![m].primary = p]

Edit(m) ==
    /\ entry[m].state \in {"shown", "edited"}
    /\ entry' = [entry EXCEPT ![m].state = "edited"]

Remove(m) ==
    /\ entry[m].state \in {"shown", "edited"}
    /\ entry' = [entry EXCEPT ![m].state = "deleted"]

ReplacePrimary(m) ==
    /\ entry[m].state # "absent"
    /\ entry' = [entry EXCEPT ![m].primary = "manual"]

Next ==
    \/ \E m \in Manga, v \in Versions, l \in 0..MaxVersion,
          p \in {"none", "dex", "manual"} : Publish(m, v, l, p)
    \/ \E m \in Manga, l \in Versions : Learn(m, l)
    \/ \E m \in Manga, p \in {"none", "manual"} : Create(m, p)
    \/ \E m \in Manga : Edit(m) \/ Remove(m) \/ ReplacePrimary(m)

Spec == Init /\ [][Next]_entry
=============================================================================

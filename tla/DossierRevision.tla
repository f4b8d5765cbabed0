--------------------------- MODULE DossierRevision ---------------------------
(***************************************************************************)
(* A row of dossier_revision (migration 0002) and the trigger every UPDATE *)
(* of a row passes (migration 0003).  The columns no key, trigger or       *)
(* foreign key names (parent, materiality, delta, creator) are left out;   *)
(* published stands for published_at IS NOT NULL.                          *)
(***************************************************************************)
EXTENDS TableRows

CONSTANTS
    Dossiers,   \* the dossiers that have a row
    Hashes,     \* values of content_hash
    Revisions   \* the rows statements write

ASSUME HashAssumption == NULL \notin Hashes

VARIABLE dossier_revision

RevisionRows ==
    [id : Ids, dossier : Dossiers, number : Nat \ {0}, hash : Hashes,
     published : BOOLEAN]

ASSUME RevisionAssumption == Revisions \subseteq RevisionRows

\* The primary key and UNIQUE (dossier_id, revision_number) and
\* (dossier_id, content_hash); UNIQUE (id, content_hash) follows from the first.
KeysDiffer(r, s) ==
    /\ r.id # s.id
    /\ r.dossier = s.dossier => r.number # s.number /\ r.hash # s.hash

\* BEFORE UPDATE: nothing of a published revision changes, and never the
\* identity of one; the content of an unpublished one may.
pls_dossier_revision_guard(old, new) ==
    /\ ~old.published
    /\ <<new.id, new.dossier, new.number>> = <<old.id, old.dossier, old.number>>

RevisionInserted(r) ==
    /\ \A s \in dossier_revision : KeysDiffer(r, s)
    /\ dossier_revision' = dossier_revision \cup {r}

RevisionUpdated(old, new) ==
    /\ pls_dossier_revision_guard(old, new)
    /\ \A s \in dossier_revision \ {old} : KeysDiffer(new, s)
    /\ dossier_revision' = (dossier_revision \ {old}) \cup {new}

=============================================================================

--------------------------- MODULE AuthorityStore ---------------------------
(***************************************************************************)
(* The records of authority: what was shown (dossier_revision), asked      *)
(* (decision_intent), agreed to (consent), granted (authority_grant) and   *)
(* spent (expense), under any statements the worker role may send.         *)
(*                                                                         *)
(* No engine writes these tables yet.  What the repository defines is the  *)
(* schema: keys, CHECKs, foreign keys and triggers of migrations 0002 and  *)
(* 0003, and the grants of 0004, which give the worker INSERT on the five  *)
(* tables, UPDATE on three of them, and DELETE on none.  Callbacks that    *)
(* race for one intent or one grant are statements in any order: an UPDATE *)
(* waits for the row, an INSERT for an uncommitted duplicate, and both are *)
(* judged against the committed rows.  A refused statement changes nothing *)
(* and is not a step.                                                      *)
(*                                                                         *)
(* case_id, which the schema ties to case_record only, is left out, and so *)
(* are the gate tables, whose foreign keys refuse some more changes of a   *)
(* content hash.  Key stands for token_hash and idempotency_key.           *)
(***************************************************************************)
EXTENDS DossierRevision

CONSTANTS
    Requests,      \* amount, currency, purpose and action of an expense
    Keys,          \* token hashes and idempotency keys of intents
    Intents, Consents, Grants, Expenses   \* the rows statements write

ASSUME RequestAssumption == NULL \notin Requests

INTENT_STATUSES == {"pending", "consumed", "expired", "superseded"}
GRANT_STATUSES == {"active", "consumed", "revoked", "inapplicable"}

\* consumed stands for consumed_at IS NOT NULL.
IntentRows ==
    [id : Ids, key : Keys, kind : {"expense", "other"},
     revision : Ids \cup {NULL}, hash : Hashes \cup {NULL},
     request : Requests \cup {NULL}, status : INTENT_STATUSES, consumed : BOOLEAN]

ConsentRows ==
    [id : Ids, intent : Ids, revision : Ids, hash : Hashes,
     revokedBy : Ids \cup {NULL}]

GrantRows == [id : Ids, consent : Ids, scope : Requests, status : GRANT_STATUSES]

ExpenseRows == [id : Ids, grant : Ids, consent : Ids, request : Requests]

ASSUME AuthorityAssumption ==
    /\ Intents \subseteq IntentRows
    /\ Consents \subseteq ConsentRows
    /\ Grants \subseteq GrantRows
    /\ Expenses \subseteq ExpenseRows

VARIABLES decision_intent, consent, authority_grant, expense

authorityVars == <<dossier_revision, decision_intent, consent, authority_grant, expense>>

AuthorityTypeOK ==
    /\ dossier_revision \subseteq RevisionRows
    /\ decision_intent \subseteq IntentRows
    /\ consent \subseteq ConsentRows
    /\ authority_grant \subseteq GrantRows
    /\ expense \subseteq ExpenseRows

AuthorityInit ==
    /\ dossier_revision = {}
    /\ decision_intent = {}
    /\ consent = {}
    /\ authority_grant = {}
    /\ expense = {}

-----------------------------------------------------------------------------
(***************************************************************************)
(* dossier_revision.  A content hash that a row names is not changed: the  *)
(* foreign keys on (revision_id, content_hash) refuse the UPDATE.          *)
(***************************************************************************)

\* FOREIGN KEY (revision_id, content_hash); a NULL in either is not checked.
RevisionNamed(row) ==
    \/ row.revision = NULL
    \/ row.hash = NULL
    \/ \E r \in dossier_revision : r.id = row.revision /\ r.hash = row.hash

\* Mutant of ContentNamed: no foreign key names a content hash.
NothingNamed(r) == FALSE

ContentNamed(r) ==
    \E row \in decision_intent \cup consent :
        row.revision = r.id /\ row.hash = r.hash

InsertRevision(r) ==
    /\ RevisionInserted(r)
    /\ UNCHANGED <<decision_intent, consent, authority_grant, expense>>

UpdateRevision(old, new) ==
    /\ RevisionUpdated(old, new)
    /\ new.hash = old.hash \/ ~ContentNamed(old)
    /\ UNCHANGED <<decision_intent, consent, authority_grant, expense>>

-----------------------------------------------------------------------------
(***************************************************************************)
(* decision_intent.                                                        *)
(***************************************************************************)

\* CHECK: an intent to spend says what it asks for.
ExpenseComplete(i) == i.kind # "expense" \/ i.request # NULL

\* Mutant of InsertIntent: idempotency_key is not unique.
IssueAgain(i) ==
    /\ \A j \in decision_intent : i.id # j.id
    /\ ExpenseComplete(i)
    /\ RevisionNamed(i)
    /\ decision_intent' = decision_intent \cup {i}
    /\ UNCHANGED <<dossier_revision, consent, authority_grant, expense>>

InsertIntent(i) ==
    /\ \A j \in decision_intent : i.id # j.id /\ i.key # j.key
    /\ ExpenseComplete(i)
    /\ RevisionNamed(i)
    /\ decision_intent' = decision_intent \cup {i}
    /\ UNCHANGED <<dossier_revision, consent, authority_grant, expense>>

\* Mutant of pls_decision_intent_guard: a resolved intent is resolved again.
ResolvedAgain(old, new) ==
    /\ [old EXCEPT !.status = new.status, !.consumed = new.consumed] = new
    /\ new.status # "pending"
    /\ new.status = "consumed" => new.consumed

\* BEFORE UPDATE: only a pending intent changes, and only to a resolved one;
\* consuming it sets consumed_at.
pls_decision_intent_guard(old, new) ==
    /\ [old EXCEPT !.status = new.status, !.consumed = new.consumed] = new
    /\ old.status = "pending"
    /\ new.status # "pending"
    /\ new.status = "consumed" => new.consumed

UpdateIntent(old, new) ==
    /\ pls_decision_intent_guard(old, new)
    /\ decision_intent' = (decision_intent \ {old}) \cup {new}
    /\ UNCHANGED <<dossier_revision, consent, authority_grant, expense>>

-----------------------------------------------------------------------------
(***************************************************************************)
(* consent, authority_grant and expense.                                   *)
(***************************************************************************)

InsertConsent(c) ==
    /\ \A d \in consent : c.id # d.id /\ c.intent # d.intent
    /\ c.intent \in IdsOf(decision_intent)
    /\ RevisionNamed(c)
    /\ c.revokedBy \in IdsOf(consent) \cup {c.id, NULL}
    /\ consent' = consent \cup {c}
    /\ UNCHANGED <<dossier_revision, decision_intent, authority_grant, expense>>

InsertGrant(g) ==
    /\ g.id \notin IdsOf(authority_grant)
    /\ g.consent \in IdsOf(consent)
    /\ authority_grant' = authority_grant \cup {g}
    /\ UNCHANGED <<dossier_revision, decision_intent, consent, expense>>

\* Mutant of OnlyStatusChanges: the scope of a grant may be widened.
ScopeMayChange(old, new) ==
    [old EXCEPT !.status = new.status, !.scope = new.scope] = new

\* pls_only_columns_change('status')
OnlyStatusChanges(old, new) == [old EXCEPT !.status = new.status] = new

UpdateGrant(old, new) ==
    /\ OnlyStatusChanges(old, new)
    /\ authority_grant' = (authority_grant \ {old}) \cup {new}
    /\ UNCHANGED <<dossier_revision, decision_intent, consent, expense>>

\* Mutant of Authorized: the foreign key names the grant alone.
GrantExists(e) == e.grant \in IdsOf(authority_grant)

\* FOREIGN KEY (authorization_grant_id, consent_id)
Authorized(e) ==
    \E g \in authority_grant : g.id = e.grant /\ g.consent = e.consent

InsertExpense(e) ==
    /\ \A d \in expense : e.id # d.id /\ e.consent # d.consent
    /\ Authorized(e)
    /\ expense' = expense \cup {e}
    /\ UNCHANGED <<dossier_revision, decision_intent, consent, authority_grant>>

AuthorityNext ==
    \/ \E r \in Revisions : InsertRevision(r)
    \/ \E old \in dossier_revision, new \in Revisions : UpdateRevision(old, new)
    \/ \E i \in Intents : InsertIntent(i)
    \/ \E old \in decision_intent, new \in Intents : UpdateIntent(old, new)
    \/ \E c \in Consents : InsertConsent(c)
    \/ \E g \in Grants : InsertGrant(g)
    \/ \E old \in authority_grant, new \in Grants : UpdateGrant(old, new)
    \/ \E e \in Expenses : InsertExpense(e)

AuthoritySpec == AuthorityInit /\ [][AuthorityNext]_authorityVars

-----------------------------------------------------------------------------
(***************************************************************************)
(* What the schema promises whoever writes the tables.                     *)
(***************************************************************************)

ConsentOf(e) == {c \in consent : c.id = e.consent}
IntentOf(e) == {c.intent : c \in ConsentOf(e)}

\* Authority to spend is used once: two expenses share neither the grant, nor
\* the consent, nor the intent behind it, although any status of a grant may be
\* written at any time, "active" after "consumed" included.
AuthorityIsSingleUse ==
    \A d, e \in expense :
        \/ d.grant = e.grant
        \/ d.consent = e.consent
        \/ IntentOf(d) \cap IntentOf(e) # {}
        => d = e

\* A consent names the content its revision still has, published or not.
ConsentNamesContent ==
    \A c \in consent :
        \E r \in dossier_revision : r.id = c.revision /\ r.hash = c.hash

\* The keys and references of the five tables hold together at every moment:
\* the inductive invariant behind the properties above.
Integrity ==
    /\ \A r, s \in dossier_revision : r.id = s.id => r = s
    /\ \A i, j \in decision_intent : i.id = j.id \/ i.key = j.key => i = j
    /\ \A c, d \in consent : c.id = d.id \/ c.intent = d.intent => c = d
    /\ \A g, h \in authority_grant : g.id = h.id => g = h
    /\ \A d, e \in expense : d.id = e.id \/ d.consent = e.consent => d = e
    /\ ConsentNamesContent
    /\ \A c \in consent : c.intent \in IdsOf(decision_intent)
    /\ \A g \in authority_grant : g.consent \in IdsOf(consent)
    /\ \A e \in expense : Authorized(e)

\* What an expense rests on: the terms of its grant, its consent, the request of
\* the intent, and the content of the revision that was shown.
GrantTerms(e) == {<<g.consent, g.scope>> : g \in {h \in authority_grant : h.id = e.grant}}
RequestOf(e) == {i.request : i \in {j \in decision_intent : j.id \in IntentOf(e)}}
ContentOf(e) ==
    {r.hash : r \in {s \in dossier_revision : \E c \in ConsentOf(e) : s.id = c.revision}}

Terms(e) == <<GrantTerms(e), ConsentOf(e), RequestOf(e), ContentOf(e)>>

\* An expense that was recorded stays, and none of its terms changes after it.
TermsAreFinal ==
    [][\A e \in expense : e \in expense' /\ Terms(e)' = Terms(e)]_authorityVars

\* One key, one outcome: once an intent is resolved, no callback that races for
\* it and no intent issued again under its key gives the key another outcome.
OutcomesOf(k) == {i \in decision_intent : i.key = k /\ i.status # "pending"}

OutcomeIsFinal ==
    [][\A k \in Keys : OutcomesOf(k) # {} => OutcomesOf(k)' = OutcomesOf(k)]_authorityVars

=============================================================================

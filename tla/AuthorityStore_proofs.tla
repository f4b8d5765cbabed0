------------------------ MODULE AuthorityStore_proofs ------------------------
(***************************************************************************)
(* What the schema of the authority tables guarantees for any number of    *)
(* rows and any order of statements.  Integrity is inductive; everything   *)
(* else follows from it.                                                   *)
(***************************************************************************)
EXTENDS AuthorityStore, TLAPS

IInv == AuthorityTypeOK /\ Integrity

\* Empty tables satisfy every key and reference.
THEOREM Initially == AuthorityInit => IInv
BY DEF AuthorityInit, IInv, AuthorityTypeOK, Integrity, ConsentNamesContent, IdsOf

-----------------------------------------------------------------------------
(***************************************************************************)
(* One lemma per statement.                                                *)
(***************************************************************************)

LEMMA InsertRevisionKeeps ==
  ASSUME IInv, NEW r \in Revisions, InsertRevision(r)
  PROVE  IInv'
<1>1. AuthorityTypeOK'
  BY AuthorityAssumption, RevisionAssumption DEF IInv, AuthorityTypeOK,
     InsertRevision, RevisionInserted
<1>2. Integrity'
  BY DEF IInv, InsertRevision, RevisionInserted, Integrity, ConsentNamesContent,
     IdsOf, KeysDiffer, Authorized
<1> QED
  BY <1>1, <1>2 DEF IInv

LEMMA UpdateRevisionKeeps ==
  ASSUME IInv, NEW old \in dossier_revision, NEW new \in Revisions,
         UpdateRevision(old, new)
  PROVE  IInv'
<1>1. AuthorityTypeOK'
  BY AuthorityAssumption, RevisionAssumption DEF IInv, AuthorityTypeOK,
     UpdateRevision, RevisionUpdated
<1>2. new.id = old.id
  BY DEF UpdateRevision, RevisionUpdated, pls_dossier_revision_guard
<1>3. \A s \in dossier_revision \ {old} : s.id # new.id
  BY DEF UpdateRevision, RevisionUpdated, KeysDiffer
<1>4. (\A r, s \in dossier_revision : r.id = s.id => r = s)'
  BY <1>3 DEF IInv, Integrity, UpdateRevision, RevisionUpdated
<1>5. ConsentNamesContent'
  <2> SUFFICES ASSUME NEW c \in consent
      PROVE \E r \in (dossier_revision \ {old}) \cup {new} :
                r.id = c.revision /\ r.hash = c.hash
    BY DEF UpdateRevision, RevisionUpdated, ConsentNamesContent
  <2>1. PICK r \in dossier_revision : r.id = c.revision /\ r.hash = c.hash
    BY DEF IInv, Integrity, ConsentNamesContent
  <2>2. CASE r = old
    BY <1>2, <2>1, <2>2 DEF UpdateRevision, RevisionUpdated, ContentNamed
  <2>3. CASE r # old
    BY <2>1, <2>3
  <2> QED
    BY <2>2, <2>3
<1> QED
  BY <1>1, <1>4, <1>5 DEF IInv, Integrity, UpdateRevision, RevisionUpdated, IdsOf,
     Authorized

LEMMA InsertIntentKeeps ==
  ASSUME IInv, NEW i \in Intents, InsertIntent(i)
  PROVE  IInv'
<1>1. AuthorityTypeOK'
  BY AuthorityAssumption DEF IInv, AuthorityTypeOK, InsertIntent
<1>2. (\A j, k \in decision_intent : j.id = k.id \/ j.key = k.key => j = k)'
  BY DEF IInv, Integrity, InsertIntent
<1>3. (\A c \in consent : c.intent \in IdsOf(decision_intent))'
  BY DEF IInv, Integrity, InsertIntent, IdsOf
<1> QED
  BY <1>1, <1>2, <1>3
     DEF IInv, Integrity, InsertIntent, ConsentNamesContent, IdsOf, Authorized

\* The guard of the trigger leaves the key columns of an intent alone.
LEMMA GuardKeepsIdentity ==
  ASSUME NEW old \in IntentRows, NEW new, pls_decision_intent_guard(old, new)
  PROVE  new.id = old.id /\ new.key = old.key /\ new.request = old.request
BY DEF pls_decision_intent_guard, IntentRows

LEMMA UpdateIntentKeeps ==
  ASSUME IInv, NEW old \in decision_intent, NEW new \in Intents,
         UpdateIntent(old, new)
  PROVE  IInv'
<1>1. AuthorityTypeOK'
  BY AuthorityAssumption DEF IInv, AuthorityTypeOK, UpdateIntent
<1>2. new.id = old.id /\ new.key = old.key
  BY GuardKeepsIdentity DEF IInv, AuthorityTypeOK, UpdateIntent
<1>3. (\A i, j \in decision_intent : i.id = j.id \/ i.key = j.key => i = j)'
  BY <1>2 DEF IInv, Integrity, UpdateIntent
<1>4. IdsOf(decision_intent)' = IdsOf(decision_intent)
  BY <1>2 DEF UpdateIntent, IdsOf
<1> QED
  BY <1>1, <1>3, <1>4 DEF IInv, Integrity, UpdateIntent, ConsentNamesContent, IdsOf,
     Authorized

LEMMA InsertConsentKeeps ==
  ASSUME IInv, NEW c \in Consents, InsertConsent(c)
  PROVE  IInv'
<1>1. AuthorityTypeOK'
  BY AuthorityAssumption DEF IInv, AuthorityTypeOK, InsertConsent
<1>2. (\A d, e \in consent : d.id = e.id \/ d.intent = e.intent => d = e)'
  BY DEF IInv, Integrity, InsertConsent
<1>3. ConsentNamesContent'
  <2>1. c.revision # NULL /\ c.hash # NULL
    BY AuthorityAssumption, IdAssumption, HashAssumption DEF ConsentRows
  <2> QED
    BY <2>1 DEF IInv, Integrity, InsertConsent, ConsentNamesContent, RevisionNamed
<1>4. (\A d \in consent : d.intent \in IdsOf(decision_intent))'
  BY DEF IInv, Integrity, InsertConsent, IdsOf
<1>5. (\A g \in authority_grant : g.consent \in IdsOf(consent))'
  BY DEF IInv, Integrity, InsertConsent, IdsOf
<1> QED
  BY <1>1, <1>2, <1>3, <1>4, <1>5 DEF IInv, Integrity, InsertConsent, IdsOf, Authorized

LEMMA InsertGrantKeeps ==
  ASSUME IInv, NEW g \in Grants, InsertGrant(g)
  PROVE  IInv'
<1>1. AuthorityTypeOK'
  BY AuthorityAssumption DEF IInv, AuthorityTypeOK, InsertGrant
<1>2. (\A h, k \in authority_grant : h.id = k.id => h = k)'
  BY DEF IInv, Integrity, InsertGrant, IdsOf
<1>3. (\A e \in expense : Authorized(e))'
  BY DEF IInv, Integrity, InsertGrant, Authorized
<1> QED
  BY <1>1, <1>2, <1>3 DEF IInv, Integrity, InsertGrant, ConsentNamesContent, IdsOf

\* The trigger on grants leaves everything but the status alone.
LEMMA GrantKeepsTerms ==
  ASSUME NEW old \in GrantRows, NEW new, OnlyStatusChanges(old, new)
  PROVE  new.id = old.id /\ new.consent = old.consent /\ new.scope = old.scope
BY DEF OnlyStatusChanges, GrantRows

LEMMA UpdateGrantKeeps ==
  ASSUME IInv, NEW old \in authority_grant, NEW new \in Grants,
         UpdateGrant(old, new)
  PROVE  IInv'
<1>1. AuthorityTypeOK'
  BY AuthorityAssumption DEF IInv, AuthorityTypeOK, UpdateGrant
<1>2. new.id = old.id /\ new.consent = old.consent
  BY GrantKeepsTerms DEF IInv, AuthorityTypeOK, UpdateGrant
<1>3. (\A h, k \in authority_grant : h.id = k.id => h = k)'
  BY <1>2 DEF IInv, Integrity, UpdateGrant
<1>4. (\A e \in expense : Authorized(e))'
  BY <1>2 DEF IInv, Integrity, UpdateGrant, Authorized
<1>5. (\A g \in authority_grant : g.consent \in IdsOf(consent))'
  BY <1>2 DEF IInv, Integrity, UpdateGrant, IdsOf
<1> QED
  BY <1>1, <1>3, <1>4, <1>5 DEF IInv, Integrity, UpdateGrant, ConsentNamesContent, IdsOf

LEMMA InsertExpenseKeeps ==
  ASSUME IInv, NEW e \in Expenses, InsertExpense(e)
  PROVE  IInv'
<1>1. AuthorityTypeOK'
  BY AuthorityAssumption DEF IInv, AuthorityTypeOK, InsertExpense
<1>2. (\A d, f \in expense : d.id = f.id \/ d.consent = f.consent => d = f)'
  BY DEF IInv, Integrity, InsertExpense
<1>3. (\A d \in expense : Authorized(d))'
  BY DEF IInv, Integrity, InsertExpense, Authorized
<1> QED
  BY <1>1, <1>2, <1>3 DEF IInv, Integrity, InsertExpense, ConsentNamesContent, IdsOf

\* No statement the worker role may run breaks a key or a reference of the authority
\* tables (migrations 0002 and 0003).
THEOREM Inductive == IInv /\ [AuthorityNext]_authorityVars => IInv'
<1> SUFFICES ASSUME IInv, [AuthorityNext]_authorityVars PROVE IInv'
  OBVIOUS
<1>1. ASSUME NEW r \in Revisions, InsertRevision(r) PROVE IInv'
  BY <1>1, InsertRevisionKeeps
<1>2. ASSUME NEW old \in dossier_revision, NEW new \in Revisions,
             UpdateRevision(old, new) PROVE IInv'
  BY <1>2, UpdateRevisionKeeps
<1>3. ASSUME NEW i \in Intents, InsertIntent(i) PROVE IInv'
  BY <1>3, InsertIntentKeeps
<1>4. ASSUME NEW old \in decision_intent, NEW new \in Intents,
             UpdateIntent(old, new) PROVE IInv'
  BY <1>4, UpdateIntentKeeps
<1>5. ASSUME NEW c \in Consents, InsertConsent(c) PROVE IInv'
  BY <1>5, InsertConsentKeeps
<1>6. ASSUME NEW g \in Grants, InsertGrant(g) PROVE IInv'
  BY <1>6, InsertGrantKeeps
<1>7. ASSUME NEW old \in authority_grant, NEW new \in Grants,
             UpdateGrant(old, new) PROVE IInv'
  BY <1>7, UpdateGrantKeeps
<1>8. ASSUME NEW e \in Expenses, InsertExpense(e) PROVE IInv'
  BY <1>8, InsertExpenseKeeps
<1>9. CASE UNCHANGED authorityVars
  BY <1>9 DEF authorityVars, IInv, AuthorityTypeOK, Integrity, ConsentNamesContent,
     IdsOf, Authorized
<1> QED
  BY <1>1, <1>2, <1>3, <1>4, <1>5, <1>6, <1>7, <1>8, <1>9 DEF AuthorityNext

-----------------------------------------------------------------------------
(***************************************************************************)
(* What follows.                                                           *)
(***************************************************************************)

LEMMA Invariance == AuthoritySpec => []IInv
BY Initially, Inductive, PTL DEF AuthoritySpec

\* The keys and references of the authority tables always hold together.
THEOREM IntegrityHolds == AuthoritySpec => []Integrity
<1>1. IInv => Integrity
  BY DEF IInv
<1> QED
  BY <1>1, Invariance, PTL

\* A consent never loses the content it names.
THEOREM ConsentsStayExact == AuthoritySpec => []ConsentNamesContent
<1>1. IInv => ConsentNamesContent
  BY DEF IInv, Integrity
<1> QED
  BY <1>1, Invariance, PTL

\* No two expenses share a grant, a consent or an intent: the composite foreign
\* key leads from the grant to one consent, and a consent pays once.
THEOREM SingleUse == AuthoritySpec => []AuthorityIsSingleUse
<1>1. IInv => AuthorityIsSingleUse
  <2> SUFFICES ASSUME IInv, NEW d \in expense, NEW e \in expense,
                      \/ d.grant = e.grant
                      \/ d.consent = e.consent
                      \/ IntentOf(d) \cap IntentOf(e) # {}
               PROVE  d.consent = e.consent
    BY DEF IInv, Integrity, AuthorityIsSingleUse
  <2>1. CASE d.grant = e.grant
    <3>1. PICK g \in authority_grant : g.id = d.grant /\ g.consent = d.consent
      BY DEF IInv, Integrity, Authorized
    <3>2. PICK h \in authority_grant : h.id = e.grant /\ h.consent = e.consent
      BY DEF IInv, Integrity, Authorized
    <3> QED
      BY <2>1, <3>1, <3>2 DEF IInv, Integrity
  <2>2. CASE IntentOf(d) \cap IntentOf(e) # {}
    <3>1. PICK b \in consent, c \in consent :
              b.id = d.consent /\ c.id = e.consent /\ b.intent = c.intent
      BY <2>2 DEF IntentOf, ConsentOf
    <3> QED
      BY <3>1 DEF IInv, Integrity
  <2> QED
    BY <2>1, <2>2
<1> QED
  BY <1>1, Invariance, PTL

\* An intent that changes was pending, so the outcomes of its key only appear.
THEOREM OneOutcome == AuthoritySpec => OutcomeIsFinal
<1>1. IInv /\ [AuthorityNext]_authorityVars =>
        \A k \in Keys : OutcomesOf(k) # {} => OutcomesOf(k)' = OutcomesOf(k)
  <2> SUFFICES ASSUME IInv, [AuthorityNext]_authorityVars, NEW k \in Keys, OutcomesOf(k) # {}
               PROVE  OutcomesOf(k)' = OutcomesOf(k)
    OBVIOUS
  <2>1. PICK i \in decision_intent : i.key = k /\ i.status # "pending"
    BY DEF OutcomesOf
  <2>2. \A j \in decision_intent : j.key = k => j = i
    BY <2>1 DEF IInv, Integrity
  <2>3. ASSUME NEW j \in Intents, InsertIntent(j) PROVE OutcomesOf(k)' = OutcomesOf(k)
    <3>1. j.key # k
      BY <2>1, <2>3 DEF InsertIntent
    <3> QED
      BY <2>3, <3>1 DEF InsertIntent, OutcomesOf
  <2>4. ASSUME NEW old \in decision_intent, NEW new \in Intents, UpdateIntent(old, new)
        PROVE  OutcomesOf(k)' = OutcomesOf(k)
    <3>1. old.status = "pending"
      BY <2>4 DEF UpdateIntent, pls_decision_intent_guard
    <3>2. new.key = old.key /\ old.key # k
      BY <2>1, <2>2, <2>4, <3>1, GuardKeepsIdentity DEF IInv, AuthorityTypeOK,
         UpdateIntent
    <3> QED
      BY <2>4, <3>1, <3>2 DEF UpdateIntent, OutcomesOf
  <2>5. ASSUME UNCHANGED decision_intent PROVE OutcomesOf(k)' = OutcomesOf(k)
    BY <2>5 DEF OutcomesOf
  <2> QED
    BY <2>3, <2>4, <2>5
       DEF AuthorityNext, authorityVars, InsertRevision, RevisionInserted,
           UpdateRevision, RevisionUpdated, InsertConsent, InsertGrant,
           UpdateGrant, InsertExpense
<1> QED
  BY <1>1, Invariance, PTL DEF AuthoritySpec, OutcomeIsFinal

-----------------------------------------------------------------------------
(***************************************************************************)
(* The terms of a recorded expense, table by table.                        *)
(***************************************************************************)

LEMMA ConsentIsKnown ==
  ASSUME IInv, NEW e \in expense
  PROVE  \E c \in consent : c.id = e.consent /\ ConsentOf(e) = {c}
<1>1. PICK g \in authority_grant : g.id = e.grant /\ g.consent = e.consent
  BY DEF IInv, Integrity, Authorized
<1>2. PICK c \in consent : c.id = e.consent
  BY <1>1 DEF IInv, Integrity, IdsOf
<1> QED
  BY <1>2 DEF IInv, Integrity, ConsentOf

LEMMA ConsentIsFinal ==
  ASSUME IInv, [AuthorityNext]_authorityVars, NEW e \in expense
  PROVE  ConsentOf(e)' = ConsentOf(e)
<1>1. PICK c \in consent : c.id = e.consent
  BY ConsentIsKnown
<1>2. ASSUME NEW d \in Consents, InsertConsent(d) PROVE ConsentOf(e)' = ConsentOf(e)
  BY <1>1, <1>2 DEF InsertConsent, ConsentOf
<1>3. ASSUME UNCHANGED consent PROVE ConsentOf(e)' = ConsentOf(e)
  BY <1>3 DEF ConsentOf
<1> QED
  BY <1>2, <1>3
     DEF AuthorityNext, authorityVars, InsertRevision, RevisionInserted,
         UpdateRevision, RevisionUpdated, InsertIntent, UpdateIntent,
         InsertGrant, UpdateGrant, InsertExpense

LEMMA GrantTermsAreFinal ==
  ASSUME IInv, [AuthorityNext]_authorityVars, NEW e \in expense
  PROVE  GrantTerms(e)' = GrantTerms(e)
<1>1. PICK g \in authority_grant : g.id = e.grant
  BY DEF IInv, Integrity, Authorized
<1>2. ASSUME NEW h \in Grants, InsertGrant(h) PROVE GrantTerms(e)' = GrantTerms(e)
  <2>1. h.id # e.grant
    BY <1>1, <1>2 DEF InsertGrant, IdsOf
  <2> QED
    BY <1>2, <2>1 DEF InsertGrant, GrantTerms
<1>3. ASSUME NEW old \in authority_grant, NEW new \in Grants, UpdateGrant(old, new)
      PROVE  GrantTerms(e)' = GrantTerms(e)
  <2>1. new.id = old.id /\ new.consent = old.consent /\ new.scope = old.scope
    BY <1>3, GrantKeepsTerms DEF IInv, AuthorityTypeOK, UpdateGrant
  <2> QED
    BY <1>3, <2>1 DEF UpdateGrant, GrantTerms
<1>4. ASSUME UNCHANGED authority_grant PROVE GrantTerms(e)' = GrantTerms(e)
  BY <1>4 DEF GrantTerms
<1> QED
  BY <1>2, <1>3, <1>4
     DEF AuthorityNext, authorityVars, InsertRevision, RevisionInserted,
         UpdateRevision, RevisionUpdated, InsertIntent, UpdateIntent,
         InsertConsent, InsertExpense

LEMMA RequestIsFinal ==
  ASSUME IInv, [AuthorityNext]_authorityVars, NEW e \in expense
  PROVE  RequestOf(e)' = RequestOf(e)
<1> DEFINE asked == IntentOf(e)
<1>1. asked' = asked
  BY ConsentIsFinal DEF IntentOf
<1>2. asked \subseteq IdsOf(decision_intent)
  BY DEF IntentOf, ConsentOf, IInv, Integrity
<1> HIDE DEF asked
<1>3. RequestOf(e) = {i.request : i \in {j \in decision_intent : j.id \in asked}}
  BY DEF RequestOf, asked
<1>4. RequestOf(e)' = {i.request : i \in {j \in decision_intent' : j.id \in asked}}
  BY <1>1 DEF RequestOf, asked
<1>5. ASSUME NEW k \in Intents, InsertIntent(k) PROVE RequestOf(e)' = RequestOf(e)
  <2>1. k.id \notin asked
    BY <1>2, <1>5 DEF InsertIntent, IdsOf
  <2> QED
    BY <1>3, <1>4, <1>5, <2>1 DEF InsertIntent
<1>6. ASSUME NEW old \in decision_intent, NEW new \in Intents, UpdateIntent(old, new)
      PROVE  RequestOf(e)' = RequestOf(e)
  <2>1. new.id = old.id /\ new.request = old.request
    BY <1>6, GuardKeepsIdentity DEF IInv, AuthorityTypeOK, UpdateIntent
  <2> QED
    BY <1>3, <1>4, <1>6, <2>1 DEF UpdateIntent
<1>7. ASSUME UNCHANGED decision_intent PROVE RequestOf(e)' = RequestOf(e)
  BY <1>3, <1>4, <1>7
<1> QED
  BY <1>5, <1>6, <1>7
     DEF AuthorityNext, authorityVars, InsertRevision, RevisionInserted,
         UpdateRevision, RevisionUpdated, InsertConsent, InsertGrant,
         UpdateGrant, InsertExpense

LEMMA ContentIsFinal ==
  ASSUME IInv, [AuthorityNext]_authorityVars, NEW e \in expense
  PROVE  ContentOf(e)' = ContentOf(e)
<1>1. PICK c \in consent : ConsentOf(e) = {c}
  BY ConsentIsKnown
<1>2. PICK shown \in dossier_revision : shown.id = c.revision /\ shown.hash = c.hash
  BY DEF IInv, Integrity, ConsentNamesContent
<1>3. ContentOf(e) = {r.hash : r \in {s \in dossier_revision : s.id = c.revision}}
  BY <1>1 DEF ContentOf
<1>4. ContentOf(e)' = {r.hash : r \in {s \in dossier_revision' : s.id = c.revision}}
  BY <1>1, ConsentIsFinal DEF ContentOf
<1>5. ASSUME NEW r \in Revisions, InsertRevision(r) PROVE ContentOf(e)' = ContentOf(e)
  <2>1. r.id # c.revision
    BY <1>2, <1>5 DEF InsertRevision, RevisionInserted, KeysDiffer
  <2> QED
    BY <1>3, <1>4, <1>5, <2>1 DEF InsertRevision, RevisionInserted
<1>6. ASSUME NEW old \in dossier_revision, NEW new \in Revisions,
             UpdateRevision(old, new)
      PROVE  ContentOf(e)' = ContentOf(e)
  <2>1. new.id = old.id
    BY <1>6 DEF UpdateRevision, RevisionUpdated, pls_dossier_revision_guard
  <2>2. old.id = c.revision => new.hash = old.hash
    BY <1>2, <1>6 DEF UpdateRevision, RevisionUpdated, ContentNamed, IInv, Integrity
  <2> QED
    BY <1>3, <1>4, <1>6, <2>1, <2>2 DEF UpdateRevision, RevisionUpdated
<1>7. ASSUME UNCHANGED dossier_revision PROVE ContentOf(e)' = ContentOf(e)
  BY <1>3, <1>4, <1>7
<1> QED
  BY <1>5, <1>6, <1>7
     DEF AuthorityNext, authorityVars, InsertIntent, UpdateIntent, InsertConsent,
         InsertGrant,
         UpdateGrant, InsertExpense

\* An expense rests on the same grant, consent, request and content forever: a
\* revision that is not published is held by the foreign key of the consent.
THEOREM ExpensesKeepTheirTerms == AuthoritySpec => TermsAreFinal
<1>1. IInv /\ [AuthorityNext]_authorityVars =>
        \A e \in expense : e \in expense' /\ Terms(e)' = Terms(e)
  <2> SUFFICES ASSUME IInv, [AuthorityNext]_authorityVars, NEW e \in expense
               PROVE  e \in expense' /\ Terms(e)' = Terms(e)
    OBVIOUS
  <2>1. expense \subseteq expense'
    BY DEF AuthorityNext, authorityVars, InsertRevision, RevisionInserted,
       UpdateRevision, RevisionUpdated, InsertIntent, UpdateIntent,
           InsertConsent, InsertGrant, UpdateGrant, InsertExpense
  <2>2. Terms(e)' = Terms(e)
    BY ConsentIsFinal, GrantTermsAreFinal, RequestIsFinal, ContentIsFinal DEF Terms
  <2> QED
    BY <2>1, <2>2
<1> QED
  BY <1>1, Invariance, PTL DEF AuthoritySpec, TermsAreFinal

=============================================================================

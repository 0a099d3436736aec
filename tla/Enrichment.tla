----------------------------- MODULE Enrichment -----------------------------
(***************************************************************************)
(* What the KEV catalogue and the EPSS scores say about a CVE              *)
(* (internal/scanner/enrich.go): the table they are kept in, its refresh,  *)
(* and the annotation of findings.  A pure module: MergeLists owns the     *)
(* table and says when it is refreshed and read.                           *)
(***************************************************************************)
EXTENDS Naturals, Sequences

CONSTANTS
  Ids,       \* the ids findings carry and feeds name
  CVEs,      \* the ids that look like a CVE (IsCVEID)
  NotFetched,\* nil, where a feed's download or its parsing failed
  Scores     \* EPSS scores; 0 is also what a finding without one carries

NoRow == [row |-> "none"]          \* no entry of cve_enrichment

\* KnownExploited and EPSSScore, of a row or of a finding.
Ranking  == [exploited : BOOLEAN, score : Scores \cup {0}]
Unranked == [exploited |-> FALSE, score |-> 0]

\* fetchKEV: a catalogue without an entry is refused, but one whose
\* entries carry no id is a catalogue of nobody.  fetchEPSS: a list
\* without a score of a CVE is refused.
Catalogues == SUBSET Ids
ScoreLists == UNION {[S -> Scores] : S \in (SUBSET CVEs) \ {{}}}

Stored(table, id) == IF table[id] = NoRow THEN Unranked ELSE table[id]

\* A bug: the new catalogue is merged into the old one.
MergedIn(table, kev, epss) ==
  [id \in Ids |->
     IF \/ epss # NotFetched /\ id \in DOMAIN epss
        \/ kev # NotFetched /\ id \in kev
     THEN [exploited |-> \/ Stored(table, id).exploited
                         \/ kev # NotFetched /\ id \in kev,
           score     |-> IF epss # NotFetched /\ id \in DOMAIN epss THEN epss[id]
                         ELSE Stored(table, id).score]
     ELSE table[id]]

\* ReplaceEnrichment, one transaction: a feed that was fetched clears its
\* column everywhere and fills in what it names; the other column stays.
ReplaceEnrichment(table, kev, epss) ==
  LET named(id) == \/ epss # NotFetched /\ id \in DOMAIN epss
                   \/ kev # NotFetched /\ id \in kev
  IN [id \in Ids |->
        IF table[id] = NoRow /\ ~named(id) THEN NoRow
        ELSE [exploited |-> IF kev = NotFetched THEN Stored(table, id).exploited ELSE id \in kev,
              score     |-> IF epss = NotFetched THEN Stored(table, id).score
                            ELSE IF id \in DOMAIN epss THEN epss[id] ELSE 0]]

\* Apply: the findings of CVEs that have a row; the others are left alone.
Apply(table, findings) ==
  [i \in DOMAIN findings |->
     IF findings[i].id \in CVEs /\ table[findings[i].id] # NoRow
     THEN [findings[i] EXCEPT !.ranking = table[findings[i].id]]
     ELSE findings[i]]

\* What a reader may rely on: a CVE ranks as the last accepted copy of each
\* feed says, whatever the table went through.
RankedBy(kev, epss, id) ==
  IF id \notin CVEs THEN Unranked
  ELSE [exploited |-> kev # NotFetched /\ id \in kev,
        score     |-> IF epss # NotFetched /\ id \in DOMAIN epss THEN epss[id] ELSE 0]
=============================================================================

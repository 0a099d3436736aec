------------------------------- MODULE Policy -------------------------------
(***************************************************************************)
(* The policy gate: which rules an artifact breaks at a moment in time     *)
(* (internal/policy/policy.go).  Pure operators, used by PgStore.          *)
(*                                                                         *)
(* A finding is a record [id, severity, status, until, license] with       *)
(* until = NoTime when no risk acceptance was ever recorded.  An artifact  *)
(* is a record [unsafe, hasSBOM, scanAt, provenance, checkedAt, findings]  *)
(* whose findings map each bucket to a set of findings.  A policy is a     *)
(* record [maxSeverity, disallowUnsafe, requireSBOM, maxAge,               *)
(* licenseDenylist, requireProvenance]: maxSeverity maps the buckets it    *)
(* names to a severity or "none", and a maxAge of 0 is no rule.            *)
(* Details, titles and the order of the violations are left out.           *)
(***************************************************************************)
EXTENDS Integers

NoTime == 0

Buckets == {"cve", "malware", "misconfiguration", "secret", "other"}

\* The severities the service knows; any other string is not recognised.
SeverityRank == [critical |-> 5, high |-> 4, medium |-> 3, low |-> 2,
                 negligible |-> 1, unknown |-> 0]

Recognised == DOMAIN SeverityRank

\* What Load lets through, every other policy being refused at startup.
Loadable(p) == /\ DOMAIN p.maxSeverity \subseteq Buckets
               /\ \A b \in DOMAIN p.maxSeverity :
                     p.maxSeverity[b] \in Recognised \cup {"none"}
               /\ p.maxAge >= 0

Configured(p) == \/ DOMAIN p.maxSeverity # {}
                 \/ p.disallowUnsafe \/ p.requireSBOM \/ p.maxAge > 0
                 \/ p.licenseDenylist \/ p.requireProvenance

Accepted(f, now) == f.until # NoTime /\ now < f.until

IsActive(f, now) == /\ f.status \notin {"fixed", "not_affected"}
                    /\ ~Accepted(f, now)

\* A verdict is evidence only while the scan that reached it is the last.
ProvenanceIsStale(a) == IF a.scanAt = NoTime THEN a.checkedAt # NoTime
                        ELSE a.checkedAt = NoTime \/ a.checkedAt < a.scanAt

\* What a severity threshold refuses.  A severity that cannot be compared
\* is refused whatever the threshold.
Exceeds(f, most) == \/ most = "none"
                    \/ f.severity \notin Recognised
                    \/ most \in Recognised /\ SeverityRank[f.severity] > SeverityRank[most]

\* The license rule, when in force, owns the license findings of "other".
OwnedByLicenseRule(p, b, f) == p.licenseDenylist /\ b = "other" /\ f.license

BucketViolations(p, a, b, now) ==
  {[rule |-> "maxSeverity", bucket |-> b, id |-> f.id] :
     f \in {g \in a.findings[b] : /\ IsActive(g, now)
                                  /\ ~OwnedByLicenseRule(p, b, g)
                                  /\ Exceeds(g, p.maxSeverity[b])}}

LicenseViolations(a, now) ==
  {[rule |-> "licenseDenylist", bucket |-> "other", id |-> f.id] :
     f \in {g \in a.findings["other"] : IsActive(g, now) /\ g.license}}

\* The rules about the artifact as a whole that it breaks.
BrokenRules(p, a, now) ==
  {r \in {"disallowUnsafe", "requireSBOM", "requireScanWithinDays", "requireProvenance"} :
     \/ r = "disallowUnsafe" /\ p.disallowUnsafe /\ a.unsafe
     \/ r = "requireSBOM" /\ p.requireSBOM /\ ~a.hasSBOM
     \/ /\ r = "requireScanWithinDays"
        /\ p.maxAge > 0
        /\ a.scanAt = NoTime \/ now - a.scanAt > p.maxAge
     \/ /\ r = "requireProvenance"
        /\ p.requireProvenance
        /\ a.provenance # "verified" \/ ProvenanceIsStale(a)}

Evaluate(p, a, now) ==
  {[rule |-> r, bucket |-> "", id |-> ""] : r \in BrokenRules(p, a, now)}
    \cup (IF p.licenseDenylist THEN LicenseViolations(a, now) ELSE {})
    \cup UNION {BucketViolations(p, a, b, now) : b \in DOMAIN p.maxSeverity}

Pass(p, a, now) == Evaluate(p, a, now) = {}
=============================================================================

----------------------------- MODULE MergeLists -----------------------------
(***************************************************************************)
(* One bucket of one artifact as the list it is (internal/artifact/        *)
(* merge.go): what merging does to the order, the attribution (Source),    *)
(* the detail (Title) and the ranking (KEV, EPSS) of its records, and to   *)
(* ids that occur twice; with the feeds the ranking comes from.            *)
(* ArtifactScan treats findings as a function from ids; `perId` is that    *)
(* function, moved along by module Findings, and FollowsPerId says that    *)
(* the list agrees with it.                                                *)
(***************************************************************************)
EXTENDS Findings, Sequences, SequencesExt, FiniteSetsExt

CONSTANTS
  Coalesced,      \* the bucket is "cve", the one whose reports are coalesced
  Scanners,       \* the scanners of a full round, a sequence
  Reeval,         \* the scanner of an sbom-only round; it is one of Scanners
  Outputs,        \* [scanner -> the lists of findings it may return]
  Submissions,    \* the lists of findings a client may submit
  Documents,      \* the VEX documents a merge may be given
  CVEs,           \* the ids the feeds are looked up for
  KEVFeeds,       \* what a download of the KEV catalogue may bring
  EPSSFeeds,      \* what a download of the EPSS scores may bring
  NotFetched,     \* in place of a feed that could not be had
  MaxStamp        \* bound: merges of one behaviour

Scores == UNION {{feed[id] : id \in DOMAIN feed} : feed \in EPSSFeeds}

INSTANCE Enrichment WITH Ids <- Ids, CVEs <- CVEs, NotFetched <- NotFetched, Scores <- Scores

\* What a scanner returns.  Sources is Source split at its commas.
Report(id, title, sources) ==
  [id |-> id, title |-> title, sources |-> sources, ranking |-> Unranked]

\* What a client may send: it can claim any ranking.
Claim(id, title, sources, ranking) == [Report(id, title, sources) EXCEPT !.ranking = ranking]

\* What a scanner or a client sends is a sequence of well-formed reports.
IsReport(r) == r.id \in Ids /\ DOMAIN r = {"id", "title", "sources", "ranking"}
IsList(s) == s \in Seq(ToSet(s))

ASSUME ConstantsAssumption ==
  /\ Coalesced \in BOOLEAN /\ MaxStamp \in Nat
  /\ DOMAIN Outputs = ToSet(Scanners)
  /\ IsList(Scanners) /\ Reeval \in ToSet(Scanners)
  /\ \A s \in ToSet(Scanners) : \A output \in Outputs[s] :
       /\ IsList(output)
       /\ \A i \in DOMAIN output : /\ IsReport(output[i])
                                   /\ output[i].sources = {s} /\ output[i].ranking = Unranked
  /\ \A output \in Submissions :
       IsList(output) /\ \A i \in DOMAIN output : IsReport(output[i])
  /\ Documents \subseteq [Ids -> Assertions]
  /\ CVEs \subseteq Ids /\ KEVFeeds \subseteq Catalogues /\ EPSSFeeds \subseteq ScoreLists

VARIABLES
  bucket,     \* the list of records, in the order it is stored
  perId,      \* what module Findings says of each id
  clock,      \* the last stamp handed out
  table,      \* cve_enrichment: [id -> its row, or NoRow]
  accepted,   \* history: the last copy of each feed that was stored
  last        \* history: the last merge: by whom, with which reports, and
              \* whether the feeds were looked up

merging == <<bucket, perId, clock, last>>
feeds   == <<table, accepted>>
vars    == <<merging, feeds>>

-----------------------------------------------------------------------------
(* The list operations.                                                    *)

IdsOf(list) == {list[i].id : i \in DOMAIN list}

\* The last report of an id wins (reportedByID).
LastOf(reported, id) == reported[Max({i \in DOMAIN reported : reported[i].id = id})]

\* A set of indices, in order: the k-th is the one with k up to it.
InOrder(indices) ==
  [k \in 1..Cardinality(indices) |->
     CHOOSE i \in indices : Cardinality({j \in indices : j <= i}) = k]

\* The indices at which an id occurs for the first time, in order.
FirstIndices(list) ==
  InOrder({i \in DOMAIN list : \A j \in 1..(i - 1) : list[j].id # list[i].id})

\* A bug: the second scanner's list is simply appended to the first's.
Appended(reported) == reported

\* CoalesceSameIDSources: one report per id, the first one's, with every
\* scanner that made it.
Coalesce(reported) ==
  LET first == FirstIndices(reported) IN
  [k \in DOMAIN first |->
     LET id == reported[first[k]].id IN
     [reported[first[k]] EXCEPT
        !.sources = UNION {reported[i].sources : i \in {j \in DOMAIN reported : reported[j].id = id}}]]

\* A bug: the re-evaluation's own attribution replaces what is on record.
NothingCarried(existing, reported) == reported

\* CarrySourcesForward: whoever already claims a finding keeps claiming it.
CarrySources(existing, reported) ==
  [i \in DOMAIN reported |->
     IF reported[i].id \in IdsOf(existing)
     THEN [reported[i] EXCEPT !.sources = @ \cup LastOf(existing, reported[i].id).sources]
     ELSE reported[i]]

\* A record takes title, sources and ranking of the last report about its
\* id; its lifecycle is its own.
MergeRecord(record, reported, now, detectFixed, vex) ==
  LET isReported == record.id \in IdsOf(reported)
      about == IF isReported THEN LastOf(reported, record.id) ELSE record
  IN [record EXCEPT
        !.title = about.title, !.sources = about.sources, !.ranking = about.ranking,
        !.life = MergeRecorded(record.life, isReported, now, detectFixed, vex[record.id])]

NewRecord(report, now, vex) ==
  [id |-> report.id, title |-> report.title, sources |-> report.sources,
   ranking |-> report.ranking, life |-> MergeNew(now, vex[report.id])]

\* A bug: a report is appended although its id is on record.
MergeAppendingAll(existing, reported, now, detectFixed, vex) ==
  [i \in DOMAIN existing |-> MergeRecord(existing[i], reported, now, detectFixed, vex)]
  \o [i \in DOMAIN reported |-> NewRecord(reported[i], now, vex)]

\* MergeFindings: the records on file, in place; then every report of an
\* id not on file, one record per report.
Merge(existing, reported, now, detectFixed, vex) ==
  LET new == InOrder({i \in DOMAIN reported : reported[i].id \notin IdsOf(existing)}) IN
  [i \in DOMAIN existing |-> MergeRecord(existing[i], reported, now, detectFixed, vex)]
  \o [k \in DOMAIN new |-> NewRecord(reported[new[k]], now, vex)]

-----------------------------------------------------------------------------
Init ==
  /\ bucket = <<>>
  /\ perId = [id \in Ids |-> Untracked]
  /\ clock = 0
  /\ table = [id \in Ids |-> NoRow]
  /\ accepted = [kev |-> NotFetched, epss |-> NotFetched]
  /\ last = [by |-> "nobody", reported |-> <<>>, looked |-> FALSE]

\* The Update of a round, a request or a document, with the look at the
\* feeds just before it.  The look may fail, which changes no report.
MergeBucket(by, reported, merged, detectFixed) ==
  /\ clock < MaxStamp
  /\ clock' = clock + 1
  /\ UNCHANGED feeds
  /\ \E vex \in Documents, looked \in IF Coalesced /\ reported # <<>> THEN BOOLEAN ELSE {FALSE} :
       /\ last' = [by |-> by, reported |-> reported, looked |-> looked]
       /\ bucket' = Merge(bucket, IF looked THEN Apply(table, merged) ELSE merged,
                          clock', detectFixed, vex)
       /\ perId' = MergePartition(perId, Ids, IdsOf(reported), clock',
                                  IF detectFixed THEN Ids ELSE {}, vex)

\* A full round: the scanners' results one after the other, in the order
\* of registration.  Fix detection is on unless a scanner of this bucket
\* failed, whatever it returned.
FullRound ==
  \E output \in [ToSet(Scanners) -> UNION {Outputs[s] : s \in ToSet(Scanners)}] :
    /\ \A s \in ToSet(Scanners) : output[s] \in Outputs[s]
    /\ LET reported == FlattenSeq([k \in DOMAIN Scanners |-> output[Scanners[k]]]) IN
       \E clean \in BOOLEAN :
         MergeBucket("full", reported,
                     IF Coalesced THEN Coalesce(reported) ELSE reported, clean)

\* An sbom-only round, which exists for the cve bucket alone.
Reevaluation ==
  /\ Coalesced
  /\ \E output \in Outputs[Reeval] :
       MergeBucket("sbom-only", output, CarrySources(bucket, Coalesce(output)), FALSE)

\* submitFindings drops the ranking a client claims.
Unclaimed(reported) == [i \in DOMAIN reported |-> [reported[i] EXCEPT !.ranking = Unranked]]

\* submitFindings: not coalesced, taken for complete.
Submission ==
  \E reported \in Submissions : MergeBucket("client", reported, Unclaimed(reported), TRUE)

\* applyVEXToEveryBucket.
Document == MergeBucket("document", <<>>, <<>>, FALSE)

\* acceptFinding, revokeFindingAcceptance: every record of the id.
SetAcceptance(id, given) ==
  /\ id \in IdsOf(bucket)
  /\ bucket' = [i \in DOMAIN bucket |->
                  IF bucket[i].id = id THEN [bucket[i] EXCEPT !.life.accepted = given]
                                       ELSE bucket[i]]
  /\ perId' = [perId EXCEPT ![id].accepted = given]
  /\ last' = [by |-> "accepter", reported |-> <<>>, looked |-> FALSE]
  /\ UNCHANGED <<clock, feeds>>

\* enrich-refresh: each feed is stored if it came and was not refused.
Refresh ==
  \E kev \in KEVFeeds \cup {NotFetched}, epss \in EPSSFeeds \cup {NotFetched} :
    /\ kev # NotFetched \/ epss # NotFetched
    /\ table' = ReplaceEnrichment(table, kev, epss)
    /\ accepted' = [kev  |-> IF kev = NotFetched THEN accepted.kev ELSE kev,
                    epss |-> IF epss = NotFetched THEN accepted.epss ELSE epss]
    /\ last' = [by |-> "refresh", reported |-> <<>>, looked |-> FALSE]
    /\ UNCHANGED <<bucket, perId, clock>>

Next ==
  \/ FullRound
  \/ Reevaluation
  \/ Submission
  \/ Document
  \/ \E id \in Ids, given \in BOOLEAN : SetAcceptance(id, given)
  \/ Refresh

Spec == Init /\ [][Next]_vars

-----------------------------------------------------------------------------
(* Properties.                                                             *)

\* The list agrees with the function other modules use in its place: an id
\* is on the list exactly when it is tracked, and every record of it, be
\* there one or several, has the life module Findings gives the id.
FollowsPerId ==
  /\ IdsOf(bucket) = {id \in Ids : Tracked(perId[id])}
  /\ \A i \in DOMAIN bucket : bucket[i].life = perId[bucket[i].id]

\* However many packages and scanners report a CVE, it is one finding, as
\* long as every submission names each id once.
OneRecordPerId == Coalesced => Cardinality(IdsOf(bucket)) = Len(bucket)

\* Attribution: after a full round a finding it reported is attributed to
\* exactly the scanners that reported it.
Claimants(id) ==
  UNION {last.reported[i].sources : i \in {j \in DOMAIN last.reported : last.reported[j].id = id}}

AttributionIsHonest ==
  Coalesced /\ last.by = "full" =>
    \A i \in DOMAIN bucket : bucket[i].id \in IdsOf(last.reported) =>
      bucket[i].sources = Claimants(bucket[i].id)

\* An sbom-only round takes no scanner's claim away: the attribution of a
\* finding only grows (CarrySourcesForward, scan.go:727-740).
CorroborationKept ==
  [][last'.by = "sbom-only" =>
       \A i \in DOMAIN bucket : bucket[i].sources \subseteq bucket'[i].sources]_vars

\* Neither a refresh that brought one feed only, nor a CVE leaving the
\* catalogue, nor a client's claim shows: where the feeds were looked up, a
\* finding ranks as their last accepted copies say (enrich.go:135-166).  And
\* without a look it ranks as nothing, never as the client claims.
FlagsFollowFeeds ==
  \A i \in DOMAIN bucket : bucket[i].id \in IdsOf(last.reported) =>
    bucket[i].ranking = IF last.looked
                        THEN RankedBy(accepted.kev, accepted.epss, bucket[i].id)
                        ELSE Unranked
=============================================================================

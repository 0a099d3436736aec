---------------------------- MODULE MCMergeLists ----------------------------
(***************************************************************************)
(* An instance of MergeLists: the cve bucket, which trivy (that reports one  *)
(* CVE for several packages) and grype share, with a client that claims    *)
(* rankings; cve2 stands for an advisory that is no CVE.                   *)
(***************************************************************************)
EXTENDS MergeLists, TLC

By(scanner, id, title) == Report(id, title, {scanner})

CVEOutputs ==
  [s \in ToSet(Scanners) |->
     IF s = "trivy"
     THEN {<<>>, <<By(s, "cve1", "a")>>, <<By(s, "cve2", "b")>>,
           <<By(s, "cve1", "a"), By(s, "cve2", "b"), By(s, "cve1", "c")>>}
     ELSE {<<>>, <<By(s, "cve2", "d"), By(s, "cve1", "d")>>}]
Submitted ==
  {<<By("ci", "cve2", "e")>>,
   <<Claim("cve1", "e", {"ci", "trivy"}, [exploited |-> TRUE, score |-> 0]), By("ci", "cve2", "e")>>}

Silence    == [id \in Ids |-> "silent"]
Statements == {Silence, [Silence EXCEPT !["cve1"] = "not_affected"], [Silence EXCEPT !["cve1"] = "affected"]}

TrivyGrype == <<"trivy", "grype">>

KEVSeen  == {{}, {"cve1", "cve2"}}
EPSSSeen == {"cve1" :> 9}

\* TLC keeps the value of a definition, but evaluates what stands for a
\* constant whenever it is used: hence a second name for each.
MCTrivyGrype == TrivyGrype
MCCVEOutputs == CVEOutputs
MCSubmitted  == Submitted
MCDocuments  == Statements
MCKEVFeeds   == KEVSeen
MCEPSSFeeds  == EPSSSeen
=============================================================================

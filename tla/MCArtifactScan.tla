--------------------------- MODULE MCArtifactScan ---------------------------
(***************************************************************************)
(* Instances of ArtifactScan for an image artifact, with the scanners      *)
(* ScannerRegistry registers for it.  One id per kind of finding: a CVE, a *)
(* malware signature, a license finding, and the lack of a signature.      *)
(***************************************************************************)
EXTENDS ArtifactScan, TLC

Registered == INSTANCE ScannerRegistry

Deployment == [cve |-> "trivy", malware |-> "clamav", isolated |-> TRUE, cosign |-> FALSE]

\* trivy and unpacker, each in its Job; and with cosign.
Image        == Registered!Registry(Deployment, {})["image"]
WithCosign   == Registered!Registry([Deployment EXCEPT !.cosign = TRUE], {})["image"]
Reevaluation == Registered!SBOMReevalScanners(Deployment)

\* The source and category an id is reported with.
Shape(id) ==
  CASE id = "cve"      -> <<"trivy", "">>
    [] id = "malware"  -> <<"clamav", "">>
    [] id = "license"  -> <<"license-denylist", "other">>
    [] id = "unsigned" -> <<"cosign", "">>

Report(id) == [source |-> Shape(id)[1], category |-> Shape(id)[2]]

BucketOf == [id \in Ids |-> Registered!ClassifyBucket(Report(id))]
InCVE    == {id \in Ids : BucketOf[id] = "cve"}

Covered  == [s \in Scanners \cup Reeval |->
               {id \in Ids : Report(id) \in Registered!Received(s)}]
Declared == [s \in Scanners \cup Reeval |-> Registered!Blocks(s)]

\* One document per assertion, about the first id given, silent elsewhere.
Saying(id, assertion) == [i \in Ids |-> IF i = id THEN assertion ELSE "silent"]

AllDocuments       == {Saying("cve", a) : a \in Assertions \ {"silent"}}
SuppressAndRetract == {Saying("cve", "not_affected"), Saying("cve", "affected")}

\* The constants.  TLC keeps the value of a definition, but evaluates what
\* stands for a constant whenever it is used: hence a name for each.
MCImage        == Image
MCWithCosign   == WithCosign
MCReevaluation == Reevaluation
MCBucket       == BucketOf
MCCVE          == InCVE
MCLicense      == Ids \cap {"license"}
MCCovers       == Covered
MCAffinity     == Declared
MCAllDocuments == AllDocuments
MCSuppressAndRetract == SuppressAndRetract

\* Whatever the settings, every scanner but cosign declares the buckets its
\* findings are filed in (scanner.go:45-102).
ASSUME DeclarationsAssumption ==
  \A settings \in Registered!Settings, types \in SUBSET Registered!Types :
    \A type \in Registered!Types : \A s \in Registered!Registry(settings, types)[type] :
      s.tool # "cosign" => Registered!DeclaresAll(s)

RoundSymmetry  == Permutations(Rounds)
=============================================================================

---------------------------- MODULE MCScanSlots -----------------------------
(***************************************************************************)
(* Instances of ScanSlots with the kinds and caps ScannerRegistry gives a  *)
(* deployment with SCAN_CONCURRENCY=2, SCAN_CONCURRENCY_MALCONTENT=1 and   *)
(* trivy uncapped on its own.                                              *)
(***************************************************************************)
EXTENDS ScanSlots, TLC

Registered == INSTANCE ScannerRegistry

Deployment == [cve |-> "trivy", malware |-> "malcontent", isolated |-> TRUE, cosign |-> FALSE]

\* Scans of an image and of an SBOM.
ImageOrSBOM ==
  LET scanners == Registered!Registry(Deployment, {})
  IN {Registered!SlotKinds(scanners[type]) : type \in {"image", "sbom"}}

Kinded == UNION ImageOrSBOM
CapOf  == [kind \in Kinded |->
              Registered!Caps(2, "malcontent" :> 1 @@ "trivy" :> 0)[kind]]
RankOf == "*" :> 0 @@ "malcontent" :> 1 @@ "trivy" :> 2

\* TLC keeps the value of a definition, but evaluates what stands for a
\* constant whenever it is used: hence a second name for each.
MCRequests == ImageOrSBOM
MCKinds    == Kinded
MCCap      == CapOf
MCRank     == RankOf
=============================================================================

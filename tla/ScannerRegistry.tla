-------------------------- MODULE ScannerRegistry --------------------------
(***************************************************************************)
(* Which scanners main.go registers for which artifact type, from the      *)
(* operator's settings; which findings each of them emits and the bucket   *)
(* classifyBucket files those in; the buckets each declares, which its     *)
(* failure blocks (BucketAffinity, MultiBucketAffinity, forwarded by       *)
(* FetchingScanner); and the kinds its scans are capped by.                *)
(***************************************************************************)
EXTENDS Naturals

Types   == {"image", "file", "sbom", "sarif"}
Buckets == {"cve", "malware", "misconfiguration", "secret", "other"}

\* CVE_SCANNER and MALWARE_SCANNER ("" for anything unrecognised),
\* ~DISABLE_SCAN_ISOLATION, COSIGN_ENABLED with an identity configured.
Settings == [cve : {"trivy", "grype", "both", ""},
             malware : {"clamav", "malcontent", "both", ""},
             isolated : BOOLEAN, cosign : BOOLEAN]

\* A registered scanner: what it runs, whether it is given an image, a
\* fetched file, a fetched SBOM or the stored SBOM, whether it runs in a Job
\* and whether FetchingScanner wraps it.
Scanner(tool, input, job, fetched) ==
  [tool |-> tool, input |-> input, job |-> job, fetched |-> fetched]

Plugin == "plugin"

-----------------------------------------------------------------------------
(* Registration.                                                           *)

CVEScannersFor(setting, trivy, grype) ==
  CASE setting = "grype" -> {grype}
    [] setting = "both"  -> {trivy, grype}
    [] OTHER             -> {trivy}

MalwareScannersFor(setting, unpacker, malcontent) ==
  CASE setting = "malcontent" -> {malcontent}
    [] setting = "both"       -> {unpacker, malcontent}
    [] OTHER                  -> {unpacker}

\* buildImageScanners, appendSigstore; cosign never runs in a Job.
ImageScanners(settings) ==
  LET On(tool) == Scanner(tool, "image", settings.isolated, FALSE) IN
  CVEScannersFor(settings.cve, On("trivy"), On("grype"))
    \cup MalwareScannersFor(settings.malware, On("unpacker"), On("malcontent"))
    \cup (IF settings.cosign THEN {Scanner("cosign", "image", FALSE, FALSE)} ELSE {})

\* buildSBOMScanners: a Job fetches its own copy of the SBOM.
SBOMScanners(settings) ==
  LET On(tool) == Scanner(tool, "sbom", settings.isolated, ~settings.isolated)
  IN CVEScannersFor(settings.cve, On("trivy"), On("grype"))

\* sbomReevalScanners: only Jobs read a stored document.
SBOMReevalScanners(settings) ==
  LET On(tool) == Scanner(tool, "document", TRUE, FALSE) IN
  IF settings.isolated THEN CVEScannersFor(settings.cve, On("trivy"), On("grype")) ELSE {}

\* registerPluggableScanners, for an operator's command registered for
\* these types.
PluggableScanners(types) ==
  [type \in Types |-> IF type \in types
                      THEN {Scanner(Plugin, type, FALSE, type # "image")} ELSE {}]

\* The scanner.Registry runAPIServer builds.
Registry(settings, types) ==
  [type \in Types |->
     PluggableScanners(types)[type] \cup
       CASE type = "image" -> ImageScanners(settings)
         [] type = "file"  -> {Scanner("clamav", "file", FALSE, TRUE)}
         [] type = "sbom"  -> SBOMScanners(settings)
         [] type = "sarif" -> {Scanner("sarif", "sarif", FALSE, TRUE)}]

-----------------------------------------------------------------------------
(* What a scanner emits, and where its findings are filed.                 *)

Emitted(source, categories) == {[source |-> source, category |-> c] : c \in categories}

\* The Source and Category each scanner gives its findings.  Of trivy's only
\* secrets have a category; a plugin's findings have what its output says.
Emits(scanner) ==
  CASE scanner.tool = "trivy"      -> Emitted("trivy", IF scanner.input = "image"
                                                       THEN {"", "secret"} ELSE {""})
    [] scanner.tool = "grype"      -> Emitted("grype", {""})
    [] scanner.tool \in {"clamav", "unpacker"} -> Emitted("clamav", {""})
    [] scanner.tool = "malcontent" -> Emitted("malcontent", {"malware"})
    [] scanner.tool = "cosign"     -> Emitted("cosign", {""})
    [] scanner.tool = "sarif"      -> Emitted("sarif", Buckets \ {"malware"})
    [] scanner.tool = Plugin       -> Emitted(Plugin, Buckets \cup {""})

\* The JSON of a Finding leaves its category out; the result a Job prints
\* adds it, and the API puts it back (wireFinding).  malcontent's Job prints
\* malcontent's own report, which the API parses.
Serialised(finding) == [finding EXCEPT !.category = ""]

Received(scanner) ==
  IF scanner.job /\ scanner.tool # "malcontent"
  THEN {[Serialised(f) EXCEPT !.category = f.category] : f \in Emits(scanner)}
  ELSE Emits(scanner)

ClassifyBucket(finding) ==
  CASE finding.category \in Buckets -> finding.category
    [] finding.category \notin Buckets /\ finding.source = "clamav" -> "malware"
    [] finding.category \notin Buckets /\ finding.source = "sarif"  -> "other"
    [] OTHER -> "cve"

Writes(scanner) == {ClassifyBucket(f) : f \in Received(scanner)}

-----------------------------------------------------------------------------
(* What a scanner declares.                                                *)

\* MultiBucketAffinity; {} when it, or the scanner wrapped, has none.
DeclaredBuckets(scanner) ==
  CASE scanner.tool = "trivy" /\ scanner.input # "sbom" -> {"cve", "secret"}
    [] scanner.tool = "trivy" /\ scanner.input = "sbom" /\ scanner.job -> {"cve"}
    [] OTHER -> {}

\* BucketAffinity; "" when it, or the scanner wrapped, has none.
DeclaredBucket(scanner) ==
  CASE scanner.tool \in {"clamav", "unpacker", "malcontent"} -> "malware"
    [] scanner.tool = "trivy" /\ scanner.input = "sbom" /\ ~scanner.job -> "cve"
    [] scanner.tool = "grype"  -> "cve"
    [] scanner.tool = "cosign" -> "other"
    [] OTHER -> ""

\* The buckets a failed scanner blocks.
Blocks(scanner) ==
  CASE DeclaredBuckets(scanner) # {}       -> DeclaredBuckets(scanner)
    [] DeclaredBuckets(scanner) = {} /\ DeclaredBucket(scanner) \in Buckets
                                           -> {DeclaredBucket(scanner)}
    [] OTHER                               -> Buckets

\* Its failure blocks every bucket it is able to write to.
DeclaresAll(scanner) == Writes(scanner) \subseteq Blocks(scanner)

-----------------------------------------------------------------------------
(* Kinds and caps.                                                         *)

ScanKinds == {"trivy", "grype", "clamav", "unpacker", "malcontent"}
GlobalScanSlotKind == "*"

\* KindOf: SBOM scanners outside a Job, SARIF and plugins have no kind.
KindOf(scanner) ==
  IF \/ scanner.tool \in {"sarif", Plugin}
     \/ scanner.input = "sbom" /\ ~scanner.job
  THEN "" ELSE scanner.tool

\* The kinds tryAcquireScanSlots asks for.
SlotKinds(scanners) == {GlobalScanSlotKind} \cup ({KindOf(s) : s \in scanners} \ {""})

\* readPerKindScanCaps: a kind without a variable of its own inherits the
\* global cap; 0 is unlimited, and so is a kind no variable exists for.
Caps(global, variables) ==
  [kind \in ScanKinds \cup {"cosign", GlobalScanSlotKind} |->
     CASE kind \in DOMAIN variables /\ kind \in ScanKinds -> variables[kind]
       [] kind = "cosign" -> 0
       [] OTHER -> global]
=============================================================================

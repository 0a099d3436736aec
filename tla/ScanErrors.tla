----------------------------- MODULE ScanErrors -----------------------------
(***************************************************************************)
(* How a round's scan errors become the reason it records                  *)
(* (scanner/classify.go, api/scan.go).  An error's text is the set of the  *)
(* phrases of the classifiers that occur in it: those of the wrapper that  *)
(* made it, and those of the output or the cause it quotes.                *)
(***************************************************************************)
EXTENDS Naturals, Sequences, FiniteSetsExt, SequencesExt

\* The classifiers, most specific first: the first that matches wins.
Classifiers ==
  <<[reason |-> "not_found",            phrases |-> {"not found in the registry"}],
    [reason |-> "registry_auth_failed", phrases |-> {"registry authentication failed",
                                                     "unauthorized"}],
    [reason |-> "unsupported_artifact", phrases |-> {"unsupported artifact type"}],
    [reason |-> "scan_timeout",         phrases |-> {"timed out waiting for"}],
    [reason |-> "scan_crashed",         phrases |-> {"crashed or was killed"}],
    [reason |-> "scan_infra_error",     phrases |-> {"create trivy scan job for",
                                                     "create scan job for",
                                                     "find pod for finished", "read logs for",
                                                     "did not contain a valid result"}],
    [reason |-> "fetch_failed",         phrases |-> {"fetch sbom artifact"}],
    [reason |-> "token_mint_failed",    phrases |-> {"mint scan token"}],
    [reason |-> "scanner_error",        phrases |-> {"scanner panicked:"}]>>

Phrases == UNION {Classifiers[i].phrases : i \in DOMAIN Classifiers}

ClassifyScanError(text) ==
  LET Matching == {i \in DOMAIN Classifiers : Classifiers[i].phrases \cap text # {}}
  IN IF Matching = {} THEN "unknown" ELSE Classifiers[Min(Matching)].reason

ReasonRank(reason) ==
  IF reason = "unknown" THEN Len(Classifiers)
  ELSE CHOOSE n \in 0..Len(Classifiers) - 1 : Classifiers[n + 1].reason = reason

\* The one reason of a round whose scanners all failed, their errors in the
\* order of the scanners: a later one replaces a less specific one.  A round
\* that some scanner completed records none.
FailureReason(texts, scanners) ==
  LET MoreSpecific(reason, text) ==
        LET next == ClassifyScanError(text)
        IN IF reason = "" \/ ReasonRank(next) < ReasonRank(reason) THEN next ELSE reason
  IN IF Len(texts) = scanners THEN FoldLeft(MoreSpecific, "", texts) ELSE ""

\* What the isolated scanners wrap the failure of each step in.
Wrapped(tool, step) ==
  CASE step = "create" /\ tool = "trivy"    -> {"create trivy scan job for"}
    [] step = "create" /\ tool = "unpacker" -> {"create scan job for"}
    [] step = "mint"    -> {"mint scan token"}
    [] step = "timeout" -> {"timed out waiting for"}
    [] step = "crash"   -> {"crashed or was killed"}
    [] step = "pod"     -> {"find pod for finished"}
    [] step = "logs"    -> {"read logs for"}
    [] step = "extract" /\ tool # "malcontent" -> {"did not contain a valid result"}
    [] OTHER            -> {}
=============================================================================

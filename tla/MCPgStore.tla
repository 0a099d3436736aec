------------------------------ MODULE MCPgStore -----------------------------
(* Instances of PgStore for TLC. *)
EXTENDS PgStore, TLC

Package(c, v) == [coordinates |-> c, version |-> v]

Forbidden == {Package("b", 1)}
Fewer == {Package("a", 1), Package("c", 1)}
More == {Package("a", 2), Package("b", 1)}
Inventories == {{}, Fewer, More}
\* A full history, an inventory with a denied license last.
History == {[at |-> n, packages |-> IF n \in {1, 3} THEN Fewer ELSE More] : n \in 1..4}

Vulnerability == [id |-> "cve1", severity |-> "critical", status |-> "open",
                  until |-> NoTime, license |-> FALSE]
Scans == {{}, {Vulnerability}}

Breach == LicenseFindings(More)

\* Vulnerable and from before there was a denylist, or in breach of it.
VulnerableOrInBreach ==
  {[unsafe |-> FALSE, scanAt |-> 4, provenance |-> "verified", checkedAt |-> 4,
    stage |-> "build", stages |-> <<"build">>, team |-> "",
    findings |-> [b \in Buckets |-> CASE b = "cve" -> vulnerabilities
                                      [] b = "other" -> IF vulnerabilities = {} THEN Breach
                                                        ELSE {}
                                      [] OTHER -> {}]] :
     vulnerabilities \in {{}, {Vulnerability}}}

Gate == [maxSeverity |-> [cve |-> "high", other |-> "low"],
              disallowUnsafe |-> FALSE, requireSBOM |-> TRUE, maxAge |-> 3,
              licenseDenylist |-> TRUE, requireProvenance |-> TRUE]

\* The ways to give the clients these kinds of request.
Together(kinds) ==
  {j \in [Clients -> Jobs] :
     \A k \in Jobs : Cardinality({c \in Clients : j[c] = k})
                       = Cardinality({n \in DOMAIN kinds : kinds[n] = k})}

Groups == UNION {Together(kinds) : kinds \in {
             <<"upload", "upload", "delete">>, <<"upload", "scan", "gate">>,
             <<"scan", "accept", "gate">>, <<"scan", "gate", "delete">>,
             <<"edit", "edit", "scan">>, <<"edit", "upload", "delete">>}}

\* TLC keeps the value of a definition, but evaluates what stands for a
\* constant whenever it is used: hence a second name for each.
MCDenied  == Forbidden
MCLists   == Inventories
MCPast    == History
MCReports == Scans
MCKnown   == VulnerableOrInBreach
MCStages  == {"build", "deploy"}
MCInForce == Gate
MCMixes   == Groups

Interchangeable == Permutations(Clients)
=============================================================================

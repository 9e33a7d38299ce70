-------------------------- MODULE MCApprovalInputs --------------------------
EXTENDS ApprovalInputs

\* a_test.go, and files under internal/auth and docs.
MCMatches == {<<"**/*_test.go", "a_test.go">>,
              <<"internal/auth/**", "internal/auth/token.go">>}
MCGoodPaths == {"a_test.go", "main.go"}
MCBadPaths  == {"internal/auth/token.go", "docs/a.md"}
MCHighRisk  == {"internal/auth/**"}

\* A policy that uses every kind of rule, and the default one.
StrictCfg ==
  [requiredChecks |-> {"test"}, requireChangedTests |-> TRUE,
   testPatterns |-> {"**/*_test.go"},
   requireHumanWhen |-> {[kind |-> "ci_status != success", arg |-> ""],
                         [kind |-> "changed_files >", arg |-> 3],
                         [kind |-> "path matches", arg |-> "internal/auth/**"],
                         [kind |-> "risk_level >=", arg |-> "high"]}]
DefaultCfg ==
  [requiredChecks |-> {}, requireChangedTests |-> FALSE,
   testPatterns |-> {"**/*_test.go"}, requireHumanWhen |-> {}]
MCPolicies == {StrictCfg, DefaultCfg}
=============================================================================
